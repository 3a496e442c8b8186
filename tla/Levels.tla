------------------------------- MODULE Levels -------------------------------
(* XP, levels, VIP points and tiers of one user: awardXp and awardVp of      *)
(* gamification.service.ts, for any number of callers.                       *)
(*                                                                           *)
(* An award reads the user, computes totals and writes them by id.  Tasks,   *)
(* missions and achievements award outside any transaction, so that awards   *)
(* interleave statement by statement; a daily claim awards inside its own,   *)
(* whose lock on the user's row keeps other writers out, but not the reads   *)
(* they made before.  An award that fails between two statements takes no    *)
(* further step; its caller logs the error and goes on.                      *)
EXTENDS Integers, Sequences, FiniteSets, FiniteSetsExt, Functions

CONSTANTS
  Awards,      \* calls: each awards Xp and then Vp, if any
  Claims,      \* those among them that are daily claims
  VpOnly,      \* those that award no XP: deposits, campaigns, reviews
  Xp, Vp,      \* what a call awards
  Boosts,      \* multipliers of an active XP boost, 1 for none
  PerLevel,    \* XP of the first level
  LevelBonus,  \* LEVEL_UP_MULTIPLIER
  Requirement  \* requirementVp of tier 1, 2, ...; tier 0 is none

\* The seeded tiers ask for 100 and more, and nothing changes them; an award of
\* no VP does nothing.
LevelsAssumption ==
  /\ IsFiniteSet(Awards) /\ Claims \subseteq Awards /\ VpOnly \subseteq Awards \ Claims
  /\ Xp \in [Awards -> Nat] /\ Vp \in [Awards -> Nat] /\ \A a \in VpOnly : Vp[a] > 0
  /\ Boosts \subseteq Nat \ {0} /\ PerLevel \in Nat \ {0} /\ LevelBonus \in Nat \ {0}
  /\ Requirement \in Seq(Nat \ {0})

VARIABLES
  user,      \* the row: xp, level, vp, tier
  xpEvents, vpEvents,  \* the tables: who logged what
  at,        \* the statement a call is at
  seen,      \* the row as it last read it
  gain,      \* XP it adds, boosted
  reached,   \* the level it reached, 0 for none
  earned,    \* history: calls whose XP was written to the row
  wrote,     \* history: VP written to the row
  torn       \* history: has a call written over what it had not read

tables == <<user, xpEvents, vpEvents>>
calls == <<at, seen, gain, reached>>
history == <<earned, wrote, torn>>
vars == <<tables, calls, history>>

\* getLevelFromXp: floor(sqrt(xp / 100)) + 1.
Level(xp) ==
  1 + CHOOSE n \in 0..xp : PerLevel * n * n <= xp /\ xp < PerLevel * (n + 1) * (n + 1)

\* getUserVipTier: the highest tier whose requirement is met.
Tier(vp) == Max({0} \cup {t \in DOMAIN Requirement : Requirement[t] <= vp})

Init ==
  /\ user = [xp |-> 0, level |-> 1, vp |-> 0, tier |-> 0]
  /\ xpEvents = {} /\ vpEvents = {}
  /\ earned = {} /\ wrote = {} /\ torn = FALSE
  /\ at = [a \in Awards |-> IF a \in VpOnly THEN "readVp" ELSE "new"]
  /\ seen = [a \in Awards |-> user]
  /\ gain = [a \in Awards |-> 0] /\ reached = [a \in Awards |-> 0]

Move(a, from, to) == at[a] = from /\ at' = [at EXCEPT ![a] = to]

-----------------------------------------------------------------------------
(* The statements                                                            *)

WithXp(row, n) == [row EXCEPT !.xp = @ + n, !.level = Level(row.xp + n)]

\* Nothing is awarded, and no tier looked for, unless n > 0; a tier is written
\* only if there is one.
WithVp(row, n) ==
  IF n = 0 THEN row
  ELSE [row EXCEPT !.vp = @ + n, !.tier = IF Tier(row.vp + n) = 0 THEN @ ELSE Tier(row.vp + n)]

\* Faulty variant: the level is paid for whenever it is held.
LevelHeld(before, after) == after.level >= before.level

LeveledUp(before, after) == after.level > before.level

Bonus(level) == LevelBonus * level

AfterXp(a) == IF Vp[a] > 0 THEN "readVp" ELSE "done"

ReadXp(a) ==
  /\ a \notin Claims /\ Move(a, "new", "writeXp")
  /\ seen' = [seen EXCEPT ![a] = user]
  /\ \E boost \in Boosts : gain' = [gain EXCEPT ![a] = boost * Xp[a]]
  /\ UNCHANGED <<tables, reached, history>>

\* The level is computed from the XP that was read; both are written by id.
WriteXp(a) ==
  LET after == WithXp(seen[a], gain[a]) IN
  /\ Move(a, "writeXp", "logXp")
  /\ user' = [user EXCEPT !.xp = after.xp, !.level = after.level]
  /\ reached' = [reached EXCEPT ![a] = IF LeveledUp(seen[a], after) THEN after.level ELSE 0]
  /\ earned' = earned \cup {a} /\ torn' = (torn \/ user.xp # seen[a].xp)
  /\ UNCHANGED <<xpEvents, vpEvents, seen, gain, wrote>>

\* The event tells the amount without the boost.
LogXp(a) ==
  /\ Move(a, "logXp", IF reached[a] > 0 THEN "readBonus" ELSE AfterXp(a))
  /\ xpEvents' = xpEvents \cup {<<a, Xp[a]>>}
  /\ UNCHANGED <<user, vpEvents, seen, gain, reached, history>>

\* What the award of VP at hand is for, and its amount.
Purpose(a) ==
  IF at[a] \in {"readBonus", "writeBonus", "logBonus"}
  THEN <<a, "level_up", Bonus(reached[a])>> ELSE <<a, "own", Vp[a]>>

ReadVp(a) ==
  /\ Move(a, "readBonus", "writeBonus") \/ Move(a, "readVp", "writeVp")
  /\ seen' = [seen EXCEPT ![a] = user]
  /\ UNCHANGED <<tables, gain, reached, history>>

\* The tier is written only if it differs from the tier that was read.
WriteVp(a) ==
  LET after == WithVp(seen[a], Purpose(a)[3]) IN
  /\ Move(a, "writeBonus", "logBonus") \/ Move(a, "writeVp", "logVp")
  /\ user' = [user EXCEPT !.vp = after.vp,
                          !.tier = IF after.tier = seen[a].tier THEN @ ELSE after.tier]
  /\ wrote' = wrote \cup {Purpose(a)}
  /\ torn' = (torn \/ user.vp # seen[a].vp)
  /\ UNCHANGED <<xpEvents, vpEvents, seen, gain, reached, earned>>

LogVp(a) ==
  /\ Move(a, "logBonus", AfterXp(a)) \/ Move(a, "logVp", "done")
  /\ vpEvents' = vpEvents \cup {Purpose(a)}
  /\ UNCHANGED <<user, xpEvents, seen, gain, reached, history>>

\* claimDailyReward: its transaction holds the user's row before it awards.
ClaimAwards(a) ==
  \E boost \in Boosts :
    LET xp == WithXp(user, boost * Xp[a])
        up == LeveledUp(user, xp)
        own == IF Vp[a] > 0 THEN {<<a, "own", Vp[a]>>} ELSE {}
        vps == own \cup IF up THEN {<<a, "level_up", Bonus(xp.level)>>} ELSE {} IN
    /\ a \in Claims /\ Move(a, "new", "done")
    /\ user' = WithVp(WithVp(xp, IF up THEN Bonus(xp.level) ELSE 0), Vp[a])
    /\ xpEvents' = xpEvents \cup {<<a, Xp[a]>>}
    /\ vpEvents' = vpEvents \cup vps /\ wrote' = wrote \cup vps /\ earned' = earned \cup {a}
    /\ gain' = [gain EXCEPT ![a] = boost * Xp[a]]
    /\ reached' = [reached EXCEPT ![a] = IF up THEN xp.level ELSE 0]
    /\ UNCHANGED <<seen, torn>>

Next ==
  \E a \in Awards :
    ReadXp(a) \/ WriteXp(a) \/ LogXp(a) \/ ReadVp(a) \/ WriteVp(a) \/ LogVp(a)
    \/ ClaimAwards(a)

Spec == Init /\ [][Next]_vars

-----------------------------------------------------------------------------

TypeOK ==
  /\ user \in [xp : Nat, level : Nat \ {0}, vp : Nat, tier : {0} \cup DOMAIN Requirement]
  /\ xpEvents \subseteq Awards \X Nat
  /\ vpEvents \subseteq wrote /\ wrote \subseteq Awards \X {"level_up", "own"} \X Nat
  /\ at \in [Awards -> {"new", "writeXp", "logXp", "readBonus", "writeBonus", "logBonus",
                        "readVp", "writeVp", "logVp", "done"}]
  /\ DOMAIN seen = Awards /\ gain \in [Awards -> Nat] /\ reached \in [Awards -> Nat]
  /\ earned \subseteq Awards /\ torn \in BOOLEAN

\* The XP and VP of the row are the sums of what was awarded, its tier is the one
\* its VP call for, and no level pays its bonus twice, unless a call wrote over what
\* it had not read; the level is always the XP's, and what is in no log was awarded
\* by a call that is about to log it, or failed there (awardXp and awardVp, which
\* tasks, missions, reviews and deposits call at the same time).
PointsKept ==
  /\ TypeOK
  /\ user.level = Level(user.xp)
  /\ \A e \in wrote \ vpEvents : at[e[1]] \in {"logBonus", "logVp"}
  /\ torn \/ /\ user.xp = SumFunctionOnSet(gain, earned)
             /\ user.vp = SumFunctionOnSet([e \in wrote |-> e[3]], wrote)
             /\ user.tier = Tier(user.vp)
             /\ \A a, b \in Awards : reached[a] = reached[b] => a = b \/ reached[a] = 0
=============================================================================
