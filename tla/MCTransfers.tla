---------------------------- MODULE MCTransfers ----------------------------
(* The instance of Transfers and, beside it, of Forum, Standing and Levels:  *)
(* tips, the forum, the reports about users and their XP share no row, so    *)
(* that one of them is played at a time.                                     *)
EXTENDS Transfers

CONSTANTS ann, bob, cat, r1, firstTask, deposit

\* Of Forum.
CONSTANTS Topics, Replies, Deletes, Edits

\* Of Standing.
CONSTANTS Reports, Severity, Limit, Others, Resolutions, Orders, Verifies, Resends, Links,
          Requests

\* Of Levels, whose Awards are XpAwards.
CONSTANTS XpAwards, Claims, VpOnly, Xp, Vp, Boosts, PerLevel, LevelBonus, Requirement,
          task, mission, daily, bought

\* Calls and rows of all of them; what two of them share a name for has nothing
\* else in common, but permutations of one are those of the other.
CONSTANTS g1, g2, a1, a2

VARIABLES topic, reply, deleting, edit, swept, crossed

VARIABLES status, cache, openFlags, report, resolved, order, link, verify, resend, request,
          quiet, late, pardoned

VARIABLES points, xpEvents, vpEvents, statement, basis, gain, reached, earned, wrote, torn

VARIABLE scene

F == INSTANCE Forum
S == INSTANCE Standing WITH flags <- openFlags
L == INSTANCE Levels WITH Awards <- XpAwards, user <- points, at <- statement, seen <- basis

ASSUME ForumAssumed == F!ForumAssumption
ASSUME StandingAssumed == S!StandingAssumption
ASSUME LevelsAssumed == L!LevelsAssumption

forum == <<topic, reply, deleting, edit, swept, crossed>>

standing ==
  <<status, cache, openFlags, report, resolved, order, link, verify, resend, request, quiet,
    late, pardoned>>

levels == <<points, xpEvents, vpEvents, statement, basis, gain, reached, earned, wrote, torn>>

MCCircles == {<<ann>>, <<bob>>, <<bob, cat>>}
MCReferrer == r1 :> ann
MCReferee == r1 :> bob
MCReferrerBonus == firstTask :> 2 @@ deposit :> 1
MCRefereeBonus == firstTask :> 0 @@ deposit :> 1
MCSeverity == g1 :> "critical" @@ g2 :> "critical" @@ r1 :> "high"
MCLimit == [critical |-> 2, high |-> 1]
MCXp == task :> 25 @@ mission :> 25 @@ daily :> 25 @@ bought :> 0
MCVp == task :> 1 @@ mission :> 0 @@ daily :> 1 @@ bought :> 5
MCRequirement == <<1, 40>>

\* Bounds of the two larger scenes: any 3 of the deletions and edits, and any 6 of the
\* calls that touch a user's standing.
FewEdits ==
  Cardinality({d \in Deletes : deleting[d].at # "none"})
    + Cardinality({e \in Edits : edit[e].at # "none"}) <= 3

FewCalls ==
  Cardinality({r \in Reports : report[r] # "none"}) + Cardinality(openFlags \cap Others)
    + Cardinality(resolved) + Cardinality({o \in Orders : order[o] # "none"})
    + Cardinality({v \in Verifies : verify[v].at # "none"})
    + Cardinality({s \in Resends : resend[s] # "none"})
    + Cardinality({q \in Requests : request[q].at # "none"}) <= 6

MCInit ==
  /\ Init /\ F!Init /\ S!Init /\ L!Init
  /\ scene \in {"transfers", "forum", "standing", "levels"}
  /\ scene # "standing" => status = "ACTIVE"

MCNext ==
  \/ scene = "transfers" /\ Next /\ UNCHANGED <<forum, standing, levels, scene>>
  \/ scene = "forum" /\ F!Next /\ FewEdits' /\ UNCHANGED <<vars, standing, levels, scene>>
  \/ scene = "standing" /\ S!Next /\ FewCalls' /\ UNCHANGED <<vars, forum, levels, scene>>
  \/ scene = "levels" /\ L!Next /\ UNCHANGED <<vars, forum, standing, scene>>

MCSpec == MCInit /\ [][MCNext]_<<vars, forum, standing, levels, scene>>

MCSymmetry ==
  Permutations({g1, g2}) \cup Permutations({a1, a2})

-----------------------------------------------------------------------------

\* A topic's count of replies and its status are true (createReply, deleteReply,
\* pinTopic, unlockTopic): stated in Forum.
TopicsTrue == F!TopicsTrue

\* Reports that come at once do not count past one another (submitReport,
\* checkAndEscalate): stated in Standing.
ThresholdNotMissed == S!ThresholdNotMissed

\* No cached entry admits a restricted user once updateUserStatus has answered
\* (JwtStrategy.validate): stated in Standing.
RestrictionBites == S!RestrictionBites

\* Totals of XP and VP, level and tier are those of what was awarded (awardXp,
\* awardVp): stated in Levels.
PointsKept == L!PointsKept
=============================================================================
