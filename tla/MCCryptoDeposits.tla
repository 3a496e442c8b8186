-------------------------- MODULE MCCryptoDeposits --------------------------
(* The instances of CryptoDeposits and, beside it, of Visits: a deposit and  *)
(* the statistics of visitors share no row, so that one of them is played at *)
(* a time.                                                                   *)
EXTENDS CryptoDeposits, TLC

CONSTANTS u1, u2, d1, d2, h1, h2, v1, c1

CONSTANT Scenes

CONSTANTS b1, b2, q1, q2, q3, r1, r2   \* beacons, deliveries, runs

CONSTANTS Beacons, Sender, Deliveries, Runs,
          Window, DayLength, Rebuild, RawDays, FigureDays, LastTime

VARIABLES time, visit, event, call, daily, run, raced, behind, scene

V == INSTANCE Visits

ASSUME VisitsAssumed == V!VisitsAssumption

traffic == <<time, visit, event, call, daily, run, raced, behind>>

TwoUsers == {u1, u2}
OneDeposit == {d1}
TwoDeposits == {d1, d2}
OneHash == {h1}
TwoHashes == {h1, h2}
OneCheck == {v1}
OneCron == {c1}

SingleOwner == [d \in OneDeposit |-> u1]
OneOwner == [d \in TwoDeposits |-> u1]

\* All page views are one visitor's.
OneVisitor == [b \in Beacons |-> None]

PaidByEither == [from: TwoUsers, kind: {"paid"}]
AnyTransfer == [from: TwoUsers, kind: Kinds]

MCInit ==
  /\ Init /\ V!Init /\ scene \in Scenes
  /\ scene = "traffic" => \A h \in Hashes : chain[h] = [from |-> u1, kind |-> "paid"]

MCNext ==
  \/ scene = "deposit" /\ Next /\ UNCHANGED <<traffic, scene>>
  \/ scene = "traffic" /\ V!Next /\ UNCHANGED <<vars, scene>>

MCSpec == MCInit /\ [][MCNext]_<<vars, traffic, scene>>

MCFairSpec == MCSpec /\ Fairness

MCSymmetry == Permutations(TwoHashes) \cup Permutations(Deliveries)

-----------------------------------------------------------------------------

\* The statistics tell what the visitors did (ingestBeacon, rollupDailyVisits,
\* purgeExpiredVisitorData): stated in Visits.
VisitsTrue == V!VisitsTrue
=============================================================================
