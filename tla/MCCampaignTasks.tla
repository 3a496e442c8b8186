-------------------------- MODULE MCCampaignTasks --------------------------
(* The instances of CampaignTasks and, beside it, of PlatformTasks: two      *)
(* campaigns share no row, so that one of them is played at a time.          *)
EXTENDS CampaignTasks, TLC

CONSTANTS w1, w2, w3, p1, p2, e1, c1, c2, u1, u2

CONSTANT Scenes

\* Of PlatformTasks; its workers are other elements than those of CampaignTasks.
CONSTANTS Takers, Calls, Updates, Orders, MaxEdits, Slots, Prices, Kept

VARIABLES offer, taken, call, update, order, funded, earned, returned, history

VARIABLE scene

P == INSTANCE PlatformTasks WITH
       Workers <- Takers, task <- offer, completion <- taken, paid <- earned,
       refunded <- returned

ASSUME PlatformAssumed == P!PlatformAssumption

platform == <<offer, taken, call, update, order, funded, earned, returned, history>>

TwoWorkers == {w1, w2}
ThreeWorkers == {w1, w2, w3}
TwoProofs == {p1, p2}
OneEdit == {e1}
NoEdit == {}

MCInit ==
  /\ Init /\ P!Init /\ scene \in Scenes
  /\ scene # "campaign" =>
       /\ ~autoVerify /\ \A e \in Edits : edit[e].to = "ACTIVE"
       /\ \A p, q \in Proofs : proof[p] = proof[q] /\ proof[p].op = "submit"
  /\ scene # "platform" =>
       funded = 0 /\ \A s \in Slots, p \in Prices : offer.cost <= s * p

MCNext ==
  \/ scene = "campaign" /\ Next /\ UNCHANGED <<platform, scene>>
  \/ scene = "platform" /\ P!Next /\ UNCHANGED <<vars, scene>>

MCSpec == MCInit /\ [][MCNext]_<<vars, platform, scene>>

\* Users and calls are interchangeable.
Interchangeable == Permutations(Workers) \cup Permutations(Proofs) \cup Permutations(Calls)

-----------------------------------------------------------------------------

\* The row of a platform task adds up (updatePlatformTask, claimCompletionForVerification,
\* resolveFundedRefund): stated in PlatformTasks.
TaskAddsUp == P!TaskAddsUp
=============================================================================
