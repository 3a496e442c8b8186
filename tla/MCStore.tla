------------------------------ MODULE MCStore ------------------------------
(* The instance of Store and, beside it, of Backfill: an inventory and the   *)
(* settlement figures of deposits have no column in common, so that one of   *)
(* them is played at a time.                                                 *)
EXTENDS Integers, FiniteSets, TLC

\* Of Store; a customer is a user of Store, NoOne its None.
CONSTANTS Customers, Consumables, Cosmetics, Limits, MaxOwned, MaxQuantity, Buys, Uses, Gifts, NoOne

\* Of Backfill, whose chains are named like the purchases.
CONSTANTS Deposits, Figures, PageSize, MaxScan, Quota

VARIABLES limit, sold, buyAt, order, holder, kind, qty, useAt, target, seen, found, giftAt, gift,
          got, granted, overwritten

VARIABLES newest, rejected, missing, call, oldest, examined

VARIABLE scene

G == INSTANCE Store WITH Users <- Customers, None <- NoOne, torn <- overwritten

B == INSTANCE Backfill WITH Chains <- Buys, None <- NoOne

ASSUME StoreAssumed == G!StoreAssumption
ASSUME BackfillAssumed == B!BackfillAssumption

store == <<limit, sold, buyAt, order, holder, kind, qty, useAt, target, seen, found, giftAt, gift,
           got, granted, overwritten>>
backfill == <<newest, rejected, missing, call, oldest, examined>>

MCStoreInit ==
  /\ G!Init /\ B!Init /\ scene \in {"store", "backfill"}
  /\ scene # "store" => \A i \in G!Items, n \in Limits : n <= limit[i]
  /\ scene # "backfill" => newest = 1 /\ missing[1] = {}

\* One deposit is rejected; chains overlap on three deposits that lack one
\* figure each, and a chain of its own meets four that may lack both.
Few ==
  /\ Cardinality(rejected) <= 1
  /\ \/ Cardinality({c \in Buys : call[c].at # "new"}) <= 1
     \/ newest <= 3 /\ (\A d \in Deposits : Cardinality(missing[d]) <= 1)

MCStoreNext ==
  \/ scene = "store" /\ G!Next /\ UNCHANGED <<backfill, scene>>
  \/ scene = "backfill" /\ B!Next /\ Few' /\ UNCHANGED <<store, scene>>

MCStoreSpec == MCStoreInit /\ [][MCStoreNext]_<<store, backfill, scene>>

MCStoreSymmetry == Permutations(Buys) \cup Permutations(Customers) \cup Permutations(Uses)

-----------------------------------------------------------------------------

\* Nobody pays twice for a cosmetic and no sale passes the limit (purchaseItem):
\* stated in Store.
GuardsNotRaced == G!GuardsNotRaced

\* No unit leaves the inventory before its effect (useItem): stated in Store.
KeptUntilApplied == G!KeptUntilApplied

\* A chain of backfill calls leaves no deposit unasked, and its cursors come to
\* an end (backfillSettlement): stated in Backfill.
BackfillComplete == B!BackfillComplete
=============================================================================
