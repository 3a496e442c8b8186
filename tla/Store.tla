------------------------------- MODULE Store -------------------------------
(* The store: purchaseItem, useItem with its loot boxes (store.service.ts),  *)
(* and the inventory rows that prizes and admins add, for any users.         *)
(*                                                                           *)
(* A purchase is one transaction under the lock of its item's row: what it   *)
(* checks, PurchaseRead, and what it commits, PurchaseCommit, are two steps, *)
(* because the inventory rows it looks at are not locked.  useItem has no    *)
(* transaction: it reads a row, applies the effect and writes the quantity   *)
(* it computed from what it read.                                            *)
EXTENDS Integers, FiniteSets, FiniteSetsExt

CONSTANTS
  Users,
  Consumables,  \* items that are used up; each may be a loot box
  Cosmetics,    \* items that are owned once
  Limits,       \* values of limitedQty
  MaxOwned,     \* maxOwnedPerUser
  MaxQuantity,  \* bound: units of one purchase
  Buys,         \* calls of purchaseItem
  Uses,         \* calls of useItem
  Gifts,        \* units that admins, the wheel and the daily reward give
  None          \* no user, no item

StoreAssumption ==
  /\ Consumables \cap Cosmetics = {} /\ None \notin Users \cup Consumables \cup Cosmetics
  /\ Limits \subseteq Nat /\ MaxOwned \in Nat /\ MaxQuantity \in Nat \ {0}
  /\ Buys \cap Uses = {} /\ Buys \cap Gifts = {} /\ Uses \cap Gifts = {}
  /\ IsFiniteSet(Uses)

VARIABLES
  limit,    \* store_items.limitedQty
  sold,     \* sum of store_purchases.quantity by item
  buyAt,    \* where a purchase stands
  order,    \* and what it buys
  holder, kind, qty,  \* user_inventory: user, item and quantity; 0 is no row
  useAt,    \* where a use stands
  target,   \* the row it uses
  seen,     \* the quantity it read
  found,    \* the cosmetic its loot box revealed
  giftAt, gift,       \* where an admin's grant stands, and the row it found
  got,      \* history: units ever put into a row
  granted,  \* history: uses whose effect was applied
  torn      \* history: rows written by a use that had read another quantity

rows == <<holder, kind, qty, got>>
buying == <<limit, sold, buyAt, order>>
using == <<useAt, target, seen, found, granted, torn>>
giving == <<giftAt, gift>>
vars == <<buying, rows, using, giving>>

Items == Consumables \cup Cosmetics

\* A row is named for the call that created it.
Rows == Buys \cup Uses \cup Gifts

NoOrder == [user |-> None, item |-> None, n |-> 0]

Init ==
  /\ limit \in [Items -> Limits]
  /\ sold = [i \in Items |-> 0]
  /\ buyAt = [b \in Buys |-> "none"]
  /\ order = [b \in Buys |-> NoOrder]
  /\ holder = [id \in Rows |-> None]
  /\ kind = [id \in Rows |-> None]
  /\ qty = [id \in Rows |-> 0]
  /\ useAt = [c \in Uses |-> "none"]
  /\ target = [c \in Uses |-> c]
  /\ seen = [c \in Uses |-> 0]
  /\ found = [c \in Uses |-> None]
  /\ giftAt = [g \in Gifts |-> "none"]
  /\ gift = [g \in Gifts |-> [user |-> None, item |-> None, row |-> g]]
  /\ got = [id \in Rows |-> 0]
  /\ granted = {}
  /\ torn = {}

Held(u, i) == {id \in Rows : qty[id] > 0 /\ holder[id] = u /\ kind[id] = i}

Owned(u, i) == MapThenSumSet(LAMBDA id : qty[id], Held(u, i))

Create(id, u, i, n) ==
  /\ holder' = [holder EXCEPT ![id] = u]
  /\ kind' = [kind EXCEPT ![id] = i]
  /\ qty' = [qty EXCEPT ![id] = n]
  /\ got' = [got EXCEPT ![id] = n]

Stack(id, n) ==
  /\ qty' = [qty EXCEPT ![id] = @ + n]
  /\ got' = [got EXCEPT ![id] = @ + n]
  /\ UNCHANGED <<holder, kind>>

-----------------------------------------------------------------------------
(* purchaseItem                                                              *)

\* Faulty: the item's row is read without FOR UPDATE.  (A faulty variant stands
\* before the definition it would replace; the README says what rejects it.)
NeverLocked(i) == FALSE

Locked(i) == \E b \in Buys : buyAt[b] = "locked" /\ order[b].item = i

\* The guards under the lock.
Sellable(u, i, n) ==
  /\ i \in Cosmetics => Held(u, i) = {}
  /\ Owned(u, i) + n <= MaxOwned
  /\ sold[i] + n <= limit[i]

PurchaseRead(b, u, i, n) ==
  /\ buyAt[b] = "none" /\ ~Locked(i) /\ Sellable(u, i, n)
  /\ buyAt' = [buyAt EXCEPT ![b] = "locked"]
  /\ order' = [order EXCEPT ![b] = [user |-> u, item |-> i, n |-> n]]
  /\ UNCHANGED <<limit, sold, rows, using, giving>>

\* Debit, store_purchases row and inventory.  A cosmetic is one row of one unit,
\* whatever was paid for.
PurchaseCommit(b) ==
  LET u == order[b].user  i == order[b].item  n == order[b].n
  IN  /\ buyAt[b] = "locked"
      /\ buyAt' = [buyAt EXCEPT ![b] = "done"]
      /\ sold' = [sold EXCEPT ![i] = @ + n]
      /\ \/ i \in Cosmetics /\ Create(b, u, i, 1)
         \/ i \in Consumables /\ Held(u, i) = {} /\ Create(b, u, i, n)
         \/ i \in Consumables /\ \E id \in Held(u, i) : Stack(id, n)
      /\ UNCHANGED <<limit, order, using, giving>>

\* Too few credits, contention in the wallet, a row that went away.
PurchaseRollBack(b) ==
  /\ buyAt[b] = "locked"
  /\ buyAt' = [buyAt EXCEPT ![b] = "failed"]
  /\ UNCHANGED <<limit, sold, order, rows, using, giving>>

-----------------------------------------------------------------------------
(* useItem, applyEffect, openLootBox                                         *)

UseRead(c, id) ==
  /\ useAt[c] = "none" /\ qty[id] > 0 /\ kind[id] \in Consumables
  /\ useAt' = [useAt EXCEPT ![c] = "read"]
  /\ target' = [target EXCEPT ![c] = id]
  /\ seen' = [seen EXCEPT ![c] = qty[id]]
  /\ UNCHANGED <<buying, rows, found, granted, torn, giving>>

\* A boost, freeze charges or credits: one write, which may also fail.
UseApply(c) ==
  /\ useAt[c] = "read"
  /\ useAt' = [useAt EXCEPT ![c] = "applied"]
  /\ granted' = granted \cup {c}
  /\ UNCHANGED <<buying, rows, target, seen, found, torn, giving>>

\* A loot box reveals a cosmetic that the user does not own.
UseReveal(c, f) ==
  /\ useAt[c] = "read" /\ Held(holder[target[c]], f) = {}
  /\ useAt' = [useAt EXCEPT ![c] = "revealed"]
  /\ found' = [found EXCEPT ![c] = f]
  /\ UNCHANGED <<buying, rows, target, seen, granted, torn, giving>>

UseGrant(c) ==
  /\ useAt[c] = "revealed"
  /\ useAt' = [useAt EXCEPT ![c] = "applied"]
  /\ granted' = granted \cup {c}
  /\ Create(c, holder[target[c]], found[c], 1)
  /\ UNCHANGED <<buying, target, seen, found, torn, giving>>

\* An effect is active, or could not be applied: the item is kept.
UseFails(c) ==
  /\ useAt[c] \in {"read", "revealed"}
  /\ useAt' = [useAt EXCEPT ![c] = "failed"]
  /\ UNCHANGED <<buying, rows, target, seen, found, granted, torn, giving>>

\* Faulty: the item is consumed before its effect is applied.
UnappliedToo == {"read", "applied"}

Consumable == {"applied"}

\* The quantity that was read, less one; a row that is gone is an error.
UseConsume(c) ==
  LET id == target[c]
  IN  /\ useAt[c] \in Consumable
      /\ useAt' = [useAt EXCEPT ![c] = IF qty[id] = 0 THEN "failed" ELSE "consumed"]
      /\ qty' = [qty EXCEPT ![id] = IF @ = 0 THEN 0 ELSE seen[c] - 1]
      /\ torn' = IF qty[id] \in {0, seen[c]} THEN torn ELSE torn \cup {id}
      /\ UNCHANGED <<buying, holder, kind, got, target, seen, found, granted, giving>>

-----------------------------------------------------------------------------
(* Prizes and admins                                                         *)

\* The wheel and the daily reward create a row of their own.
Prize(g, u, i) ==
  /\ giftAt[g] = "none"
  /\ giftAt' = [giftAt EXCEPT ![g] = "done"]
  /\ Create(g, u, i, 1)
  /\ UNCHANGED <<buying, using, gift>>

\* grantStoreItem looks for a row to stack into.
GrantRead(g, u, i) ==
  /\ giftAt[g] = "none"
  /\ \E id \in IF Held(u, i) = {} THEN {g} ELSE Held(u, i) :
       gift' = [gift EXCEPT ![g] = [user |-> u, item |-> i, row |-> id]]
  /\ giftAt' = [giftAt EXCEPT ![g] = "read"]
  /\ UNCHANGED <<buying, rows, using>>

GrantWrite(g) ==
  LET id == gift[g].row
  IN  /\ giftAt[g] = "read" /\ (id = g \/ qty[id] > 0)
      /\ giftAt' = [giftAt EXCEPT ![g] = "done"]
      /\ IF id = g THEN Create(g, gift[g].user, gift[g].item, 1) ELSE Stack(id, 1)
      /\ UNCHANGED <<buying, using, gift>>

\* updateStoreItem waits for the lock of a purchase.
EditItem(i, n) ==
  /\ ~Locked(i) /\ limit[i] # n
  /\ limit' = [limit EXCEPT ![i] = n]
  /\ UNCHANGED <<sold, buyAt, order, rows, using, giving>>

Next ==
  \/ \E b \in Buys : \/ \E u \in Users, i \in Items, n \in 1..MaxQuantity : PurchaseRead(b, u, i, n)
                     \/ PurchaseCommit(b) \/ PurchaseRollBack(b)
  \/ \E c \in Uses : \/ \E id \in Rows : UseRead(c, id)
                     \/ \E f \in Cosmetics : UseReveal(c, f)
                     \/ UseApply(c) \/ UseGrant(c) \/ UseFails(c) \/ UseConsume(c)
  \/ \E g \in Gifts : \/ \E u \in Users, i \in Consumables : Prize(g, u, i)
                      \/ \E u \in Users, i \in Items : GrantRead(g, u, i)
                      \/ GrantWrite(g)
  \/ \E i \in Items, n \in Limits : EditItem(i, n)

Spec == Init /\ [][Next]_vars

-----------------------------------------------------------------------------
(* Properties                                                                *)

\* Every row keeps its columns' types.
TypeOK ==
  /\ limit \in [Items -> Limits] /\ sold \in [Items -> Nat]
  /\ buyAt \in [Buys -> {"none", "locked", "done", "failed"}]
  /\ order \in [Buys -> [user: Users \cup {None}, item: Items \cup {None}, n: Nat]]
  /\ holder \in [Rows -> Users \cup {None}] /\ kind \in [Rows -> Items \cup {None}]
  /\ qty \in [Rows -> Nat] /\ got \in [Rows -> Nat]
  /\ useAt \in [Uses -> {"none", "read", "revealed", "applied", "consumed", "failed"}]
  /\ target \in [Uses -> Rows] /\ seen \in [Uses -> Nat]
  /\ found \in [Uses -> Cosmetics \cup {None}]
  /\ giftAt \in [Gifts -> {"none", "read", "done"}]
  /\ gift \in [Gifts -> [user: Users \cup {None}, item: Items \cup {None}, row: Rows]]
  /\ granted \in SUBSET Uses /\ torn \in SUBSET Rows

\* Nobody is charged twice for one cosmetic.
ChargedOnce ==
  \A a, b \in Buys :
    /\ buyAt[a] = "done" /\ buyAt[b] = "done" /\ order[a].item \in Cosmetics
    /\ order[a].user = order[b].user /\ order[a].item = order[b].item
    => a = b

\* No sale takes an item past the limit it has when the sale commits.
WithinLimit == \A i \in Items : sold'[i] # sold[i] => sold'[i] <= limit[i]

\* The guards of a purchase cannot be raced: neither by another purchase, nor by an
\* admin who lowers the limit, nor by what the loot boxes do to the inventory.
GuardsNotRaced == []ChargedOnce /\ [][WithinLimit]_vars

\* The effect comes first: unless a use wrote over a quantity it had not read, every
\* unit that left a row has had its effect, however uses fail or stop half-way.
KeptUntilApplied ==
  \A id \in Rows \ torn : got[id] <= qty[id] + Cardinality({c \in granted : target[c] = id})
=============================================================================
