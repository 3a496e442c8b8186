--------------------------- MODULE PlatformTasks ---------------------------
(* A campaign that belongs to an admin: createPlatformTask,                  *)
(* updatePlatformTask and cancelPlatformTask (admin.service.ts), with the    *)
(* assignments, proofs, reviews and refunds that it shares with the other    *)
(* campaigns.                                                                *)
(*                                                                           *)
(* What CampaignTasks takes as fixed changes here: an update writes slots    *)
(* and price by id, without a look at the status or at the slots in use, and *)
(* every payment is of the price its call read before.  A proof is verified  *)
(* or held for review as autoVerify and the platform's API have it; a call   *)
(* that fails, and an assignment that expires, take no further step.         *)
EXTENDS Integers, FiniteSets

CONSTANTS
  Workers,
  Calls,          \* calls of submitProof and recheckTask, and approving reviews
  Updates,        \* calls of updatePlatformTask that set slots, price or both
  Orders,         \* calls of update (by the owner) and cancelPlatformTask
  MaxEdits,       \* bound: of these at most so many are made
  Slots, Prices,  \* values of totalSlots and creditPerTask
  Kept            \* a column that an update does not set

PlatformAssumption ==
  IsFiniteSet(Workers) /\ Slots \subseteq Nat \ {0} /\ Prices \subseteq Nat \ {0}

VARIABLES
  task,        \* the row: status, slots, price, cost, completed, pending
  completion,  \* status of each worker's row in task_completions
  call,        \* where a call stands, its worker, the status and price it read
  update,      \* where an update stands, its columns, and those it read
  order,       \* where an order stands, and the status it writes
  funded,      \* ledger: the pool debited at creation, 0 if none was
  paid,        \* ledger: credits paid to workers
  refunded,    \* ledger: credits paid back
  history      \* clobbered: rows a late proof overwrote; crossed: the last update had
               \* read other columns; tight: it set no more slots than are in use;
               \* reopened: an order landed on a closed task; updated: an update landed

ledger == <<funded, paid, refunded>>
vars == <<task, completion, call, update, order, ledger, history>>

Open == {"ACTIVE", "PAUSED"}
Closed == {"COMPLETED", "CANCELLED"}

\* createPlatformTask debits nobody; create, which admins may call too, debits the pool.
Init ==
  /\ \E s \in Slots, p \in Prices :
       /\ task = [status |-> "ACTIVE", slots |-> s, price |-> p, cost |-> s * p,
                  completed |-> 0, pending |-> 0]
       /\ funded \in {0, s * p}
  /\ completion = [w \in Workers |-> "none"]
  /\ call = [c \in Calls |-> [at |-> "new"]]
  /\ update = [u \in Updates |-> [at |-> "new"]]
  /\ order = [o \in Orders |-> [at |-> "new"]]
  /\ paid = 0 /\ refunded = 0
  /\ history = [clobbered |-> {}, crossed |-> FALSE, tight |-> FALSE, reopened |-> FALSE,
                updated |-> FALSE]

More ==
  Cardinality({u \in Updates : update[u].at # "new"})
    + Cardinality({o \in Orders : order[o].at # "new"}) < MaxEdits

InUse == task.completed + task.pending

CountersFit == task.completed >= 0 /\ task.pending >= 0 /\ InUse <= task.slots

-----------------------------------------------------------------------------
(* Workers and reviewers                                                     *)

Assign(w) ==
  /\ task.status = "ACTIVE" /\ InUse < task.slots /\ completion[w] = "none"
  /\ task' = [task EXCEPT !.pending = @ + 1]
  /\ completion' = [completion EXCEPT ![w] = "assigned"]
  /\ UNCHANGED <<call, update, order, ledger, history>>

\* A proof finds the row assigned, an approval finds it submitted; both read the price.
Read(c, w) ==
  /\ call[c].at = "new" /\ completion[w] \in {"assigned", "submitted"}
  /\ call' = [call EXCEPT ![c] =
       [at |-> "read", worker |-> w, from |-> completion[w], price |-> task.price]]
  /\ UNCHANGED <<task, completion, update, order, ledger, history>>

Ends(c) == call' = [call EXCEPT ![c] = [at |-> "done"]]

StatusAfter == IF task.completed + 1 >= task.slots /\ task.status \in Open
               THEN "COMPLETED" ELSE task.status

\* One transaction: claim of the completion, counters, credit.
Pay(c) ==
  LET w == call[c].worker IN
  /\ call[c].at = "read" /\ completion[w] = call[c].from
  /\ CountersFit /\ task.pending > 0 /\ task.completed < task.slots
  /\ task' = [task EXCEPT !.status = StatusAfter, !.completed = @ + 1, !.pending = @ - 1]
  /\ completion' = [completion EXCEPT ![w] = "verified"]
  /\ paid' = paid + call[c].price
  /\ Ends(c) /\ UNCHANGED <<update, order, funded, refunded, history>>

\* The proof is held for review, by an update that names the row by id alone.
Submit(c) ==
  LET w == call[c].worker IN
  /\ call[c].at = "read" /\ call[c].from = "assigned"
  /\ completion' = [completion EXCEPT ![w] = "submitted"]
  /\ history' = IF completion[w] \in {"verified", "rejected"}
                THEN [history EXCEPT !.clobbered = @ \cup {w}] ELSE history
  /\ Ends(c) /\ UNCHANGED <<task, update, order, ledger>>

Reject(w) ==
  /\ completion[w] = "submitted" /\ CountersFit /\ task.pending > 0
  /\ completion' = [completion EXCEPT ![w] = "rejected"]
  /\ task' = [task EXCEPT !.pending = @ - 1]
  /\ UNCHANGED <<call, update, order, ledger, history>>

-----------------------------------------------------------------------------
(* updatePlatformTask                                                        *)

UpdateRead(u) ==
  /\ update[u].at = "new" /\ More
  /\ \E s \in Slots \cup {Kept}, p \in Prices \cup {Kept} :
       /\ <<s, p>> # <<Kept, Kept>>
       /\ update' = [update EXCEPT ![u] = [at |-> "read", slots |-> s, price |-> p,
                                           seen |-> <<task.slots, task.price>>]]
  /\ UNCHANGED <<task, completion, call, order, ledger, history>>

Or(column, old) == IF column = Kept THEN old ELSE column

\* The cost is computed from the columns given and, for the others, from those read.
Updated(u) ==
  LET given == update[u] IN
  [task EXCEPT !.slots = Or(given.slots, @), !.price = Or(given.price, @),
               !.cost = Or(given.slots, given.seen[1]) * Or(given.price, given.seen[2])]

UpdateWrite(u) ==
  /\ update[u].at = "read"
  /\ task' = Updated(u)
  /\ update' = [update EXCEPT ![u] = [at |-> "done"]]
  /\ history' = [history EXCEPT
       !.updated = TRUE, !.crossed = update[u].seen # <<task.slots, task.price>>,
       !.tight = IF update[u].slots = Kept THEN @ ELSE update[u].slots <= InUse]
  /\ UNCHANGED <<completion, call, order, ledger>>

-----------------------------------------------------------------------------
(* Pausing, resuming, cancelling                                             *)

OrderRead(o, to) ==
  /\ order[o].at = "new" /\ More /\ task.status \in Open
  /\ order' = [order EXCEPT ![o] = [at |-> "read", to |-> to]]
  /\ UNCHANGED <<task, completion, call, update, ledger, history>>

\* By id: update (ACTIVE, PAUSED) and cancelPlatformTask (CANCELLED, no refund).
OrderWrite(o) ==
  /\ order[o].at = "read"
  /\ task' = [task EXCEPT !.status = order[o].to]
  /\ order' = [order EXCEPT ![o] = [at |-> "done"]]
  /\ history' = [history EXCEPT !.reopened = @ \/ task.status \in Closed]
  /\ UNCHANGED <<completion, call, update, ledger>>

PauseForPlatform ==
  /\ task.status = "ACTIVE" /\ task' = [task EXCEPT !.status = "PAUSED"]
  /\ UNCHANGED <<completion, call, update, order, ledger, history>>

Refund == IF funded = 0 THEN 0 ELSE (task.slots - InUse) * task.price

\* Faulty variant: earlier refunds are not counted.
RefundableAgain == funded

Refundable == funded - refunded

\* cancel, for its owner while nobody took a slot, and cancelUserCampaign.
Cancel ==
  /\ task.status \in Open /\ CountersFit
  /\ funded = 0 => refunded = 0
  /\ Refund <= Refundable
  /\ task' = [task EXCEPT !.status = "CANCELLED"] /\ refunded' = refunded + Refund
  /\ UNCHANGED <<completion, call, update, order, funded, paid, history>>

Next ==
  \/ \E w \in Workers : Assign(w) \/ Reject(w) \/ \E c \in Calls : Read(c, w)
  \/ \E c \in Calls : Pay(c) \/ Submit(c)
  \/ \E u \in Updates : UpdateRead(u) \/ UpdateWrite(u)
  \/ \E o \in Orders : (\E to \in Open \cup {"CANCELLED"} : OrderRead(o, to)) \/ OrderWrite(o)
  \/ PauseForPlatform \/ Cancel

Spec == Init /\ [][Next]_vars

-----------------------------------------------------------------------------

TypeOK ==
  /\ task \in [status : Open \cup Closed, slots : Slots, price : Prices, cost : Nat,
               completed : Nat, pending : Nat]
  /\ completion \in [Workers -> {"none", "assigned", "submitted", "verified", "rejected"}]
  /\ {funded, paid, refunded} \subseteq Nat
  /\ history.clobbered \subseteq Workers

Holding == {w \in Workers : completion[w] \in {"assigned", "submitted"}}
Done == {w \in Workers : completion[w] = "verified"}

\* The row of a platform task adds up while updates change it under the calls
\* that use it.  Counters are the completions, up to a late proof; no more slots
\* are in use than there are, and a task with all of them done is closed, unless
\* an update set no more than were in use; the cost is of the slots and the
\* price, unless two updates crossed.  A refund never exceeds what was funded,
\* whatever the price has become and however often the task is reopened; no
\* payment completes a refunded task; and the pool of a task never updated
\* covers payments and promises.
\* (updatePlatformTask, resolveFundedRefund, claimCompletionForVerification.)
TaskAddsUp ==
  /\ history.clobbered = {} => task.pending = Cardinality(Holding)
                               /\ task.completed = Cardinality(Done)
  /\ history.tight \/ InUse <= task.slots
  /\ task.completed >= task.slots =>
       history.tight \/ history.reopened \/ task.status \in Closed
  /\ history.crossed \/ task.cost = task.slots * task.price
  /\ refunded <= funded
  /\ refunded > 0 => task.status = "CANCELLED" \/ history.reopened
  /\ funded = 0 \/ history.updated \/ history.reopened
       \/ paid + refunded + task.pending * task.price <= funded
=============================================================================
