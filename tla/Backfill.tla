------------------------------ MODULE Backfill ------------------------------
(* backfillSettlement (admin.service.ts): the settlement figures completed   *)
(* deposits lack, filled in from the providers' records by bounded calls,    *)
(* each of which goes on where the one before left off.                      *)
(*                                                                           *)
(* Deposits are numbered in the order of (completedAt, id), the newest last; *)
(* calls go from the newest to the oldest.  A chain is what one admin does:  *)
(* calls with the cursor of the answer before, until there is none.  Chains  *)
(* overlap, and so do settlements and rejections of the same deposits.       *)
EXTENDS Integers, FiniteSets

CONSTANTS
  Deposits,   \* 1..n
  Figures,    \* providerFee, providerNet, providerConverted
  Chains,
  PageSize,   \* PAGE
  MaxScan,    \* MAX_SCAN
  Quota,      \* limit, positive: a call with limit 0 answers that all is done
  None        \* no cursor

BackfillAssumption ==
  /\ IsFiniteSet(Deposits) /\ Deposits = 1..Cardinality(Deposits)
  /\ PageSize \in Nat \ {0} /\ MaxScan \in Nat \ {0} /\ Quota \in Nat \ {0}
  /\ None \notin Deposits

VARIABLES
  newest,     \* the deposits completed so far are 1..newest
  rejected,   \* those whose status and paymentRef a late rejection changed
  missing,    \* the figures that are NULL in each row
  call,       \* where a chain's call stands, and what it knows
  oldest,     \* history: the newest deposit when a chain began
  examined    \* history: the deposits a chain looked at

vars == <<newest, rejected, missing, call, oldest, examined>>

\* A call: its cursorCond, the cursor it was given, the rows fetched and not yet
\* examined, what the provider told of the row at hand, and its counters.
Begins(cursor) ==
  [at |-> "fetch", below |-> cursor, from |-> cursor, page |-> {}, short |-> FALSE,
   told |-> {}, landed |-> FALSE, scanned |-> 0, updated |-> 0]

Init ==
  /\ newest \in Deposits /\ rejected = {}
  /\ missing \in [Deposits -> SUBSET Figures]
  /\ \A d \in Deposits : d > newest => missing[d] = {}
  /\ call = [c \in Chains |-> [Begins(None) EXCEPT !.at = "new"]]
  /\ oldest = [c \in Chains |-> 0] /\ examined = [c \in Chains |-> {}]

-----------------------------------------------------------------------------
(* completeDeposit, and a rejection by id of what it completed               *)

\* The capture's or the event's figures come with the settlement, if any.
Complete ==
  /\ newest + 1 \in Deposits /\ newest' = newest + 1
  /\ \E F \in SUBSET Figures : missing' = [missing EXCEPT ![newest + 1] = F]
  /\ UNCHANGED <<rejected, call, oldest, examined>>

Reject(d) ==
  /\ d <= newest /\ d \notin rejected /\ rejected' = rejected \cup {d}
  /\ UNCHANGED <<newest, missing, call, oldest, examined>>

-----------------------------------------------------------------------------
(* A call                                                                    *)

Completed(d) == d <= newest /\ d \notin rejected

Candidates(cursor) ==
  {d \in Deposits : Completed(d) /\ missing[d] # {} /\ (cursor # None => d < cursor)}

\* The newest candidates, each with the figures it lacks as they are read.
Fetched(cursor) ==
  LET all == Candidates(cursor)
  IN  {[id |-> d, lacks |-> missing[d]] :
         d \in {e \in all : Cardinality({f \in all : f > e}) < PageSize}}

\* A page is worked through from its newest row on.
Newest(rows) == CHOOSE r \in rows : \A s \in rows : s.id <= r.id

Spent(k) == k.updated >= Quota \/ k.scanned >= MaxScan

\* The answer: a cursor, or that there is nothing more.
Answer(k, how) == [Begins(k.below) EXCEPT !.at = how, !.from = k.from]

\* Where the call goes after a row: on with the page, or past its end.
Continues(k) ==
  LET rest == [k EXCEPT !.told = {}, !.landed = FALSE]
  IN  IF k.page = {} /\ k.short THEN Answer(k, "done")
      ELSE IF Spent(k) THEN Answer(k, "answered")
      ELSE [rest EXCEPT !.at = IF k.page = {} THEN "fetch" ELSE "row"]

Begin(c) ==
  /\ call[c].at \in {"new", "answered"}
  /\ call' = [call EXCEPT ![c] = Begins(@.below)]
  /\ oldest' = IF call[c].at = "new" THEN [oldest EXCEPT ![c] = newest] ELSE oldest
  /\ UNCHANGED <<newest, rejected, missing, examined>>

Fetch(c) ==
  LET rows == Fetched(call[c].below)
  IN  /\ call[c].at = "fetch"
      /\ call' = [call EXCEPT ![c] =
           IF rows = {} THEN Answer(@, "done")
           ELSE [@ EXCEPT !.at = "row", !.page = rows, !.short = Cardinality(rows) < PageSize]]
      /\ UNCHANGED <<newest, rejected, missing, oldest, examined>>

\* The cursor follows the last row examined, whatever becomes of it.  Faulty:
\* it follows the last row fetched.
LastFetched(c, row) == CHOOSE d \in {r.id : r \in call[c].page} : \A r \in call[c].page : d <= r.id

Cursor(c, row) == row.id

\* The figures to write are those missing from the row as it was fetched.
Unfilled(row, told) == told \cap row.lacks

\* The provider is asked: it knows any of the figures, none, or does not answer.
Examine(c) ==
  LET row == Newest(call[c].page)
  IN  /\ call[c].at = "row"
      /\ \E told \in SUBSET Figures :
           LET k == [call[c] EXCEPT !.below = Cursor(c, row), !.scanned = @ + 1]
           IN  call' = [call EXCEPT ![c] =
                 IF Unfilled(row, told) # {}
                   THEN [k EXCEPT !.at = "write", !.told = Unfilled(row, told)]
                   ELSE Continues([k EXCEPT !.page = @ \ {row}])]
      /\ examined' = [examined EXCEPT ![c] = @ \cup {row.id}]
      /\ UNCHANGED <<newest, rejected, missing, oldest>>

\* updateMany where { COMPLETED, paymentRef, the figure still null }.
Lands(d, f) == Completed(d) /\ f \in missing[d]

\* One figure is written; a row counts as updated when one write landed.
Write(c) ==
  LET row == Newest(call[c].page)
  IN  /\ call[c].at = "write"
      /\ \E f \in call[c].told :
           LET k == [call[c] EXCEPT !.told = @ \ {f}, !.landed = @ \/ Lands(row.id, f)]
           IN  /\ call' = [call EXCEPT ![c] =
                    IF k.told # {} THEN k
                    ELSE Continues([k EXCEPT !.page = @ \ {row},
                                             !.updated = @ + (IF k.landed THEN 1 ELSE 0)])]
               /\ missing' = IF Lands(row.id, f)
                             THEN [missing EXCEPT ![row.id] = @ \ {f}] ELSE missing
      /\ UNCHANGED <<newest, rejected, oldest, examined>>

\* A write that throws ends the row's writes; the row is reported as failed.
WriteFails(c) ==
  LET k == call[c]
  IN  /\ k.at = "write"
      /\ call' = [call EXCEPT ![c] = Continues([k EXCEPT !.page = @ \ {Newest(k.page)}])]
      /\ UNCHANGED <<newest, rejected, missing, oldest, examined>>

Next ==
  \/ Complete
  \/ \E d \in Deposits : Reject(d)
  \/ \E c \in Chains : Begin(c) \/ Fetch(c) \/ Examine(c) \/ Write(c) \/ WriteFails(c)

Spec == Init /\ [][Next]_vars

-----------------------------------------------------------------------------
TypeOK ==
  /\ newest \in Deposits /\ rejected \subseteq 1..newest
  /\ missing \in [Deposits -> SUBSET Figures]
  /\ \A c \in Chains :
       /\ call[c].at \in {"new", "fetch", "row", "write", "answered", "done"}
       /\ call[c].below \in Deposits \cup {None}
       /\ call[c].at \in {"row", "write"} => call[c].page # {}

\* Following the answers to their end leaves no deposit unasked: whatever the
\* bounds on a call, the providers' silence and the calls beside it, a chain
\* that got no further cursor has examined every deposit that was completed
\* when it began and still is, and still lacks a figure.
NoneStarved ==
  \A c \in Chains : call[c].at = "done" =>
    \A d \in 1..oldest[c] : Completed(d) /\ missing[d] # {} => d \in examined[c]

\* Every answer with a cursor is below the cursor its call was given, so that
\* the answers come to an end.
CursorsDescend ==
  \A c \in Chains : call[c].at = "answered" =>
    /\ call[c].below # None
    /\ call[c].from # None => call[c].below < call[c].from

\* backfillSettlement as a whole: no deposit starves, and the cursors come to an
\* end.
BackfillComplete == TypeOK /\ NoneStarved /\ CursorsDescend
=============================================================================
