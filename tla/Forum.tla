------------------------------- MODULE Forum -------------------------------
(* The forum (forum.service.ts): topics, threads of replies, and what staff  *)
(* does with them, for any number of topics and replies.                     *)
(*                                                                           *)
(* A topic keeps a count of its replies.  A reply may answer another one,    *)
(* and the database removes the answers to a removed reply with it           *)
(* (onDelete: Cascade); nothing says that the two are of one topic.          *)
EXTENDS Integers, FiniteSets

CONSTANTS
  Topics,
  Replies,    \* calls of createReply, and their rows
  Deletes,    \* calls of deleteReply and adminDeleteReply
  Edits,      \* calls of unlockTopic and pinTopic
  None        \* no reply or topic

ForumAssumption == IsFiniteSet(Replies)

VARIABLES
  topic,      \* rows: status, isPinned, lockedAt, replyCount
  reply,      \* rows and calls: where they stand, topic and parent
  deleting,   \* what a delete has read
  edit,       \* what an edit has read
  swept,      \* history: replies of a topic removed by the database
  crossed     \* history: topics pinned or unpinned while an unlock was under way

vars == <<topic, reply, deleting, edit, swept, crossed>>

Statuses == {"OPEN", "LOCKED", "PINNED", "HIDDEN"}

There(t) == topic[t].status \in Statuses
Posted == {r \in Replies : reply[r].at = "posted"}
RepliesOf(t) == {r \in Posted : reply[r].topic = t}

Init ==
  /\ topic = [t \in Topics |->
       [status |-> "none", pinned |-> FALSE, locked |-> FALSE, count |-> 0]]
  /\ reply = [r \in Replies |-> [at |-> "none", topic |-> None, parent |-> None]]
  /\ deleting = [d \in Deletes |-> [at |-> "none", reply |-> None]]
  /\ edit = [e \in Edits |-> [at |-> "none", topic |-> None, pinned |-> FALSE]]
  /\ swept = [t \in Topics |-> 0] /\ crossed = {}

CreateTopic(t) ==
  /\ topic[t].status = "none"
  /\ topic' = [topic EXCEPT ![t].status = "OPEN"]
  /\ UNCHANGED <<reply, deleting, edit, swept, crossed>>

-----------------------------------------------------------------------------
(* Replies                                                                   *)

\* The checks of createReply; staff may also reply where others may not.  The
\* parent is any reply the caller names.
ReplyCheck(r, t, p, staff) ==
  /\ reply[r].at = "none" /\ There(t)
  /\ staff \/ topic[t].status \notin {"LOCKED", "HIDDEN"}
  /\ p \in Posted \cup {None}
  /\ reply' = [reply EXCEPT ![r] = [at |-> "checked", topic |-> t, parent |-> p]]
  /\ UNCHANGED <<topic, deleting, edit, swept, crossed>>

\* The transaction fails on its foreign keys if topic or parent are gone.
ReplyPost(r) ==
  /\ reply[r].at = "checked" /\ There(reply[r].topic)
  /\ reply[r].parent \in Posted \cup {None}
  /\ reply' = [reply EXCEPT ![r].at = "posted"]
  /\ topic' = [topic EXCEPT ![reply[r].topic].count = @ + 1]
  /\ UNCHANGED <<deleting, edit, swept, crossed>>

\* What the database removes with the replies of S: S, what answers one of
\* them, and so on.
Threads(S) ==
  LET Closed(T) == S \subseteq T /\ \A r \in Posted : reply[r].parent \in T => r \in T
  IN {r \in Posted : \A T \in SUBSET Posted : Closed(T) => r \in T}

\* The replies of S go, with their threads; those of Counted were counted off.
Remove(S, Counted) ==
  LET gone == Threads(S) IN
  /\ reply' = [r \in Replies |->
       IF r \in gone THEN [reply[r] EXCEPT !.at = "gone"] ELSE reply[r]]
  /\ swept' = [t \in Topics |->
       swept[t] + Cardinality({r \in gone \ Counted : reply[r].topic = t})]

DeleteRead(d, r) ==
  /\ deleting[d].at = "none" /\ r \in Posted
  /\ deleting' = [deleting EXCEPT ![d] = [at |-> "read", reply |-> r]]
  /\ UNCHANGED <<topic, reply, edit, swept, crossed>>

\* Faulty variant: the reply is deleted with deleteMany, which never fails.
DeletedAnyhow(r) == There(reply[r].topic)

\* The delete fails, and the transaction with it, if the reply is gone.
Deletable(r) == r \in Posted

DeleteWrite(d) ==
  LET r == deleting[d].reply IN
  /\ deleting[d].at = "read" /\ Deletable(r)
  /\ Remove({r} \cap Posted, {r})
  /\ topic' = [topic EXCEPT ![reply[r].topic].count = @ - 1]
  /\ deleting' = [deleting EXCEPT ![d].at = "done"]
  /\ UNCHANGED <<edit, crossed>>

\* deleteTopic and adminDeleteTopic: replies go with their topic, and threads
\* in other topics with them.
DeleteTopic(t) ==
  /\ There(t)
  /\ Remove(RepliesOf(t), RepliesOf(t))
  /\ topic' = [topic EXCEPT ![t].status = "gone"]
  /\ UNCHANGED <<deleting, edit, crossed>>

-----------------------------------------------------------------------------
(* Staff.  lockTopic, hideTopic and unhideTopic use nothing of what they     *)
(* read; unlockTopic and pinTopic do, and write by id.                       *)

Set(t, row) ==
  /\ There(t) /\ topic' = [topic EXCEPT ![t] = row]
  /\ UNCHANGED <<reply, deleting, swept>>

Lock(t) ==
  Set(t, [topic[t] EXCEPT !.status = "LOCKED", !.locked = TRUE]) /\ UNCHANGED <<edit, crossed>>

Hide(t) == Set(t, [topic[t] EXCEPT !.status = "HIDDEN"]) /\ UNCHANGED <<edit, crossed>>

Unhide(t) == Set(t, [topic[t] EXCEPT !.status = "OPEN"]) /\ UNCHANGED <<edit, crossed>>

EditRead(e, t, what) ==
  /\ edit[e].at = "none" /\ There(t)
  /\ what = "unlock" => topic[t].status = "LOCKED"
  /\ edit' = [edit EXCEPT ![e] = [at |-> what, topic |-> t, pinned |-> topic[t].pinned]]
  /\ UNCHANGED <<topic, reply, deleting, swept, crossed>>

StatusOf(pinned) == IF pinned THEN "OPEN" ELSE "PINNED"

\* isPinned becomes the opposite of what was read.
Pin(e) ==
  LET t == edit[e].topic IN
  /\ edit[e].at = "pin"
  /\ Set(t, [topic[t] EXCEPT !.pinned = ~edit[e].pinned, !.status = StatusOf(edit[e].pinned)])
  /\ edit' = [edit EXCEPT ![e].at = "done"]
  /\ crossed' = IF \E f \in Edits : edit[f].at = "unlock" /\ edit[f].topic = t
                THEN crossed \cup {t} ELSE crossed

Unlock(e) ==
  LET t == edit[e].topic IN
  /\ edit[e].at = "unlock"
  /\ Set(t, [topic[t] EXCEPT !.locked = FALSE,
                             !.status = IF edit[e].pinned THEN "PINNED" ELSE "OPEN"])
  /\ edit' = [edit EXCEPT ![e].at = "done"]
  /\ UNCHANGED crossed

Next ==
  \/ \E t \in Topics :
       \/ CreateTopic(t) \/ DeleteTopic(t) \/ Lock(t) \/ Hide(t) \/ Unhide(t)
       \/ \E r \in Replies, p \in Replies \cup {None}, staff \in BOOLEAN :
            ReplyCheck(r, t, p, staff)
       \/ \E e \in Edits, what \in {"unlock", "pin"} : EditRead(e, t, what)
  \/ \E r \in Replies : ReplyPost(r)
  \/ \E d \in Deletes : (\E r \in Replies : DeleteRead(d, r)) \/ DeleteWrite(d)
  \/ \E e \in Edits : Pin(e) \/ Unlock(e)

Spec == Init /\ [][Next]_vars

-----------------------------------------------------------------------------

TypeOK ==
  /\ topic \in [Topics -> [status : Statuses \cup {"none", "gone"}, pinned : BOOLEAN,
                           locked : BOOLEAN, count : Int]]
  /\ reply \in [Replies -> [at : {"none", "checked", "posted", "gone"},
                            topic : Topics \cup {None}, parent : Replies \cup {None}]]
  /\ deleting \in [Deletes -> [at : {"none", "read", "done"}, reply : Replies \cup {None}]]
  /\ edit \in [Edits -> [at : {"none", "unlock", "pin", "done"},
                         topic : Topics \cup {None}, pinned : BOOLEAN]]
  /\ swept \in [Topics -> Nat] /\ crossed \subseteq Topics

\* The row of a topic tells the truth, however deletions, locks and pins meet.
\* Its count is its replies and those that the database removed below a deleted
\* one; a reply deleted twice at once is counted off once.  It reads PINNED only
\* with isPinned and LOCKED only with lockedAt, although five operations write
\* the one status and two of them from what they read; but for an unlock that a
\* pin ran into.  (createReply, deleteReply, adminDeleteReply, lockTopic,
\* unlockTopic, pinTopic.)
TopicsTrue ==
  /\ \A t \in Topics : There(t) => topic[t].count = Cardinality(RepliesOf(t)) + swept[t]
  /\ \A t \in Topics :
       /\ topic[t].status = "PINNED" => topic[t].pinned \/ t \in crossed
       /\ topic[t].status = "LOCKED" => topic[t].locked
=============================================================================
