------------------------------- MODULE Visits -------------------------------
(* The visitor statistics (visitor-analytics.service.ts): page views sent by *)
(* the browsers' beacons and grouped into visits, the daily figures that the *)
(* cron rebuilds from them, and the purge of the rows behind the figures.    *)
(*                                                                           *)
(* A beacon may be delivered again, and its copies at once; the cron runs in *)
(* every process of the API.  Bots, whose rows are kept and not counted, and *)
(* figures by country, referrer, device and route are left out.              *)
EXTENDS Integers, FiniteSets

CONSTANTS
  Beacons,     \* page views, by eventId
  Sender,      \* [Beacons -> visitors], by cookie
  Deliveries,  \* calls of ingestBeacon
  Runs,        \* transactions of rollupDailyVisits, one for each day of a run
  Window,     \* VISITOR_SESSION_WINDOW_MS
  DayLength,  \* DAY_MS
  Rebuild,     \* days the cron rebuilds
  RawDays,     \* days rows are kept, not fewer than Rebuild
  FigureDays,  \* days the figures are kept
  LastTime,    \* bound of the clock
  None

VisitRow == [started : 0..LastTime, seen : 0..LastTime, views : Nat, gone : BOOLEAN]
EventRow == [at : 0..LastTime, visit : Beacons, gone : BOOLEAN]
FiguresRow == [visits : Nat, views : Nat, bounces : Nat, uniques : Nat]

\* Figures are rebuilt of days whose rows are kept, and kept for longer.
VisitsAssumption ==
  /\ IsFiniteSet(Beacons) /\ DOMAIN Sender = Beacons
  /\ {Window, DayLength} \subseteq Nat \ {0} /\ {Rebuild, RawDays, FigureDays, LastTime} \subseteq Nat
  /\ Rebuild <= RawDays /\ Rebuild <= FigureDays /\ Window <= RawDays * DayLength
  /\ None \notin Beacons \cup VisitRow \cup EventRow \cup FiguresRow

VARIABLES
  time,
  visit,    \* visitor_visits, each under the beacon that opened it, or None
  event,    \* visitor_events, or None
  call,     \* where a delivery stands, its beacon, its time, the open visit it found
  daily,    \* analytics_daily_visits: the figures of each day, or None
  run,      \* where a run stands, its day, whether it deleted figures, those it read
  raced,    \* history: visitors with two deliveries under way at once
  behind    \* history: days whose rows changed since the figures were read

vars == <<time, visit, event, call, daily, run, raced, behind>>

InProgress == {"waits", "deleted", "read"}

Days == 0..(LastTime \div DayLength)
DayOf(t) == t \div DayLength
Today == DayOf(time)

Init ==
  /\ time = 0
  /\ visit = [b \in Beacons |-> None] /\ event = [b \in Beacons |-> None]
  /\ call = [c \in Deliveries |-> [at |-> "new"]]
  /\ daily = [d \in Days |-> None] /\ run = [r \in Runs |-> [at |-> "new"]]
  /\ raced = {} /\ behind = Days

\* A call lasts less than a window; a run's transaction ends before its day is too old.
Tick ==
  /\ time < LastTime
  /\ \A c \in Deliveries :
       call[c].at \in {"look", "commit"} => time + 1 - call[c].now < Window
  /\ \A r \in Runs : run[r].at \in InProgress => run[r].day > DayOf(time + 1) - Rebuild
  /\ time' = time + 1
  /\ UNCHANGED <<visit, event, call, daily, run, raced, behind>>

-----------------------------------------------------------------------------
(* ingestBeacon                                                              *)

Stored(b) == event[b] # None /\ ~event[b].gone

UnderWay(v) == {c \in Deliveries :
  call[c].at \in {"look", "commit"} /\ Sender[call[c].beacon] = v}

\* The nonce is looked up; the time is taken.  Copies come while the row is kept.
Arrive(c, b) ==
  /\ call[c].at = "new" /\ (event[b] # None => Stored(b))
  /\ call' = [call EXCEPT ![c] =
       IF Stored(b) THEN [at |-> "done"] ELSE [at |-> "look", beacon |-> b, now |-> time]]
  /\ raced' = IF ~Stored(b) /\ UnderWay(Sender[b]) # {} THEN raced \cup {Sender[b]} ELSE raced
  /\ UNCHANGED <<time, visit, event, daily, run, behind>>

OpenVisits(v, now) ==
  {b \in Beacons : /\ visit[b] # None /\ Sender[b] = v
                   /\ ~visit[b].gone /\ visit[b].seen > now - Window}

\* In the transaction: the visitor's open visit, seen last.
Look(c) ==
  LET open == OpenVisits(Sender[call[c].beacon], call[c].now)
      found == IF open = {} THEN {None}
               ELSE {v \in open : \A w \in open : visit[w].seen <= visit[v].seen}
  IN  /\ call[c].at = "look"
      /\ \E v \in found :
           call' = [call EXCEPT ![c] = [at |-> "commit", beacon |-> @.beacon, now |-> @.now,
                                        open |-> v]]
      /\ UNCHANGED <<time, visit, event, daily, run, raced, behind>>

\* Faulty: only the look-up before the transaction stops a copy.
NeverRefused(b) == FALSE

\* The unique eventId.
Refused(b) == Stored(b)

\* The row a page view leaves in its visit.
Seen(v, b, now) ==
  IF v = None
  THEN [visit EXCEPT ![b] = [started |-> now, seen |-> now, views |-> 1, gone |-> FALSE]]
  ELSE [visit EXCEPT ![v].seen = now, ![v].views = @ + 1]

\* Figures that were read before the rows of the days D changed are behind.
Changed(D) ==
  /\ behind' = behind \cup D
  /\ run' = [r \in Runs |-> IF run[r].at = "read" /\ run[r].day \in D
                            THEN [run[r] EXCEPT !.stale = TRUE] ELSE run[r]]

\* Visit and event in one transaction, which a second copy's conflict rolls back, and so
\* does a visit that was purged.
Commit(c) ==
  LET b == call[c].beacon
      v == call[c].open
      of == IF v = None THEN b ELSE v
  IN  /\ call[c].at = "commit"
      /\ call' = [call EXCEPT ![c] = [at |-> "done"]]
      /\ IF Refused(b) \/ (v # None /\ visit[v].gone)
         THEN UNCHANGED <<visit, event, run, behind>>
         ELSE /\ visit' = Seen(v, b, call[c].now)
              /\ event' = [event EXCEPT ![b] = [at |-> time, visit |-> of, gone |-> FALSE]]
              /\ Changed({DayOf(time), DayOf(visit'[of].started)})
      /\ UNCHANGED <<time, daily, raced>>

-----------------------------------------------------------------------------
(* rollupDailyVisits: one transaction for each day                           *)

\* The figures of a day by the visits V and the events E.
Figures(d, V, E) ==
  LET on == {b \in E : DayOf(event[b].at) = d}
      begun == {v \in V : DayOf(visit[v].started) = d}
  IN  [visits |-> Cardinality(begun), views |-> Cardinality(on),
       bounces |-> Cardinality({v \in begun : visit[v].views = 1}),
       uniques |-> Cardinality({Sender[b] : b \in on})]

Rows == {b \in Beacons : visit[b] # None}
Views == {b \in Beacons : event[b] # None}

Holds(s, d) == run[s].at \in {"deleted", "read"} /\ run[s].day = d /\ run[s].had

InWindow(d) == Today - Rebuild < d /\ d <= Today

\* The day's figures are deleted; if another run has done so, this one waits for it.
RollupDelete(r, d) ==
  /\ run[r].at = "new" /\ InWindow(d)
  /\ run' = [run EXCEPT ![r] =
       [at |-> IF \E s \in Runs : Holds(s, d) THEN "waits" ELSE "deleted",
        day |-> d, had |-> daily[d] # None]]
  /\ UNCHANGED <<time, visit, event, call, daily, raced, behind>>

\* The other run was rolled back: its rows are there to be deleted after all.
RollupResume(r) ==
  /\ run[r].at = "waits" /\ ~ \E s \in Runs : Holds(s, run[r].day)
  /\ run' = [run EXCEPT ![r].at = "deleted"]
  /\ UNCHANGED <<time, visit, event, call, daily, raced, behind>>

\* One query over the rows that are kept.
RollupRead(r) ==
  /\ run[r].at = "deleted"
  /\ run' = [run EXCEPT ![r] =
       [at |-> "read", day |-> @.day, had |-> @.had, stale |-> FALSE,
        figures |-> Figures(@.day, {v \in Rows : ~visit[v].gone},
                                   {b \in Views : ~event[b].gone})]]
  /\ UNCHANGED <<time, visit, event, call, daily, raced, behind>>

\* Faulty: nothing stops two rows for a day, whose figures then add up.
NeverConflicts(r) == FALSE

\* The unique (date, dimension, value): figures another run has inserted meanwhile.
Conflicts(r) == ~run[r].had /\ daily[run[r].day] # None

\* Delete and insert are committed.  A delete that waited does not see the rows inserted since it began.
RollupCommit(r) ==
  LET d == run[r].day IN
  /\ run[r].at = "read" /\ ~Conflicts(r)
  /\ daily' = [daily EXCEPT ![d] = run[r].figures]
  /\ behind' = IF run[r].stale THEN behind ELSE behind \ {d}
  /\ run' = [s \in Runs |->
       IF s = r THEN [at |-> "done"]
       ELSE IF run[s].at = "waits" /\ run[s].day = d
       THEN [run[s] EXCEPT !.at = "deleted", !.had = FALSE] ELSE run[s]]
  /\ UNCHANGED <<time, visit, event, call, raced>>

\* A conflict or another error: rolled back, logged, and tried again in the next run.
RollupFails(r) ==
  /\ run[r].at \in InProgress /\ run' = [run EXCEPT ![r] = [at |-> "done"]]
  /\ UNCHANGED <<time, visit, event, call, daily, raced, behind>>
-----------------------------------------------------------------------------
(* purgeExpiredVisitorData: one transaction                                  *)

Purge ==
  LET old(t) == t < time - RawDays * DayLength IN
  /\ \E b \in Rows : old(visit[b].started) /\ ~visit[b].gone
  /\ event' = [b \in Beacons |-> IF b \in Views /\ old(event[b].at)
                                 THEN [event[b] EXCEPT !.gone = TRUE] ELSE event[b]]
  /\ visit' = [b \in Beacons |-> IF b \in Rows /\ old(visit[b].started)
                                 THEN [visit[b] EXCEPT !.gone = TRUE] ELSE visit[b]]
  /\ daily' = [d \in Days |-> IF d * DayLength < time - FigureDays * DayLength THEN None ELSE daily[d]]
  /\ UNCHANGED <<time, call, run, raced, behind>>

Next ==
  \/ Tick \/ Purge
  \/ \E c \in Deliveries : Look(c) \/ Commit(c) \/ \E b \in Beacons : Arrive(c, b)
  \/ \E r \in Runs : \/ RollupResume(r) \/ RollupRead(r) \/ RollupCommit(r) \/ RollupFails(r)
                     \/ \E d \in Days : RollupDelete(r, d)

Spec == Init /\ [][Next]_vars

-----------------------------------------------------------------------------
TypeOK ==
  /\ time \in 0..LastTime
  /\ visit \in [Beacons -> VisitRow \cup {None}] /\ event \in [Beacons -> EventRow \cup {None}]
  /\ daily \in [Days -> FiguresRow \cup {None}]
  /\ raced \subseteq {Sender[b] : b \in Beacons} /\ behind \subseteq Days

\* Every page view is counted once in its visit, however often and in however
\* many copies its beacon is delivered (ingestBeacon).
CountedOnce ==
  \A v \in Rows : visit[v].views = Cardinality({b \in Views : event[b].visit = v})

\* Visits of one visitor are a window apart, unless two deliveries overlapped
\* (ingestBeacon).
VisitsApart ==
  \A v, w \in Rows :
    v # w /\ Sender[v] = Sender[w] /\ Sender[v] \notin raced /\ ~visit[v].gone
      /\ visit[v].started <= visit[w].started => visit[w].started - visit[v].seen >= Window

\* A day whose rows have not changed since its figures were read has the figures
\* of all its page views and visits, those purged by now included, whichever of
\* the overlapping runs wrote them (rollupOneDay, purgeExpiredVisitorData).
FiguresKept ==
  \A d \in Days \ behind : d > Today - FigureDays => daily[d] = Figures(d, Rows, Views)

\* The statistics tell what the visitors did (visitor-analytics.service.ts).
VisitsTrue == TypeOK /\ CountedOnce /\ VisitsApart /\ FiguresKept
=============================================================================
