------------------------------ MODULE Standing ------------------------------
(* The standing of one user: what reports and flags (anti-abuse.service.ts), *)
(* staff (admin.service.ts) and e-mail verification (auth.service.ts) make   *)
(* of users.status, and what the guard of every request (jwt.strategy.ts)    *)
(* remembers of it, for any number of calls.                                 *)
(*                                                                           *)
(* No call holds a lock, and one that stops half-way is one that takes no    *)
(* further step.  The guard keeps an account it admitted in Redis for five   *)
(* minutes; of those who write the status, updateUserStatus alone deletes    *)
(* that entry.                                                               *)
EXTENDS Integers, FiniteSets

CONSTANTS
  Reports,    \* calls of submitReport (or checkForMultiAccount) that flag
  Limit,      \* AUTO_SUSPEND_CRITICAL_FLAGS and AUTO_SUSPEND_HIGH_FLAGS
  Others,     \* flags that other services raise
  Severity,   \* of the flag each raises: "critical" or "high"
  Resolutions,  \* calls of resolveReport
  Orders,     \* calls of updateUserStatus
  Verifies, Resends, Links,  \* calls of verifyEmail and resendVerification; tokens
  Requests,   \* requests that find no entry in the cache
  None

StandingAssumption ==
  /\ IsFiniteSet(Reports) /\ IsFiniteSet(Others) /\ Reports \cap Others = {}
  /\ Limit \in [{"critical", "high"} -> Nat \ {0}]

VARIABLES
  status,     \* users.status
  cache,      \* jwt:user:<id>: the status it holds, or None
  flags,      \* open abuse flags: the report or other source each is from
  report,     \* where a call stands
  resolved,   \* resolutions that acted
  order,      \* where an order stands
  link,       \* e-mail verifications
  verify, resend, request,  \* where the calls stand, what they read
  quiet,      \* history: was the last status written without deleting the entry
  late,       \* history: was the entry stored after the status had changed
  pardoned    \* history: has the user been made ACTIVE since the last suspension

abuse == <<flags, report, resolved>>
mail == <<link, verify, resend>>
guard == <<cache, request, late>>
vars == <<status, abuse, order, mail, guard, quiet, pardoned>>

Statuses == {"PENDING", "ACTIVE", "SUSPENDED", "BANNED", "DEACTIVATED"}
Restricted == {"SUSPENDED", "BANNED"}

\* register: with ENABLE_EMAIL_VERIFICATION the account waits for its link.
Init ==
  /\ \/ status = "ACTIVE" /\ link = [t \in Links |-> "none"]
     \/ status = "PENDING" /\ \E t \in Links : link = [u \in Links |-> IF u = t THEN "live" ELSE "none"]
  /\ cache = None /\ flags = {} /\ resolved = {}
  /\ report = [r \in Reports |-> "none"]
  /\ order = [o \in Orders |-> "none"]
  /\ verify = [v \in Verifies |-> [at |-> "none", link |-> None]]
  /\ resend = [s \in Resends |-> "none"]
  /\ request = [q \in Requests |-> [at |-> "none", seen |-> None]]
  /\ quiet = FALSE /\ late = FALSE /\ pardoned = FALSE

\* s is written to users.status; Entry tells whether the cache entry will go.
Write(s, entryGoes) ==
  /\ status' = s /\ quiet' = ~entryGoes
  /\ pardoned' = (s = "ACTIVE" \/ (pardoned /\ s # "SUSPENDED"))

-----------------------------------------------------------------------------
(* Reports and flags                                                         *)

SubmitReport(r) ==
  /\ report[r] = "none"
  /\ report' = [report EXCEPT ![r] = "filed"]
  /\ UNCHANGED <<status, flags, resolved, order, mail, guard, quiet, pardoned>>

FlagUser(r) ==
  /\ report[r] = "filed"
  /\ report' = [report EXCEPT ![r] = "flagged"] /\ flags' = flags \cup {r}
  /\ UNCHANGED <<status, resolved, order, mail, guard, quiet, pardoned>>

\* flagUser of tasks, tips and challenges: nobody counts after it.
OtherFlag(f) ==
  /\ f \in Others \ flags /\ flags' = flags \cup {f}
  /\ UNCHANGED <<status, report, resolved, order, mail, guard, quiet, pardoned>>

Of(severity, F) == {f \in F : Severity[f] = severity}

ShouldSuspend(F) == \E s \in {"critical", "high"} : Cardinality(Of(s, F)) >= Limit[s]

\* Faulty variant: the flags are counted before the report adds its own.
FlagsBefore(r) == flags \ {r}

FlagsNow(r) == flags

\* checkAndEscalate reads the open flags, ...
CountFlags(r) ==
  /\ report[r] = "flagged"
  /\ report' = [report EXCEPT ![r] =
       IF ShouldSuspend(FlagsNow(r)) THEN "counted" ELSE "done"]
  /\ UNCHANGED <<status, flags, resolved, order, mail, guard, quiet, pardoned>>

\* ... then the status, ...
ReadStatus(r) ==
  /\ report[r] = "counted"
  /\ report' = [report EXCEPT ![r] = IF status = "ACTIVE" THEN "suspends" ELSE "done"]
  /\ UNCHANGED <<status, flags, resolved, order, mail, guard, quiet, pardoned>>

\* ... and writes SUSPENDED by id.
AutoSuspend(r) ==
  /\ report[r] = "suspends" /\ Write("SUSPENDED", FALSE)
  /\ report' = [report EXCEPT ![r] = "done"]
  /\ UNCHANGED <<flags, resolved, order, mail, guard>>

-----------------------------------------------------------------------------
(* Staff                                                                     *)

ResolveAbuseFlag(f) ==
  /\ f \in flags /\ flags' = flags \ {f}
  /\ UNCHANGED <<status, report, resolved, order, mail, guard, quiet, pardoned>>

\* resolveReport with the actions SUSPEND and BAN; the others leave the status
\* alone.  It read the report as open and closes it later, so that several
\* resolutions of one report may act.
ResolveReport(x) ==
  /\ x \notin resolved /\ resolved' = resolved \cup {x}
  /\ \E r \in Reports : report[r] # "none"
  /\ \E s \in Restricted : Write(s, FALSE)
  /\ UNCHANGED <<flags, report, order, mail, guard>>

\* updateUserStatus, the read of the old status left out: only the log uses it.
SetStatus(o, s) ==
  /\ order[o] = "none" /\ Write(s, TRUE)
  /\ order' = [order EXCEPT ![o] = "written"]
  /\ UNCHANGED <<abuse, mail, guard>>

\* Faulty variant: the entry stays until it expires.
EntryStays == cache

EntryDeleted == None

InvalidateUserCaches(o) ==
  /\ order[o] = "written"
  /\ order' = [order EXCEPT ![o] = "done"]
  /\ cache' = EntryDeleted /\ late' = (late /\ cache' # None)
  /\ UNCHANGED <<status, abuse, mail, request, quiet, pardoned>>

-----------------------------------------------------------------------------
(* E-mail verification                                                       *)

VerifyRead(v, t) ==
  /\ verify[v].at = "none" /\ link[t] = "live"
  /\ verify' = [verify EXCEPT ![v] = [at |-> "read", link |-> t]]
  /\ UNCHANGED <<status, abuse, order, link, resend, guard, quiet, pardoned>>

\* One transaction: ACTIVE whatever the status is, and the link is used; it
\* fails as a whole if the link's row is gone.
VerifyWrite(v) ==
  LET t == verify[v].link IN
  /\ verify[v].at = "read" /\ link[t] # "gone" /\ Write("ACTIVE", FALSE)
  /\ verify' = [verify EXCEPT ![v].at = "done"] /\ link' = [link EXCEPT ![t] = "used"]
  /\ UNCHANGED <<abuse, order, resend, guard>>

Expires(t) ==
  /\ link[t] = "live" /\ link' = [link EXCEPT ![t] = "expired"]
  /\ UNCHANGED <<status, abuse, order, verify, resend, guard, quiet, pardoned>>

\* resendVerification: the unused links go, then there is a new one.
ResendRead(s) ==
  /\ resend[s] = "none" /\ status # "ACTIVE" /\ resend' = [resend EXCEPT ![s] = "read"]
  /\ UNCHANGED <<status, abuse, order, link, verify, guard, quiet, pardoned>>

ResendDelete(s) ==
  /\ resend[s] = "read" /\ resend' = [resend EXCEPT ![s] = "deleted"]
  /\ link' = [t \in Links |-> IF link[t] \in {"live", "expired"} THEN "gone" ELSE link[t]]
  /\ UNCHANGED <<status, abuse, order, verify, guard, quiet, pardoned>>

ResendCreate(s) ==
  /\ resend[s] = "deleted" /\ resend' = [resend EXCEPT ![s] = "done"]
  /\ \E t \in Links : link[t] = "none" /\ link' = [link EXCEPT ![t] = "live"]
  /\ UNCHANGED <<status, abuse, order, verify, guard, quiet, pardoned>>

-----------------------------------------------------------------------------
(* The guard of a request.  One that finds an entry goes by it and writes    *)
(* nothing; one that finds none stores the account only if it admits it.     *)

ValidateMiss(q) ==
  /\ request[q].at = "none" /\ cache = None /\ status \notin Restricted
  /\ request' = [request EXCEPT ![q] = [at |-> "read", seen |-> status]]
  /\ UNCHANGED <<status, abuse, order, mail, cache, late, quiet, pardoned>>

ValidateStore(q) ==
  /\ request[q].at = "read"
  /\ request' = [request EXCEPT ![q].at = "done"]
  /\ cache' = request[q].seen /\ late' = (status # request[q].seen)
  /\ UNCHANGED <<status, abuse, order, mail, quiet, pardoned>>

EntryExpires ==
  /\ cache # None /\ cache' = None /\ late' = FALSE
  /\ UNCHANGED <<status, abuse, order, mail, request, quiet, pardoned>>

Next ==
  \/ \E r \in Reports :
       \/ SubmitReport(r) \/ FlagUser(r) \/ CountFlags(r) \/ ReadStatus(r) \/ AutoSuspend(r)
  \/ \E f \in Others : OtherFlag(f)
  \/ \E f \in Reports \cup Others : ResolveAbuseFlag(f)
  \/ \E x \in Resolutions : ResolveReport(x)
  \/ \E o \in Orders :
       (\E s \in Statuses : SetStatus(o, s)) \/ InvalidateUserCaches(o)
  \/ \E v \in Verifies : (\E t \in Links : VerifyRead(v, t)) \/ VerifyWrite(v)
  \/ \E t \in Links : Expires(t)
  \/ \E s \in Resends : ResendRead(s) \/ ResendDelete(s) \/ ResendCreate(s)
  \/ \E q \in Requests : ValidateMiss(q) \/ ValidateStore(q)
  \/ EntryExpires

Spec == Init /\ [][Next]_vars

-----------------------------------------------------------------------------

TypeOK ==
  /\ status \in Statuses /\ cache \in Statuses \cup {None}
  /\ flags \subseteq Reports \cup Others /\ resolved \subseteq Resolutions
  /\ report \in [Reports -> {"none", "filed", "flagged", "counted", "suspends", "done"}]
  /\ order \in [Orders -> {"none", "written", "done"}]
  /\ link \in [Links -> {"none", "live", "expired", "used", "gone"}]
  /\ verify \in [Verifies -> [at : {"none", "read", "done"}, link : Links \cup {None}]]
  /\ resend \in [Resends -> {"none", "read", "deleted", "done"}]
  /\ request \in [Requests -> [at : {"none", "read", "done"}, seen : Statuses \cup {None}]]
  /\ quiet \in BOOLEAN /\ late \in BOOLEAN /\ pardoned \in BOOLEAN

\* Reports that come at once do not count past one another: when the open flags
\* of those that ran to the end reach a limit, the user is not ACTIVE, unless an
\* administrator or a verification made it so since.  (submitReport, flagUser and
\* checkAndEscalate, three calls without a transaction.)
ThresholdNotMissed ==
  ShouldSuspend(flags \cap {r \in Reports : report[r] = "done"}) =>
    status # "ACTIVE" \/ pardoned

\* Once updateUserStatus has answered, no entry of the cache admits a suspended
\* or banned user, unless a request stored what it had read before, or the last
\* to write the status was one that leaves the cache alone.  (jwt.strategy.ts
\* and invalidateUserCaches.)
RestrictionBites ==
  status \in Restricted /\ cache # None =>
    quiet \/ late \/ \E o \in Orders : order[o] = "written"
=============================================================================
