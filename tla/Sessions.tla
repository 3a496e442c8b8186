------------------------------ MODULE Sessions ------------------------------
(* One user's sessions (auth.service.ts) and the browser that keeps them     *)
(* alive (the interceptors of lib/api.ts, auth.store.ts), for any number of  *)
(* requests.                                                                 *)
(*                                                                           *)
(* When the access token has expired, every request of every page is denied  *)
(* and refreshes on its own.  A refresh reads its session, revokes it and    *)
(* stores a new one, in three statements without a transaction; the answer   *)
(* replaces or clears the cookie that all pages share.                       *)
EXTENDS Integers, FiniteSets

CONSTANTS
  Requests,   \* requests that are sent with an expired access token
  Tokens,     \* refresh tokens, each minted once
  NoToken

ASSUME SessionsAssumption == NoToken \notin Tokens

VARIABLES
  row,        \* user_sessions by token: none, live, revoked or expired
  cookie,     \* the refresh cookie
  signedIn,   \* isAuthenticated
  access,     \* is the access token accepted
  at,         \* where a request stands
  sent,       \* the token its refresh carried
  minted,     \* the token it was given
  line,       \* history: the login a token goes back to
  shared,     \* history: lines whose token two refreshes carried at once, or was not revoked
  broken,     \* history: lines whose refresh stopped half-way
  ended,      \* history: lines a reset or a logout ended
  straddled   \* history: lines that a reset or a logout may have missed

server == <<row, line>>
browser == <<cookie, signedIn, access>>
requests == <<at, sent, minted>>
marks == <<shared, broken, ended, straddled>>
vars == <<server, browser, requests, marks>>

Init ==
  /\ row = [t \in Tokens |-> "none"] /\ line = [t \in Tokens |-> t]
  /\ cookie = NoToken /\ signedIn = FALSE /\ access = FALSE
  /\ at = [q \in Requests |-> "none"]
  /\ sent = [q \in Requests |-> NoToken] /\ minted = [q \in Requests |-> NoToken]
  /\ shared = {} /\ broken = {} /\ ended = {} /\ straddled = {}

Move(q, from, to) == at[q] = from /\ at' = [at EXCEPT ![q] = to]

Store(t, first) ==
  /\ row[t] = "none"
  /\ row' = [row EXCEPT ![t] = "live"]
  /\ line' = [line EXCEPT ![t] = first]

-----------------------------------------------------------------------------
(* The browser                                                               *)

\* login, or completeTwoFactorLogin, and what the page does with the answer.
Login(t) ==
  /\ ~signedIn /\ Store(t, t)
  /\ cookie' = t /\ signedIn' = TRUE /\ access' = TRUE
  /\ UNCHANGED <<requests, marks>>

AccessExpires ==
  /\ access /\ access' = FALSE
  /\ UNCHANGED <<server, cookie, signedIn, requests, marks>>

Denied(q) ==
  /\ signedIn /\ ~access /\ Move(q, "none", "denied")
  /\ UNCHANGED <<server, browser, sent, minted, marks>>

\* Another refresh may be on its way with the same cookie.
Refresh(q) ==
  /\ Move(q, "denied", "sent")
  /\ sent' = [sent EXCEPT ![q] = cookie]
  /\ shared' = IF cookie # NoToken /\ \E p \in Requests : sent[p] = cookie /\ at[p] # "done"
               THEN shared \cup {line[cookie]} ELSE shared
  /\ UNCHANGED <<server, browser, minted, broken, ended, straddled>>

\* Faulty: the answer does not set the cookie.  (A faulty variant stands before the
\* definition it would replace; the README says which property rejects it.)
Kept(q) == cookie

Given(q) == minted[q]

Accepted(q) ==
  /\ Move(q, "minted", "done")
  /\ cookie' = Given(q) /\ access' = TRUE
  /\ UNCHANGED <<server, signedIn, sent, minted, marks>>

\* The answer clears the cookie, whichever it is by now, and the page goes to login.
Refused(q) ==
  /\ Move(q, "refused", "done")
  /\ cookie' = IF sent[q] = NoToken THEN cookie ELSE NoToken
  /\ signedIn' = FALSE /\ access' = FALSE
  /\ UNCHANGED <<server, sent, minted, marks>>

\* No answer: the page goes to login.
Lost(q) ==
  /\ Move(q, "lost", "done")
  /\ signedIn' = FALSE /\ access' = FALSE
  /\ UNCHANGED <<server, cookie, sent, minted, marks>>

\* logout of auth.store.ts, which does not call the server.
Leave ==
  /\ signedIn /\ signedIn' = FALSE /\ access' = FALSE
  /\ UNCHANGED <<server, cookie, requests, marks>>

-----------------------------------------------------------------------------
(* refresh                                                                   *)

Check(q) ==
  LET t == sent[q]
  IN  /\ Move(q, "sent", IF t # NoToken /\ row[t] = "live" THEN "checked" ELSE "refused")
      /\ UNCHANGED <<server, browser, sent, minted, marks>>

\* Faulty: the session goes on.
NotRevoked == "live"

Revoked == "revoked"

\* revokeSession keeps its errors to itself.
Revoke(q) ==
  LET t == sent[q]
  IN  /\ Move(q, "checked", "rotating")
      /\ \/ row' = [row EXCEPT ![t] = Revoked] /\ UNCHANGED shared
         \/ shared' = shared \cup {line[t]} /\ UNCHANGED row
      /\ UNCHANGED <<line, browser, sent, minted, broken, ended, straddled>>

Mint(q, t) ==
  /\ Move(q, "rotating", "minted")
  /\ Store(t, line[sent[q]])
  /\ minted' = [minted EXCEPT ![q] = t]
  /\ UNCHANGED <<browser, sent, marks>>

\* The server stops, or the connection does.
Breaks(q) ==
  /\ at[q] \in {"sent", "checked", "rotating", "minted"}
  /\ at' = [at EXCEPT ![q] = "lost"]
  /\ broken' = IF sent[q] = NoToken THEN broken ELSE broken \cup {line[sent[q]]}
  /\ UNCHANGED <<server, browser, sent, minted, shared, ended, straddled>>

-----------------------------------------------------------------------------
(* Elsewhere                                                                 *)

\* Lines with a refresh under way that its session's revocation does not stop.
Under(way) == {line[sent[q]] : q \in {p \in Requests : at[p] \in way}}

\* A session nobody refreshed for its seven days, or a token whose signature has expired.
Expires(t) ==
  /\ row[t] = "live" /\ row' = [row EXCEPT ![t] = "expired"]
  /\ UNCHANGED <<line, browser, requests, marks>>

\* resetPassword, from any device: all sessions at once.
Reset ==
  LET ls == {line[t] : t \in {u \in Tokens : row[u] # "none"}}
  IN  /\ row' = [t \in Tokens |-> IF row[t] = "live" THEN "revoked" ELSE row[t]]
      /\ ended' = ended \cup ls
      /\ straddled' = straddled \cup Under({"checked", "rotating"})
      /\ UNCHANGED <<line, browser, requests, shared, broken>>

\* logout, called with the cookie.
Logout ==
  /\ cookie # NoToken
  /\ row' = [row EXCEPT ![cookie] = "revoked"] /\ cookie' = NoToken
  /\ ended' = ended \cup {line[cookie]}
  /\ straddled' = straddled \cup Under({"checked", "rotating", "minted"}) \cup shared \cup broken
  /\ UNCHANGED <<line, signedIn, access, requests, shared, broken>>

Step(q) ==
  \/ Denied(q) \/ Refresh(q) \/ Accepted(q) \/ Refused(q) \/ Lost(q)
  \/ Check(q) \/ Revoke(q) \/ (\E t \in Tokens : Mint(q, t)) \/ Breaks(q)

Next ==
  \/ \E q \in Requests : Step(q)
  \/ \E t \in Tokens : Login(t) \/ Expires(t)
  \/ AccessExpires \/ Leave \/ Reset \/ Logout

Spec == Init /\ [][Next]_vars

-----------------------------------------------------------------------------
(* Properties                                                                *)

\* Rows, cookie and requests are well-formed.
TypeOK ==
  /\ row \in [Tokens -> {"none", "live", "revoked", "expired"}] /\ line \in [Tokens -> Tokens]
  /\ cookie \in Tokens \cup {NoToken} /\ signedIn \in BOOLEAN /\ access \in BOOLEAN
  /\ at \in [Requests -> {"none", "denied", "sent", "checked", "rotating", "minted",
                          "refused", "lost", "done"}]
  /\ sent \in [Requests -> Tokens \cup {NoToken}] /\ minted \in [Requests -> Tokens \cup {NoToken}]
  /\ shared \subseteq Tokens /\ broken \subseteq Tokens
  /\ ended \subseteq Tokens /\ straddled \subseteq Tokens

Live == {t \in Tokens : row[t] = "live"}

\* However many requests refresh at once, a login has one session at a time, unless two
\* refreshes carried the same token at once or a revocation failed; and a reset or a logout ends
\* it for good, unless a refresh was under way (or, for a logout, had gone wrong) then.
OneHeir ==
  /\ \A s, t \in Live : line[s] = line[t] /\ line[s] \notin shared => s = t
  /\ \A t \in Live : line[t] \in ended => line[t] \in straddled

Cause(t) == t = NoToken \/ row[t] = "expired" \/ line[t] \in shared \cup broken \cup ended

\* A page goes to login by itself only for an answer that was lost, or for a refresh
\* whose token expired or was ended, was carried by another refresh at the same time,
\* or comes from a login one of whose answers was lost.
GoesToLogin ==
  signedIn /\ ~signedIn' =>
    \/ Leave
    \/ \E q \in Requests : Lost(q)
    \/ \E q \in Requests : Refused(q) /\ Cause(sent[q])

KeptSignedIn == [][GoesToLogin]_vars
=============================================================================
