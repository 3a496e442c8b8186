---------------------------- MODULE SocialLinks ----------------------------
(* A user's account on one platform (social-auth.service.ts): connecting,    *)
(* disconnecting, and the refresh of its tokens by verifications, for any    *)
(* number of calls.  Rows of different users or platforms share nothing.     *)
(*                                                                           *)
(* A refresh reads the row, asks the platform for new tokens and writes them *)
(* by user and platform, whatever has become of the row.  Access and refresh *)
(* token are written together, of one account; the refresh token stands for  *)
(* both.  The platform is outside: it honours a refresh token until it has   *)
(* replaced it, which it may do at every refresh.                            *)
EXTENDS FiniteSets

CONSTANTS
  Accounts,   \* accounts on the platform the user may choose from
  Tokens,     \* refresh tokens, each issued once
  Connects,   \* calls of handleCallback
  Checks,     \* calls of verifyPlatformAction
  None

LinksAssumption == None \notin Accounts

VARIABLES
  row,        \* the social account: account, token, is its access token expired; or None
  owner,      \* platform: the account a token was issued for
  honoured,   \* platform: tokens it accepts
  connect,    \* a callback: where it stands, account and token it was given
  check,      \* a verification: where it stands, the row it read, the token it was given
  crossed,    \* history: has a refresh written to another row than it read
  dropped     \* history: tokens the platform replaced and nobody stored

platform == <<owner, honoured>>
vars == <<row, platform, connect, check, crossed, dropped>>

Init ==
  /\ row = None /\ honoured = {}
  /\ owner = [t \in Tokens |-> None]
  /\ connect = [c \in Connects |-> [at |-> "none", account |-> None, token |-> None]]
  /\ check = [v \in Checks |-> [at |-> "none", seen |-> None, token |-> None]]
  /\ crossed = FALSE /\ dropped = {}

\* The platform issues t for account a, in place of the tokens of Old.
Issue(t, a, Old) ==
  /\ owner[t] = None
  /\ owner' = [owner EXCEPT ![t] = a]
  /\ honoured' = (honoured \ Old) \cup {t}

-----------------------------------------------------------------------------
(* Connecting                                                                *)

\* The user consents with an account; exchangeCode and fetchPlatformProfile.
Exchange(c, a, t) ==
  /\ connect[c].at = "none" /\ Issue(t, a, {})
  /\ connect' = [connect EXCEPT ![c] = [at |-> "exchanged", account |-> a, token |-> t]]
  /\ UNCHANGED <<row, check, crossed, dropped>>

\* Faulty variant: a reconnection keeps the account the row was created with.
LinkedKeepingAccount(c) ==
  [account |-> IF row = None THEN connect[c].account ELSE row.account,
   token |-> connect[c].token, expired |-> FALSE]

\* upsert: the same columns, whether the row is there or not.
Linked(c) == [account |-> connect[c].account, token |-> connect[c].token, expired |-> FALSE]

Link(c) ==
  /\ connect[c].at = "exchanged"
  /\ row' = Linked(c) /\ crossed' = FALSE
  /\ connect' = [connect EXCEPT ![c].at = "done"]
  /\ UNCHANGED <<platform, check, dropped>>

\* The row goes; the platform is not told.
Disconnect ==
  /\ row # None /\ row' = None
  /\ UNCHANGED <<platform, connect, check, crossed, dropped>>

AccessExpires ==
  /\ row # None /\ row' = [row EXCEPT !.expired = TRUE]
  /\ UNCHANGED <<platform, connect, check, crossed, dropped>>

-----------------------------------------------------------------------------
(* Verifying                                                                 *)

Ends(v) == check' = [check EXCEPT ![v].at = "done"]

\* A verification whose access token still counts writes nothing.
CheckRead(v) ==
  /\ check[v].at = "none" /\ row # None /\ row.expired
  /\ check' = [check EXCEPT ![v] = [at |-> "read", seen |-> row, token |-> None]]
  /\ UNCHANGED <<row, platform, connect, crossed, dropped>>

\* New tokens; without a new refresh token the one that was read is kept.
Renewed(v) ==
  LET old == check[v].seen.token IN
  /\ check[v].at = "read" /\ old \in honoured
  /\ \/ /\ check' = [check EXCEPT ![v].at = "renewed", ![v].token = old]
        /\ UNCHANGED platform
     \/ \E t \in Tokens :
          /\ Issue(t, owner[old], {old})
          /\ check' = [check EXCEPT ![v].at = "renewed", ![v].token = t]
  /\ UNCHANGED <<row, connect, crossed, dropped>>

\* getValidToken answers null: the platform refuses, or cannot be reached.
NotRenewed(v) ==
  /\ check[v].at = "read" /\ Ends(v)
  /\ UNCHANGED <<row, platform, connect, crossed, dropped>>

\* The platform has replaced the token, and its answer is lost.
AnswerLost(v) ==
  LET old == check[v].seen.token IN
  /\ check[v].at = "read" /\ old \in honoured
  /\ \E t \in Tokens : Issue(t, owner[old], {old})
  /\ dropped' = dropped \cup {old} /\ Ends(v)
  /\ UNCHANGED <<row, connect, crossed>>

Same(v) == row.account = check[v].seen.account /\ row.token = check[v].seen.token

StoreTokens(v) ==
  /\ check[v].at = "renewed" /\ row # None
  /\ row' = [row EXCEPT !.token = check[v].token, !.expired = FALSE]
  /\ crossed' = (crossed \/ ~Same(v))
  /\ Ends(v) /\ UNCHANGED <<platform, connect, dropped>>

\* The row was disconnected, or the update fails otherwise.
StoreFails(v) ==
  LET old == check[v].seen.token IN
  /\ check[v].at = "renewed" /\ Ends(v)
  /\ dropped' = IF check[v].token = old THEN dropped ELSE dropped \cup {old}
  /\ UNCHANGED <<row, platform, connect, crossed>>

Next ==
  \/ \E c \in Connects :
       (\E a \in Accounts, t \in Tokens : Exchange(c, a, t)) \/ Link(c)
  \/ Disconnect \/ AccessExpires
  \/ \E v \in Checks :
       CheckRead(v) \/ Renewed(v) \/ NotRenewed(v) \/ AnswerLost(v)
       \/ StoreTokens(v) \/ StoreFails(v)

Spec == Init /\ [][Next]_vars

-----------------------------------------------------------------------------

Rows == [account : Accounts, token : Tokens, expired : BOOLEAN]

TypeOK ==
  /\ row \in Rows \cup {None}
  /\ owner \in [Tokens -> Accounts \cup {None}] /\ honoured \subseteq Tokens
  /\ connect \in [Connects -> [at : {"none", "exchanged", "done"},
                               account : Accounts \cup {None}, token : Tokens \cup {None}]]
  /\ check \in [Checks -> [at : {"none", "read", "renewed", "done"},
                           seen : Rows \cup {None}, token : Tokens \cup {None}]]
  /\ crossed \in BOOLEAN /\ dropped \subseteq Tokens

\* A refresh that is about to replace the row's token.
Replacing(v) ==
  check[v].at = "renewed" /\ check[v].seen.token = row.token /\ check[v].token # row.token

\* The stored token is of the account the row shows, and the platform still
\* honours it, so that the next verification speaks for that account, unless a
\* refresh wrote to a row it had not read, or the replacement of the token was
\* lost on its way.  (handleCallback and getValidToken.)
LinkIntact ==
  row # None /\ ~crossed =>
    /\ owner[row.token] = row.account
    /\ row.token \in honoured \cup dropped \/ \E v \in Checks : Replacing(v)
=============================================================================
