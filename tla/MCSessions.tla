----------------------------- MODULE MCSessions -----------------------------
(* The instance of Sessions and, beside it, of SocialLinks: a login and a    *)
(* linked account share no row, so that one of them is played at a time.     *)
EXTENDS Sessions, TLC

\* Calls and tokens of both; what they share a name for has nothing else in
\* common, but permutations of one are those of the other.
CONSTANTS q1, q2, q3, t1, t2, t3

\* Of SocialLinks; Secrets are its Tokens.
CONSTANTS Accounts, Secrets, Connects, Checks, None,
          main, alt, s1

VARIABLES account, owner, honoured, connect, check, crossed, dropped, scene

A == INSTANCE SocialLinks WITH Tokens <- Secrets, row <- account

ASSUME LinksAssumed == A!LinksAssumption

links == <<account, owner, honoured, connect, check, crossed, dropped>>

MCInit == Init /\ A!Init /\ scene \in {"session", "link"}

MCNext ==
  \/ scene = "session" /\ Next /\ UNCHANGED <<links, scene>>
  \/ scene = "link" /\ A!Next /\ UNCHANGED <<vars, scene>>

MCSpec == MCInit /\ [][MCNext]_<<vars, links, scene>>

MCSymmetry ==
  Permutations({q1, q2, q3}) \cup Permutations({t1, t2, t3})

-----------------------------------------------------------------------------

\* The stored token is of the account the link shows, and honoured
\* (handleCallback, getValidToken): stated in SocialLinks.
LinkIntact == A!LinkIntact
=============================================================================
