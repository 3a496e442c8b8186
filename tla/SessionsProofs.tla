--------------------------- MODULE SessionsProofs ---------------------------
(* Proofs about Sessions, for any number of requests and tokens, and about   *)
(* SocialLinks, for any number of callbacks, verifications and tokens.       *)
(*                                                                           *)
(* The inductive invariant follows one line of tokens, those that go back to *)
(* one login: while nobody shared a token of it, the line is in one hand, a  *)
(* live token or a request past its check, and never in two.                 *)
EXTENDS MCSessions, TLAPS

Past == {"checked", "rotating"}
Used == {"rotating", "minted", "lost", "done"}

On(q, l) == sent[q] # NoToken /\ line[sent[q]] = l

\* A token that nobody minted is nowhere.
Fresh ==
  \A t \in Tokens : row[t] = "none" =>
    /\ line[t] = t /\ (\A u \in Tokens : line[u] = t => u = t)
    /\ cookie # t /\ (\A q \in Requests : sent[q] # t /\ minted[q] # t)
    /\ t \notin shared /\ t \notin ended /\ t \notin broken

\* What a request carries while it stands where it stands.
Carried ==
  \A q \in Requests :
    /\ at[q] \in {"none", "denied"} => sent[q] = NoToken
    /\ at[q] \in Past \cup {"minted"} => sent[q] # NoToken
    /\ at[q] = "minted" => minted[q] # NoToken /\ line[minted[q]] = line[sent[q]]

\* Two refreshes carry one token only at once, which shares its line, or because an
\* answer was lost.
Twins ==
  /\ \A p \in Requests : at[p] = "lost" /\ sent[p] # NoToken => line[sent[p]] \in broken
  /\ \A p \in Requests : at[p] = "done" /\ sent[p] = cookie /\ cookie # NoToken =>
       line[cookie] \in shared \cup broken
  /\ \A p, q \in Requests : p # q /\ sent[p] = sent[q] /\ sent[p] # NoToken =>
       /\ line[sent[p]] \in shared \cup broken
       /\ at[p] # "done" /\ at[q] # "done" => line[sent[p]] \in shared

\* A line in one hand.
Alone(l) ==
  /\ \A s, t \in Live : line[s] = l /\ line[t] = l => s = t
  /\ \A q \in Requests : On(q, l) /\ at[q] = "rotating" => \A t \in Live : line[t] # l
  /\ \A q \in Requests : On(q, l) /\ at[q] = "checked" => \A t \in Live : line[t] = l => t = sent[q]
  /\ \A p, q \in Requests : On(p, l) /\ On(q, l) /\ at[p] \in Past /\ at[q] \in Past => p = q
  /\ \A q \in Requests : On(q, l) /\ at[q] = "minted" =>
       /\ \A t \in Live : line[t] = l => t = minted[q]
       /\ \A p \in Requests : On(p, l) => at[p] \notin Past

OneHand == \A l \in Tokens \ shared : Alone(l)

\* A token on its way to the browser is known to nobody else.
Pending ==
  \A q \in Requests : at[q] = "minted" =>
    /\ cookie # minted[q]
    /\ \A p \in Requests : sent[p] # minted[q] /\ (at[p] = "minted" /\ minted[p] = minted[q] => p = q)

\* The live token of the cookie's line is the cookie, or on its way.
Known ==
  cookie # NoToken /\ line[cookie] \notin shared \cup broken =>
    \A t \in Live : line[t] = line[cookie] =>
      t = cookie \/ \E q \in Requests : at[q] = "minted" /\ minted[q] = t

\* Nothing moves on a line that was ended.
Over ==
  \A l \in ended \ straddled :
    /\ \A t \in Live : line[t] # l
    /\ \A q \in Requests : On(q, l) => at[q] \notin Past

\* A revoked token was ended or used.
Spent ==
  \A t \in Tokens : row[t] = "revoked" =>
    line[t] \in ended \/ \E p \in Requests : sent[p] = t /\ at[p] \in Used

Refusals == \A q \in Requests : at[q] = "refused" => Cause(sent[q])

Inv ==
  /\ TypeOK /\ Fresh /\ Carried /\ Twins /\ OneHand /\ Pending /\ Known /\ Over /\ Spent /\ Refusals

LEMMA InitInv == Init => Inv
BY SessionsAssumption DEF Init, Inv, TypeOK, Fresh, Carried, Twins, OneHand, Pending, Known, Over, Spent, Refusals, Live, Past, Alone, On, Cause

LEMMA DeniedInv ==
  ASSUME Inv, NEW q \in Requests, Denied(q)
  PROVE  Inv'
<1> USE SessionsAssumption DEF Inv
<1>1. TypeOK'
  BY DEF Denied, Move, TypeOK, vars, server, browser, requests, marks
<1>2. Fresh'
  BY DEF Denied, Move, TypeOK, Fresh, vars, server, browser, requests, marks
<1>3. Carried'
  BY DEF Denied, Move, TypeOK, Carried, Past, vars, server, browser, requests, marks
<1>4. Twins'
  BY DEF Denied, Move, TypeOK, Twins, vars, server, browser, requests, marks
<1>5. OneHand'
  BY DEF Denied, Move, TypeOK, OneHand, Alone, Live, On, Past, vars, server, browser, requests, marks
<1>6. Pending'
  BY DEF Denied, Move, TypeOK, Pending, vars, server, browser, requests, marks
<1>7. Known'
  BY DEF Denied, Move, TypeOK, Known, Live, vars, server, browser, requests, marks
<1>8. Over'
  BY DEF Denied, Move, TypeOK, Over, Live, On, Past, vars, server, browser, requests, marks
<1>9. Spent'
  BY DEF Denied, Move, TypeOK, Spent, Used, vars, server, browser, requests, marks
<1>10. Refusals'
  BY DEF Denied, Move, TypeOK, Refusals, Cause, vars, server, browser, requests, marks
<1> QED
  BY <1>1, <1>2, <1>3, <1>4, <1>5, <1>6, <1>7, <1>8, <1>9, <1>10

LEMMA RefreshInv ==
  ASSUME Inv, NEW q \in Requests, Refresh(q)
  PROVE  Inv'
<1> USE SessionsAssumption DEF Inv
<1>1. TypeOK'
  BY DEF Refresh, Move, TypeOK, vars, server, browser, requests, marks
<1>2. Fresh'
  BY DEF Refresh, Move, TypeOK, Fresh, vars, server, browser, requests, marks
<1>3. Carried'
  BY DEF Refresh, Move, TypeOK, Carried, Past, vars, server, browser, requests, marks
<1>4. Twins'
  BY DEF Refresh, Move, TypeOK, Twins, vars, server, browser, requests, marks
<1>5. OneHand'
  BY DEF Refresh, Move, TypeOK, OneHand, Alone, Live, On, Past, vars, server, browser, requests, marks
<1>6. Pending'
  BY DEF Refresh, Move, TypeOK, Pending, vars, server, browser, requests, marks
<1>7. Known'
  BY DEF Refresh, Move, TypeOK, Known, Live, vars, server, browser, requests, marks
<1>8. Over'
  BY DEF Refresh, Move, TypeOK, Over, Live, On, Past, vars, server, browser, requests, marks
<1>9. Spent'
  BY DEF Refresh, Move, TypeOK, Spent, Used, vars, server, browser, requests, marks
<1>10. Refusals'
  BY DEF Refresh, Move, TypeOK, Refusals, Cause, vars, server, browser, requests, marks
<1> QED
  BY <1>1, <1>2, <1>3, <1>4, <1>5, <1>6, <1>7, <1>8, <1>9, <1>10

LEMMA AcceptedInv ==
  ASSUME Inv, NEW q \in Requests, Accepted(q)
  PROVE  Inv'
<1> USE SessionsAssumption DEF Inv
<1>1. TypeOK'
  BY DEF Accepted, Given, Move, TypeOK, vars, server, browser, requests, marks
<1>2. Fresh'
  BY DEF Accepted, Given, Move, TypeOK, Fresh, vars, server, browser, requests, marks
<1>3. Carried'
  BY DEF Accepted, Given, Move, TypeOK, Carried, Past, vars, server, browser, requests, marks
<1>4. Twins'
  BY DEF Accepted, Given, Move, TypeOK, Twins, Pending, Carried, vars, server, browser, requests, marks
<1>5. OneHand'
  BY DEF Accepted, Given, Move, TypeOK, OneHand, Alone, Live, On, Past, vars, server, browser, requests, marks
<1>6. Pending'
  BY DEF Accepted, Given, Move, TypeOK, Pending, vars, server, browser, requests, marks
<1>7. Known'
  BY DEF Accepted, Given, Move, TypeOK, Known, Live, Carried, OneHand, Alone, On, vars, server, browser, requests, marks
<1>8. Over'
  BY DEF Accepted, Given, Move, TypeOK, Over, Live, On, Past, vars, server, browser, requests, marks
<1>9. Spent'
  BY DEF Accepted, Given, Move, TypeOK, Spent, Used, vars, server, browser, requests, marks
<1>10. Refusals'
  BY DEF Accepted, Given, Move, TypeOK, Refusals, Cause, vars, server, browser, requests, marks
<1> QED
  BY <1>1, <1>2, <1>3, <1>4, <1>5, <1>6, <1>7, <1>8, <1>9, <1>10

LEMMA RefusedInv ==
  ASSUME Inv, NEW q \in Requests, Refused(q)
  PROVE  Inv'
<1> USE SessionsAssumption DEF Inv
<1>1. TypeOK'
  BY DEF Refused, Move, TypeOK, vars, server, browser, requests, marks
<1>2. Fresh'
  BY DEF Refused, Move, TypeOK, Fresh, vars, server, browser, requests, marks
<1>3. Carried'
  BY DEF Refused, Move, TypeOK, Carried, Past, vars, server, browser, requests, marks
<1>4. Twins'
  BY DEF Refused, Move, TypeOK, Twins, vars, server, browser, requests, marks
<1>5. OneHand'
  BY DEF Refused, Move, TypeOK, OneHand, Alone, Live, On, Past, vars, server, browser, requests, marks
<1>6. Pending'
  BY DEF Refused, Move, TypeOK, Pending, Carried, vars, server, browser, requests, marks
<1>7. Known'
  BY DEF Refused, Move, TypeOK, Known, Live, vars, server, browser, requests, marks
<1>8. Over'
  BY DEF Refused, Move, TypeOK, Over, Live, On, Past, vars, server, browser, requests, marks
<1>9. Spent'
  BY DEF Refused, Move, TypeOK, Spent, Used, vars, server, browser, requests, marks
<1>10. Refusals'
  BY DEF Refused, Move, TypeOK, Refusals, Cause, vars, server, browser, requests, marks
<1> QED
  BY <1>1, <1>2, <1>3, <1>4, <1>5, <1>6, <1>7, <1>8, <1>9, <1>10

LEMMA LostInv ==
  ASSUME Inv, NEW q \in Requests, Lost(q)
  PROVE  Inv'
<1> USE SessionsAssumption DEF Inv
<1>1. TypeOK'
  BY DEF Lost, Move, TypeOK, vars, server, browser, requests, marks
<1>2. Fresh'
  BY DEF Lost, Move, TypeOK, Fresh, vars, server, browser, requests, marks
<1>3. Carried'
  BY DEF Lost, Move, TypeOK, Carried, Past, vars, server, browser, requests, marks
<1>4. Twins'
  BY DEF Lost, Move, TypeOK, Twins, vars, server, browser, requests, marks
<1>5. OneHand'
  BY DEF Lost, Move, TypeOK, OneHand, Alone, Live, On, Past, vars, server, browser, requests, marks
<1>6. Pending'
  BY DEF Lost, Move, TypeOK, Pending, vars, server, browser, requests, marks
<1>7. Known'
  BY DEF Lost, Move, TypeOK, Known, Live, vars, server, browser, requests, marks
<1>8. Over'
  BY DEF Lost, Move, TypeOK, Over, Live, On, Past, vars, server, browser, requests, marks
<1>9. Spent'
  BY DEF Lost, Move, TypeOK, Spent, Used, vars, server, browser, requests, marks
<1>10. Refusals'
  BY DEF Lost, Move, TypeOK, Refusals, Cause, vars, server, browser, requests, marks
<1> QED
  BY <1>1, <1>2, <1>3, <1>4, <1>5, <1>6, <1>7, <1>8, <1>9, <1>10

LEMMA CheckInv ==
  ASSUME Inv, NEW q \in Requests, Check(q)
  PROVE  Inv'
<1> USE SessionsAssumption DEF Inv
<1>1. TypeOK'
  BY DEF Check, Move, TypeOK, vars, server, browser, requests, marks
<1>2. Fresh'
  BY DEF Check, Move, TypeOK, Fresh, vars, server, browser, requests, marks
<1>3. Carried'
  BY DEF Check, Move, TypeOK, Carried, Past, vars, server, browser, requests, marks
<1>4. Twins'
  BY DEF Check, Move, TypeOK, Twins, vars, server, browser, requests, marks
<1>5. OneHand'
  BY DEF Check, Move, TypeOK, OneHand, Alone, Live, On, Past, Twins, Pending, vars, server, browser, requests, marks
<1>6. Pending'
  BY DEF Check, Move, TypeOK, Pending, vars, server, browser, requests, marks
<1>7. Known'
  BY DEF Check, Move, TypeOK, Known, Live, vars, server, browser, requests, marks
<1>8. Over'
  BY DEF Check, Move, TypeOK, Over, Live, On, Past, vars, server, browser, requests, marks
<1>9. Spent'
  BY DEF Check, Move, TypeOK, Spent, Used, vars, server, browser, requests, marks
<1>10. Refusals'
  BY DEF Check, Move, TypeOK, Refusals, Cause, Fresh, Spent, Used, Twins, vars, server, browser, requests, marks
<1> QED
  BY <1>1, <1>2, <1>3, <1>4, <1>5, <1>6, <1>7, <1>8, <1>9, <1>10

LEMMA RevokeInv ==
  ASSUME Inv, NEW q \in Requests, Revoke(q)
  PROVE  Inv'
<1> USE SessionsAssumption DEF Inv
<1>1. TypeOK'
  BY DEF Revoke, Revoked, Move, TypeOK, Carried, Past, vars, server, browser, requests, marks
<1>2. Fresh'
  BY DEF Revoke, Revoked, Move, TypeOK, Fresh, Carried, Past, vars, server, browser, requests, marks
<1>3. Carried'
  BY DEF Revoke, Revoked, Move, TypeOK, Carried, Past, vars, server, browser, requests, marks
<1>4. Twins'
  BY DEF Revoke, Revoked, Move, TypeOK, Twins, vars, server, browser, requests, marks
<1>5. OneHand'
  BY DEF Revoke, Revoked, Move, TypeOK, OneHand, Alone, Live, On, Past, vars, server, browser, requests, marks
<1>6. Pending'
  BY DEF Revoke, Revoked, Move, TypeOK, Pending, vars, server, browser, requests, marks
<1>7. Known'
  BY DEF Revoke, Revoked, Move, TypeOK, Known, Live, vars, server, browser, requests, marks
<1>8. Over'
  BY DEF Revoke, Revoked, Move, TypeOK, Over, Live, On, Past, vars, server, browser, requests, marks
<1>9. Spent'
  BY DEF Revoke, Revoked, Move, TypeOK, Spent, Used, vars, server, browser, requests, marks
<1>10. Refusals'
  BY DEF Revoke, Revoked, Move, TypeOK, Refusals, Cause, Twins, Carried, Past, vars, server, browser, requests, marks
<1> QED
  BY <1>1, <1>2, <1>3, <1>4, <1>5, <1>6, <1>7, <1>8, <1>9, <1>10

LEMMA MintInv ==
  ASSUME Inv, NEW q \in Requests, NEW t \in Tokens, Mint(q, t)
  PROVE  Inv'
<1> DEFINE l0 == line[sent[q]]
<1> USE SessionsAssumption DEF Inv
<1>a. /\ at[q] = "rotating" /\ sent[q] \in Tokens /\ l0 \in Tokens /\ sent[q] # t
      /\ row[t] = "none" /\ l0 # t /\ On(q, l0)
  BY DEF Mint, Store, Move, TypeOK, Fresh, Carried, Past, On
<1>b. /\ \A u \in Tokens : line'[u] = IF u = t THEN l0 ELSE line[u]
      /\ \A u \in Tokens : row'[u] = IF u = t THEN "live" ELSE row[u]
      /\ \A p \in Requests : at'[p] = IF p = q THEN "minted" ELSE at[p]
      /\ \A p \in Requests : minted'[p] = IF p = q THEN t ELSE minted[p]
      /\ UNCHANGED <<sent, browser, marks>>
  BY <1>a DEF Mint, Store, Move, TypeOK
<1>1. TypeOK'
  BY <1>a DEF Mint, Store, Move, TypeOK, browser, marks
<1> HIDE DEF l0
<1>c. Live' = Live \cup {t} /\ t \notin Live
  BY <1>a, <1>b DEF Live
<1>d. \A p \in Requests, l \in Tokens : On(p, l)' <=> On(p, l)
  BY <1>a, <1>b DEF On, TypeOK, Fresh
<1>2. Fresh'
  BY <1>a, <1>b DEF TypeOK, Fresh, browser, marks, l0
<1>3. Carried'
  BY <1>a, <1>b DEF TypeOK, Carried, Fresh, Past, l0
<1>4. Twins'
  BY <1>a, <1>b DEF TypeOK, Twins, Fresh, browser, marks
<1>5. OneHand'
  <2> SUFFICES ASSUME NEW l \in Tokens \ shared
               PROVE  Alone(l)'
    BY <1>b DEF OneHand, marks
  <2>1. Alone(l)
    BY DEF OneHand
  <2>2. CASE l = l0
    <3>1. \A u \in Live : line[u] # l
      BY <1>a, <2>1, <2>2 DEF Alone
    <3>2. \A u \in Live' : line'[u] = l => u = t
      BY <1>b, <1>c, <3>1 DEF Live
    <3>3. \A p \in Requests : On(p, l) /\ at[p] \in Past => p = q
      BY <1>a, <2>1, <2>2 DEF Alone, Past
    <3>4. \A p \in Requests : On(p, l) => at[p] # "minted"
      BY <1>a, <2>1, <2>2 DEF Alone, Past
    <3> QED
      BY <1>b, <1>d, <3>2, <3>3, <3>4 DEF Alone, Past
  <2>3. CASE l # l0
    <3>1. \A u \in Live' : line'[u] = l => u \in Live /\ line[u] = l
      BY <1>b, <1>c, <2>3 DEF Live
    <3>2. \A p \in Requests : On(p, l) => p # q
      BY <1>a, <2>3 DEF On
    <3> QED
      BY <1>b, <1>d, <2>1, <3>1, <3>2 DEF Alone, Past
  <2> QED
    BY <2>2, <2>3
<1>6. Pending'
  BY <1>a, <1>b DEF TypeOK, Pending, Fresh, browser
<1>7. Known'
  BY <1>a, <1>b, <1>c DEF TypeOK, Known, Fresh, Live, browser, marks
<1>8. Over'
  BY <1>a, <1>b, <1>c, <1>d DEF TypeOK, Over, Past, Live, marks
<1>9. Spent'
  BY <1>a, <1>b DEF TypeOK, Spent, Used, marks
<1>10. Refusals'
  BY <1>a, <1>b DEF TypeOK, Refusals, Cause, Fresh, marks
<1> QED
  BY <1>1, <1>2, <1>3, <1>4, <1>5, <1>6, <1>7, <1>8, <1>9, <1>10

LEMMA BreaksInv ==
  ASSUME Inv, NEW q \in Requests, Breaks(q)
  PROVE  Inv'
<1> USE SessionsAssumption DEF Inv
<1>1. TypeOK'
  BY DEF Breaks, Move, TypeOK, vars, server, browser, requests, marks
<1>2. Fresh'
  BY DEF Breaks, Move, TypeOK, Fresh, vars, server, browser, requests, marks
<1>3. Carried'
  BY DEF Breaks, Move, TypeOK, Carried, Past, vars, server, browser, requests, marks
<1>4. Twins'
  BY DEF Breaks, Move, TypeOK, Twins, vars, server, browser, requests, marks
<1>5. OneHand'
  BY DEF Breaks, Move, TypeOK, OneHand, Alone, Live, On, Past, vars, server, browser, requests, marks
<1>6. Pending'
  BY DEF Breaks, Move, TypeOK, Pending, vars, server, browser, requests, marks
<1>7. Known'
  BY DEF Breaks, Move, TypeOK, Known, Live, Carried, vars, server, browser, requests, marks
<1>8. Over'
  BY DEF Breaks, Move, TypeOK, Over, Live, On, Past, vars, server, browser, requests, marks
<1>9. Spent'
  BY DEF Breaks, Move, TypeOK, Spent, Used, vars, server, browser, requests, marks
<1>10. Refusals'
  BY DEF Breaks, Move, TypeOK, Refusals, Cause, vars, server, browser, requests, marks
<1> QED
  BY <1>1, <1>2, <1>3, <1>4, <1>5, <1>6, <1>7, <1>8, <1>9, <1>10

LEMMA LoginInv ==
  ASSUME Inv, NEW t \in Tokens, Login(t)
  PROVE  Inv'
<1> USE SessionsAssumption DEF Inv
<1>0. line' = line /\ Live' = Live \cup {t} /\ t \notin Live /\ Live \subseteq Tokens
  BY DEF Login, Store, TypeOK, Fresh, Live
<1>1. TypeOK'
  BY DEF Login, Store, Move, TypeOK, vars, server, browser, requests, marks
<1>2. Fresh'
  BY DEF Login, Store, Move, TypeOK, Fresh, vars, server, browser, requests, marks
<1>3. Carried'
  BY <1>0 DEF Login, Store, TypeOK, Fresh, Carried, Past, vars, server, browser, requests, marks
<1>4. Twins'
  BY <1>0 DEF Login, Store, TypeOK, Fresh, Twins, vars, server, browser, requests, marks
<1>5. OneHand'
  BY <1>0 DEF Login, Store, TypeOK, Fresh, OneHand, Alone, On, Past, vars, server, browser, requests, marks
<1>6. Pending'
  BY <1>0 DEF Login, Store, TypeOK, Fresh, Pending, vars, server, browser, requests, marks
<1>7. Known'
  BY <1>0 DEF Login, Store, TypeOK, Fresh, Known, vars, server, browser, requests, marks
<1>8. Over'
  BY <1>0 DEF Login, Store, TypeOK, Fresh, Over, On, Past, vars, server, browser, requests, marks
<1>9. Spent'
  BY <1>0 DEF Login, Store, TypeOK, Fresh, Spent, Used, vars, server, browser, requests, marks
<1>10. Refusals'
  BY <1>0 DEF Login, Store, TypeOK, Fresh, Refusals, Cause, vars, server, browser, requests, marks
<1> QED
  BY <1>1, <1>2, <1>3, <1>4, <1>5, <1>6, <1>7, <1>8, <1>9, <1>10

LEMMA ResetInv ==
  ASSUME Inv, Reset
  PROVE  Inv'
<1> USE SessionsAssumption DEF Inv
<1>1. TypeOK'
  BY DEF Reset, Under, TypeOK, Carried, Past, vars, server, browser, requests, marks
<1>2. Fresh'
  BY DEF Reset, Under, Move, TypeOK, Fresh, vars, server, browser, requests, marks
<1>3. Carried'
  BY DEF Reset, Under, Move, TypeOK, Carried, Past, vars, server, browser, requests, marks
<1>4. Twins'
  BY DEF Reset, Under, Move, TypeOK, Twins, vars, server, browser, requests, marks
<1>5. OneHand'
  BY DEF Reset, Under, Move, TypeOK, OneHand, Alone, Live, On, Past, vars, server, browser, requests, marks
<1>6. Pending'
  BY DEF Reset, Under, Move, TypeOK, Pending, vars, server, browser, requests, marks
<1>7. Known'
  BY DEF Reset, Under, Move, TypeOK, Known, Live, vars, server, browser, requests, marks
<1>8. Over'
  BY DEF Reset, Under, Move, TypeOK, Over, Live, On, Past, vars, server, browser, requests, marks
<1>9. Spent'
  BY DEF Reset, Under, Move, TypeOK, Spent, Used, vars, server, browser, requests, marks
<1>10. Refusals'
  BY DEF Reset, Under, Move, TypeOK, Refusals, Cause, vars, server, browser, requests, marks
<1> QED
  BY <1>1, <1>2, <1>3, <1>4, <1>5, <1>6, <1>7, <1>8, <1>9, <1>10

LEMMA LogoutInv ==
  ASSUME Inv, Logout
  PROVE  Inv'
<1> USE SessionsAssumption DEF Inv
<1>1. TypeOK'
  BY DEF Logout, Under, TypeOK, Carried, Past, vars, server, browser, requests, marks
<1>2. Fresh'
  BY DEF Logout, Under, Move, TypeOK, Fresh, vars, server, browser, requests, marks
<1>3. Carried'
  BY DEF Logout, Under, Move, TypeOK, Carried, Past, vars, server, browser, requests, marks
<1>4. Twins'
  BY DEF Logout, Under, Move, TypeOK, Twins, vars, server, browser, requests, marks
<1>5. OneHand'
  BY DEF Logout, Under, Move, TypeOK, OneHand, Alone, Live, On, Past, vars, server, browser, requests, marks
<1>6. Pending'
  BY DEF Logout, Under, Move, TypeOK, Pending, Carried, vars, server, browser, requests, marks
<1>7. Known'
  BY DEF Logout, Under, Move, TypeOK, Known, Live, vars, server, browser, requests, marks
<1>8. Over'
  BY DEF Logout, Under, Move, TypeOK, Over, Live, On, Past, Known, Carried, vars, server, browser, requests, marks
<1>9. Spent'
  BY DEF Logout, Under, Move, TypeOK, Spent, Used, vars, server, browser, requests, marks
<1>10. Refusals'
  BY DEF Logout, Under, Move, TypeOK, Refusals, Cause, vars, server, browser, requests, marks
<1> QED
  BY <1>1, <1>2, <1>3, <1>4, <1>5, <1>6, <1>7, <1>8, <1>9, <1>10

LEMMA ExpiresInv ==
  ASSUME Inv, NEW t \in Tokens, Expires(t)
  PROVE  Inv'
<1> USE SessionsAssumption DEF Inv
<1>0. Live' \subseteq Live /\ line' = line
  BY DEF Expires, TypeOK, Live
<1>1. TypeOK'
  BY DEF Expires, TypeOK, browser, requests, marks
<1>2. Fresh'
  BY DEF Expires, TypeOK, Fresh, browser, requests, marks
<1>3. Carried'
  BY DEF Expires, TypeOK, Carried, Past, browser, requests, marks
<1>4. Twins'
  BY DEF Expires, TypeOK, Twins, browser, requests, marks
<1>5. OneHand'
  BY <1>0 DEF Expires, TypeOK, OneHand, Alone, On, Past, browser, requests, marks
<1>6. Pending'
  BY DEF Expires, TypeOK, Pending, browser, requests, marks
<1>7. Known'
  BY <1>0 DEF Expires, TypeOK, Known, browser, requests, marks
<1>8. Over'
  BY <1>0 DEF Expires, TypeOK, Over, On, Past, browser, requests, marks
<1>9. Spent'
  BY DEF Expires, TypeOK, Spent, Used, browser, requests, marks
<1>10. Refusals'
  BY DEF Expires, TypeOK, Refusals, Cause, Fresh, browser, requests, marks
<1> QED
  BY <1>1, <1>2, <1>3, <1>4, <1>5, <1>6, <1>7, <1>8, <1>9, <1>10

LEMMA QuietInv ==
  ASSUME Inv, (AccessExpires \/ Leave)
  PROVE  Inv'
<1> USE SessionsAssumption DEF Inv
<1>1. TypeOK'
  BY DEF AccessExpires, Leave, Move, TypeOK, vars, server, browser, requests, marks
<1>2. Fresh'
  BY DEF AccessExpires, Leave, Move, TypeOK, Fresh, vars, server, browser, requests, marks
<1>3. Carried'
  BY DEF AccessExpires, Leave, Move, TypeOK, Carried, Past, vars, server, browser, requests, marks
<1>4. Twins'
  BY DEF AccessExpires, Leave, Move, TypeOK, Twins, vars, server, browser, requests, marks
<1>5. OneHand'
  BY DEF AccessExpires, Leave, Move, TypeOK, OneHand, Alone, Live, On, Past, vars, server, browser, requests, marks
<1>6. Pending'
  BY DEF AccessExpires, Leave, Move, TypeOK, Pending, vars, server, browser, requests, marks
<1>7. Known'
  BY DEF AccessExpires, Leave, Move, TypeOK, Known, Live, vars, server, browser, requests, marks
<1>8. Over'
  BY DEF AccessExpires, Leave, Move, TypeOK, Over, Live, On, Past, vars, server, browser, requests, marks
<1>9. Spent'
  BY DEF AccessExpires, Leave, Move, TypeOK, Spent, Used, vars, server, browser, requests, marks
<1>10. Refusals'
  BY DEF AccessExpires, Leave, Move, TypeOK, Refusals, Cause, vars, server, browser, requests, marks
<1> QED
  BY <1>1, <1>2, <1>3, <1>4, <1>5, <1>6, <1>7, <1>8, <1>9, <1>10

LEMMA StutterInv ==
  ASSUME Inv, UNCHANGED vars
  PROVE  Inv'
BY DEF vars, server, browser, requests, marks, Inv, TypeOK, Fresh, Carried, Twins, OneHand, Alone,
       Pending, Known, Over, Spent, Refusals, Cause, Live, On, Past, Used

LEMMA NextInv == Inv /\ [Next]_vars => Inv'
<1> SUFFICES ASSUME Inv, [Next]_vars
             PROVE  Inv'
  OBVIOUS
<1>1. CASE \E q \in Requests : Step(q)
  <2> PICK q \in Requests : Step(q)
    BY <1>1
  <2>1. CASE Denied(q) \/ Refresh(q) \/ Accepted(q) \/ Refused(q) \/ Lost(q)
    BY <2>1, DeniedInv, RefreshInv, AcceptedInv, RefusedInv, LostInv
  <2>2. CASE Check(q) \/ Revoke(q) \/ (\E t \in Tokens : Mint(q, t)) \/ Breaks(q)
    BY <2>2, CheckInv, RevokeInv, MintInv, BreaksInv
  <2> QED
    BY <2>1, <2>2 DEF Step
<1>2. CASE \E t \in Tokens : Login(t) \/ Expires(t)
  BY <1>2, LoginInv, ExpiresInv
<1>3. CASE AccessExpires \/ Leave
  BY <1>3, QuietInv
<1>4. CASE Reset \/ Logout
  BY <1>4, ResetInv, LogoutInv
<1>5. CASE UNCHANGED vars
  BY <1>5, StutterInv
<1> QED
  BY <1>1, <1>2, <1>3, <1>4, <1>5 DEF Next

\* In every reachable state each line that nobody shared is in one hand, and every
\* refused refresh has its cause (refresh, resetPassword and logout of auth.service.ts).
THEOREM InvCorrect == Spec => []Inv
BY InitInv, NextInv, PTL DEF Spec

\* Rows, cookie and requests are well-formed throughout.
THEOREM TypeCorrect == Spec => []TypeOK
<1>1. Inv => TypeOK
  BY DEF Inv
<1> QED
  BY <1>1, InvCorrect, PTL

\* One live session per login, whatever refreshes interleave, and none after a reset or a
\* logout, but for the refreshes that the two marks name.
THEOREM OneHeirCorrect == Spec => []OneHeir
<1>1. Inv => OneHeir
  BY DEF Inv, TypeOK, OneHand, Alone, Over, OneHeir, Live
<1> QED
  BY <1>1, InvCorrect, PTL

LEMMA StepGoesToLogin == Inv /\ [Next]_vars => GoesToLogin
<1> SUFFICES ASSUME Inv, [Next]_vars, signedIn, ~signedIn'
             PROVE  \/ Leave
                    \/ \E q \in Requests : Lost(q)
                    \/ \E q \in Requests : Refused(q) /\ Cause(sent[q])
  BY DEF GoesToLogin
<1>1. ASSUME NEW q \in Requests, Refused(q)
      PROVE  Cause(sent[q])
  BY <1>1 DEF Inv, Refusals, Refused, Move
<1>2. ASSUME NEW q \in Requests, Step(q), ~Refused(q), ~Lost(q)
      PROVE  FALSE
  BY <1>2 DEF Step, Denied, Refresh, Accepted, Check, Revoke, Mint, Breaks, browser
<1>3. ASSUME NEW t \in Tokens, Login(t) \/ Expires(t)
      PROVE  FALSE
  BY <1>3 DEF Login, Expires, browser
<1>4. ~(AccessExpires \/ Reset \/ Logout \/ UNCHANGED vars)
  BY DEF AccessExpires, Reset, Logout, vars, browser
<1> QED
  BY <1>1, <1>2, <1>3, <1>4 DEF Next

\* A page goes to login by itself only for a lost answer, or for a refresh whose token
\* expired, was ended or was carried twice (the interceptor of lib/api.ts).
THEOREM KeptSignedInCorrect == Spec => KeptSignedIn
<1>1. Inv /\ [Next]_vars => [GoesToLogin]_vars
  BY StepGoesToLogin
<1> QED
  BY <1>1, InvCorrect, PTL DEF Spec, KeptSignedIn

-----------------------------------------------------------------------------
(* SocialLinks, beside Sessions in MCSessions.                               *)

LEMMA NoAccount == None \notin Accounts
BY LinksAssumed DEF A!LinksAssumption

ConnectType == [at : {"none", "exchanged", "done"}, account : Accounts \cup {None}, token : Secrets \cup {None}]
CheckType == [at : {"none", "read", "renewed", "done"}, seen : A!Rows \cup {None}, token : Secrets \cup {None}]

Busy(v) == check[v].at \in {"read", "renewed"}
Replaced(v) == check[v].at = "renewed" /\ check[v].token # check[v].seen.token

\* Every token somebody holds was issued, and that of a refresh for the account of the one
\* it read.
Issued ==
  /\ account # None => owner[account.token] # None
  /\ \A c \in Connects : connect[c].at = "exchanged" =>
       /\ connect[c].account \in Accounts /\ connect[c].token \in Secrets
       /\ owner[connect[c].token] = connect[c].account
  /\ \A v \in Checks : Busy(v) => check[v].seen \in A!Rows /\ owner[check[v].seen.token] # None
  /\ \A v \in Checks : check[v].at = "renewed" =>
       check[v].token \in Secrets /\ owner[check[v].token] = owner[check[v].seen.token]

\* A token on its way to the row is honoured, and nobody else has it.
Unused(t) ==
  /\ t \in honoured
  /\ (account # None => account.token # t)
  /\ \A v \in Checks : Busy(v) => check[v].seen.token # t

\* So is every token that no row holds yet, in one hand.
OnItsWay ==
  /\ \A c \in Connects : connect[c].at = "exchanged" => Unused(connect[c].token)
  /\ \A v \in Checks : Replaced(v) => Unused(check[v].token)
  /\ \A c, d \in Connects :
       connect[c].at = "exchanged" /\ connect[d].at = "exchanged" /\ connect[c].token = connect[d].token => c = d
  /\ \A v, w \in Checks : Replaced(v) /\ Replaced(w) /\ check[v].token = check[w].token => v = w
  /\ \A c \in Connects, v \in Checks :
       connect[c].at = "exchanged" /\ Replaced(v) => connect[c].token # check[v].token

\* LinkIntact, and what a refresh may hold while the row changes under it.
LinkInv == A!TypeOK /\ Issued /\ OnItsWay /\ LinkIntact

LEMMA LinkInit == A!Init => LinkInv
<1> SUFFICES ASSUME A!Init PROVE LinkInv
  OBVIOUS
<1>1. A!TypeOK
  BY DEF A!Init, A!TypeOK
<1> QED
  BY <1>1 DEF A!Init, LinkInv, Issued, OnItsWay, LinkIntact, A!LinkIntact, Busy, Replaced

LEMMA LinkStep == LinkInv /\ [A!Next]_(A!vars) => LinkInv'
<1> SUFFICES ASSUME LinkInv, [A!Next]_(A!vars) PROVE LinkInv'
  OBVIOUS
<1> USE DEF Busy, Replaced, Unused, A!platform
<1>0. A!TypeOK /\ Issued /\ OnItsWay /\ LinkIntact
  BY DEF LinkInv
<1>t. /\ account \in A!Rows \cup {None} /\ owner \in [Secrets -> Accounts \cup {None}] /\ honoured \subseteq Secrets
      /\ connect \in [Connects -> ConnectType] /\ check \in [Checks -> CheckType]
      /\ crossed \in BOOLEAN /\ dropped \subseteq Secrets
  BY <1>0 DEF A!TypeOK, ConnectType, CheckType
<1>1. ASSUME NEW c \in Connects, NEW a \in Accounts, NEW t \in Secrets, A!Exchange(c, a, t)
      PROVE  LinkInv'
  <2>0. /\ connect[c].at = "none" /\ owner[t] = None /\ honoured' = honoured \cup {t}
        /\ owner' = [owner EXCEPT ![t] = a]
        /\ connect' = [connect EXCEPT ![c] = [at |-> "exchanged", account |-> a, token |-> t]]
        /\ UNCHANGED <<account, check, crossed, dropped>>
    BY <1>1 DEF A!Exchange, A!Issue
  <2>1. A!TypeOK'
    BY <1>t, <2>0 DEF A!TypeOK, ConnectType, CheckType
  <2>2. Issued'
    BY <1>t, <1>0, <2>0, NoAccount DEF Issued, ConnectType, CheckType, A!Rows
  <2>3. OnItsWay'
    BY <1>t, <1>0, <2>0, NoAccount DEF Issued, OnItsWay, ConnectType, CheckType, A!Rows
  <2>4. LinkIntact'
    BY <1>t, <1>0, <2>0 DEF Issued, LinkIntact, A!LinkIntact, A!Replacing, A!Rows
  <2> QED BY <2>1, <2>2, <2>3, <2>4 DEF LinkInv
<1>2. ASSUME NEW c \in Connects, A!Link(c)
      PROVE  LinkInv'
  <2>0. /\ connect[c].at = "exchanged" /\ crossed' = FALSE
        /\ account' = [account |-> connect[c].account, token |-> connect[c].token, expired |-> FALSE]
        /\ connect' = [connect EXCEPT ![c].at = "done"]
        /\ UNCHANGED <<owner, honoured, check, dropped>>
    BY <1>2 DEF A!Link, A!Linked
  <2>r. connect[c].account \in Accounts /\ connect[c].token \in Secrets
    BY <1>0, <2>0 DEF Issued
  <2>s. /\ account' \in A!Rows /\ account'.token = connect[c].token /\ account'.account = connect[c].account
        /\ \A d \in Connects \ {c} : connect'[d] = connect[d]
        /\ connect'[c].at = "done" /\ connect' \in [Connects -> ConnectType]
    BY <2>0, <2>r, <1>t DEF A!Rows, ConnectType
  <2>1. A!TypeOK'
    BY <1>t, <2>0, <2>s DEF A!TypeOK, ConnectType, CheckType
  <2>2. Issued'
    BY <1>t, <1>0, <2>0, <2>r, <2>s, NoAccount DEF Issued
  <2>3. OnItsWay'
    BY <1>t, <1>0, <2>0, <2>r, <2>s DEF Issued, OnItsWay
  <2>4. LinkIntact'
    BY <1>t, <1>0, <2>0, <2>r, <2>s DEF Issued, OnItsWay, LinkIntact, A!LinkIntact
  <2> QED BY <2>1, <2>2, <2>3, <2>4 DEF LinkInv
<1>3. ASSUME A!Disconnect PROVE LinkInv'
  <2> USE <1>3 DEF A!Disconnect
  <2>1. A!TypeOK'
    BY <1>t DEF A!TypeOK, ConnectType, CheckType
  <2> QED BY <1>0, <2>1 DEF LinkInv, Issued, OnItsWay, LinkIntact, A!LinkIntact
<1>4. ASSUME A!AccessExpires PROVE LinkInv'
  <2>0. account # None /\ account \in A!Rows /\ account' = [account EXCEPT !.expired = TRUE]
        /\ UNCHANGED <<owner, honoured, connect, check, crossed, dropped>>
    BY <1>4, <1>t DEF A!AccessExpires
  <2>s. account' \in A!Rows /\ account'.token = account.token /\ account'.account = account.account
    BY <2>0 DEF A!Rows
  <2>1. A!TypeOK'
    BY <1>t, <2>0, <2>s DEF A!TypeOK, ConnectType, CheckType
  <2> QED BY <1>0, <2>0, <2>s, <2>1 DEF LinkInv, Issued, OnItsWay, LinkIntact, A!LinkIntact, A!Replacing
<1>5. ASSUME NEW v \in Checks, A!CheckRead(v) PROVE LinkInv'
  <2>0. /\ check[v].at = "none" /\ account # None /\ account \in A!Rows
        /\ check' = [check EXCEPT ![v] = [at |-> "read", seen |-> account, token |-> None]]
        /\ UNCHANGED <<account, owner, honoured, connect, crossed, dropped>>
    BY <1>5, <1>t DEF A!CheckRead
  <2>s. /\ check'[v].at = "read" /\ check'[v].seen = account /\ \A w \in Checks \ {v} : check'[w] = check[w]
        /\ check' \in [Checks -> CheckType]
    BY <2>0, <1>t DEF CheckType
  <2>1. A!TypeOK'
    BY <1>t, <2>0, <2>s DEF A!TypeOK, ConnectType, CheckType
  <2>2. Issued'
    BY <1>t, <1>0, <2>0, <2>s DEF Issued
  <2>3. OnItsWay'
    BY <1>t, <1>0, <2>0, <2>s DEF OnItsWay
  <2>4. LinkIntact'
    BY <1>t, <1>0, <2>0, <2>s DEF LinkIntact, A!LinkIntact, A!Replacing
  <2> QED BY <2>1, <2>2, <2>3, <2>4 DEF LinkInv
<1>6. ASSUME NEW v \in Checks, A!Renewed(v) PROVE LinkInv'
  <2> DEFINE old == check[v].seen.token
  <2>0. /\ check[v].at = "read" /\ old \in honoured
        /\ UNCHANGED <<account, connect, crossed, dropped>>
    BY <1>6 DEF A!Renewed
  <2>k. check[v].seen \in A!Rows /\ old \in Secrets /\ owner[old] # None
    BY <1>0, <2>0 DEF Issued, A!Rows
  <2>1. CASE /\ check' = [check EXCEPT ![v].at = "renewed", ![v].token = old]
             /\ UNCHANGED <<owner, honoured>>
    <3>s. /\ check'[v].at = "renewed" /\ check'[v].seen = check[v].seen /\ check'[v].token = old
          /\ \A w \in Checks \ {v} : check'[w] = check[w]
          /\ check' \in [Checks -> CheckType]
      BY <2>0, <2>1, <2>k, <1>t DEF CheckType
    <3>1. A!TypeOK'
      BY <1>t, <2>0, <2>1, <3>s DEF A!TypeOK, ConnectType, CheckType
    <3>2. Issued'
      BY <1>t, <1>0, <2>0, <2>1, <2>k, <3>s DEF Issued
    <3>3. OnItsWay'
      BY <1>t, <1>0, <2>0, <2>1, <3>s DEF OnItsWay
    <3>4. LinkIntact'
      BY <1>t, <1>0, <2>0, <2>1, <3>s DEF LinkIntact, A!LinkIntact, A!Replacing
    <3> QED BY <3>1, <3>2, <3>3, <3>4 DEF LinkInv
  <2>2. ASSUME NEW t \in Secrets, A!Issue(t, owner[old], {old}),
               check' = [check EXCEPT ![v].at = "renewed", ![v].token = t]
        PROVE  LinkInv'
    <3>0. /\ owner[t] = None /\ owner' = [owner EXCEPT ![t] = owner[old]]
          /\ honoured' = (honoured \ {old}) \cup {t} /\ t # old
      BY <2>2, <2>k DEF A!Issue
    <3>s. /\ check'[v].at = "renewed" /\ check'[v].seen = check[v].seen /\ check'[v].token = t
          /\ \A w \in Checks \ {v} : check'[w] = check[w]
          /\ check' \in [Checks -> CheckType]
      BY <2>0, <2>2, <2>k, <1>t DEF CheckType
    <3>o. /\ owner'[t] = owner[old] /\ \A s \in Secrets \ {t} : owner'[s] = owner[s]
          /\ owner' \in [Secrets -> Accounts \cup {None}]
      BY <3>0, <2>k, <1>t
    <3>h. /\ account # None => account.token # t /\ account.token \in Secrets
          /\ \A c \in Connects : connect[c].at = "exchanged" => connect[c].token # t /\ connect[c].token # old
          /\ \A w \in Checks : Busy(w) => check[w].seen.token # t /\ check[w].seen.token \in Secrets
          /\ \A w \in Checks : check[w].at = "renewed" => check[w].token # t
          /\ \A w \in Checks : Replaced(w) => check[w].token # old
      BY <1>t, <1>0, <2>0, <2>k, <3>0, NoAccount DEF Issued, OnItsWay, A!Rows
    <3>1. A!TypeOK'
      BY <1>t, <2>0, <3>s, <3>0, <3>o DEF A!TypeOK, ConnectType, CheckType
    <3>2. Issued'
      BY <1>t, <1>0, <2>0, <2>k, <3>s, <3>h, <3>o DEF Issued
    <3>3. OnItsWay'
      BY <1>t, <1>0, <2>0, <3>s, <3>0, <3>h DEF OnItsWay
    <3>4. LinkIntact'
      BY <1>t, <1>0, <2>0, <3>s, <3>0, <3>h, <3>o DEF LinkIntact, A!LinkIntact, A!Replacing
    <3> QED BY <3>1, <3>2, <3>3, <3>4 DEF LinkInv
  <2> QED BY <1>6, <2>1, <2>2 DEF A!Renewed
<1>7. ASSUME NEW v \in Checks, A!NotRenewed(v) PROVE LinkInv'
  <2>0. /\ check[v].at = "read" /\ UNCHANGED <<account, owner, honoured, connect, crossed, dropped>>
        /\ check' = [check EXCEPT ![v].at = "done"]
    BY <1>7 DEF A!NotRenewed, A!Ends
  <2>s. /\ check'[v].at = "done" /\ \A w \in Checks \ {v} : check'[w] = check[w]
        /\ check' \in [Checks -> CheckType]
    BY <2>0, <1>t DEF CheckType
  <2>1. A!TypeOK'
    BY <1>t, <2>0, <2>s DEF A!TypeOK, ConnectType, CheckType
  <2>2. Issued' /\ OnItsWay'
    BY <1>t, <1>0, <2>0, <2>s DEF Issued, OnItsWay
  <2>4. LinkIntact'
    BY <1>t, <1>0, <2>0, <2>s DEF LinkIntact, A!LinkIntact, A!Replacing
  <2> QED BY <2>1, <2>2, <2>4 DEF LinkInv
<1>8. ASSUME NEW v \in Checks, A!AnswerLost(v) PROVE LinkInv'
  <2> DEFINE old == check[v].seen.token
  <2>0. /\ check[v].at = "read" /\ old \in honoured /\ UNCHANGED <<account, connect, crossed>>
        /\ check' = [check EXCEPT ![v].at = "done"] /\ dropped' = dropped \cup {old}
    BY <1>8 DEF A!AnswerLost, A!Ends
  <2>p. PICK t \in Secrets : A!Issue(t, owner[old], {old})
    BY <1>8 DEF A!AnswerLost
  <2>k. check[v].seen \in A!Rows /\ old \in Secrets /\ owner[old] # None
    BY <1>0, <2>0 DEF Issued, A!Rows
  <2>q. /\ owner[t] = None /\ owner' = [owner EXCEPT ![t] = owner[old]]
        /\ honoured' = (honoured \ {old}) \cup {t} /\ t # old
    BY <2>p, <2>k DEF A!Issue
  <2>s. /\ check'[v].at = "done" /\ \A w \in Checks \ {v} : check'[w] = check[w]
        /\ check' \in [Checks -> CheckType]
    BY <2>0, <1>t DEF CheckType
  <2>o. /\ owner'[t] = owner[old] /\ \A s \in Secrets \ {t} : owner'[s] = owner[s]
        /\ owner' \in [Secrets -> Accounts \cup {None}]
    BY <2>q, <2>k, <1>t
  <2>h. /\ account # None => account.token # t /\ account.token \in Secrets
        /\ \A c \in Connects : connect[c].at = "exchanged" => connect[c].token # t /\ connect[c].token # old
        /\ \A w \in Checks : Busy(w) => check[w].seen.token # t /\ check[w].seen.token \in Secrets
        /\ \A w \in Checks : check[w].at = "renewed" => check[w].token # t
        /\ \A w \in Checks : Replaced(w) => check[w].token # old
    BY <1>t, <1>0, <2>0, <2>k, <2>q, NoAccount DEF Issued, OnItsWay, A!Rows
  <2>1. A!TypeOK'
    BY <1>t, <2>0, <2>s, <2>q, <2>o, <2>k DEF A!TypeOK, ConnectType, CheckType
  <2>2. Issued'
    BY <1>t, <1>0, <2>0, <2>k, <2>s, <2>h, <2>o DEF Issued
  <2>3. OnItsWay'
    BY <1>t, <1>0, <2>0, <2>s, <2>q, <2>h DEF OnItsWay
  <2>4. LinkIntact'
    BY <1>t, <1>0, <2>0, <2>s, <2>q, <2>h, <2>o DEF LinkIntact, A!LinkIntact, A!Replacing
  <2> QED BY <2>1, <2>2, <2>3, <2>4 DEF LinkInv
<1>9. ASSUME NEW v \in Checks, A!StoreTokens(v) PROVE LinkInv'
  <2>0. /\ check[v].at = "renewed" /\ account # None /\ account \in A!Rows
        /\ account' = [account EXCEPT !.token = check[v].token, !.expired = FALSE]
        /\ crossed' = (crossed \/ ~A!Same(v))
        /\ check' = [check EXCEPT ![v].at = "done"]
        /\ UNCHANGED <<owner, honoured, connect, dropped>>
    BY <1>9, <1>t DEF A!StoreTokens, A!Ends
  <2>k. check[v].token \in Secrets /\ owner[check[v].token] = owner[check[v].seen.token]
        /\ owner[check[v].seen.token] # None
    BY <1>0, <2>0 DEF Issued
  <2>s. /\ check'[v].at = "done" /\ \A w \in Checks \ {v} : check'[w] = check[w]
        /\ check' \in [Checks -> CheckType]
    BY <2>0, <1>t DEF CheckType
  <2>r. account' \in A!Rows /\ account'.token = check[v].token /\ account'.account = account.account
    BY <2>0, <2>k DEF A!Rows
  <2>1. A!TypeOK'
    BY <1>t, <2>0, <2>s, <2>r DEF A!TypeOK, ConnectType, CheckType
  <2>2. Issued'
    BY <1>t, <1>0, <2>0, <2>k, <2>s, <2>r DEF Issued
  <2>3. OnItsWay'
    BY <1>t, <1>0, <2>0, <2>s, <2>r DEF OnItsWay
  <2>4. LinkIntact'
    <3> SUFFICES ASSUME ~crossed, A!Same(v)
                 PROVE  /\ owner'[account'.token] = account'.account
                        /\ account'.token \in honoured' \cup dropped' \/ (\E w \in Checks : A!Replacing(w))'
      BY <2>0 DEF LinkIntact, A!LinkIntact
    <3>1. /\ owner[account.token] = account.account /\ account.token = check[v].seen.token
          /\ account.token \in honoured \cup dropped \/ \E w \in Checks : A!Replacing(w)
      BY <1>0, <2>0 DEF LinkIntact, A!LinkIntact, A!Same
    <3>2. CASE Replaced(v)
      BY <1>0, <2>0, <2>s, <2>r, <2>k, <3>1, <3>2 DEF OnItsWay
    <3>3. CASE check[v].token = check[v].seen.token
      BY <1>0, <2>0, <2>s, <2>r, <2>k, <3>1, <3>3 DEF A!Replacing
    <3> QED BY <2>0, <3>2, <3>3
  <2> QED BY <2>1, <2>2, <2>3, <2>4 DEF LinkInv
<1>10. ASSUME NEW v \in Checks, A!StoreFails(v) PROVE LinkInv'
  <2> DEFINE old == check[v].seen.token
  <2>0. /\ check[v].at = "renewed" /\ UNCHANGED <<account, owner, honoured, connect, crossed>>
        /\ dropped' = IF check[v].token = old THEN dropped ELSE dropped \cup {old}
        /\ check' = [check EXCEPT ![v].at = "done"]
    BY <1>10 DEF A!StoreFails, A!Ends
  <2>k. check[v].seen \in A!Rows /\ old \in Secrets
    BY <1>0, <2>0 DEF Issued, A!Rows
  <2>s. /\ check'[v].at = "done" /\ \A w \in Checks \ {v} : check'[w] = check[w]
        /\ check' \in [Checks -> CheckType]
    BY <2>0, <1>t DEF CheckType
  <2>1. A!TypeOK'
    BY <1>t, <2>0, <2>s, <2>k DEF A!TypeOK, ConnectType, CheckType
  <2>2. Issued' /\ OnItsWay'
    BY <1>t, <1>0, <2>0, <2>s DEF Issued, OnItsWay
  <2>4. LinkIntact'
    BY <1>t, <1>0, <2>0, <2>s DEF LinkIntact, A!LinkIntact, A!Replacing
  <2> QED BY <2>1, <2>2, <2>4 DEF LinkInv
<1>11. CASE UNCHANGED A!vars
  BY <1>0, <1>11 DEF A!vars, LinkInv, A!TypeOK, Issued, OnItsWay, LinkIntact, A!LinkIntact, A!Replacing
<1> QED
  BY <1>1, <1>2, <1>3, <1>4, <1>5, <1>6, <1>7, <1>8, <1>9, <1>10, <1>11 DEF A!Next

\* The stored token is of the account the row shows and the platform honours it, unless a
\* refresh wrote to another row or a replacement was lost (handleCallback, getValidToken):
\* what is on its way to the row is honoured, and in nobody else's hands.
THEOREM LinkCorrect == A!Spec => []LinkIntact
<1>1. LinkInv => LinkIntact
  BY DEF LinkInv
<1> QED BY <1>1, LinkInit, LinkStep, PTL DEF A!Spec
=============================================================================
