# Engganyo: specifications of the credit economy

Engganyo (`src/apps/api`, NestJS with Prisma over PostgreSQL; `src/apps/web`,
Next.js) is a platform on which users buy credits, spend them on campaigns and
challenges, and earn them by doing the tasks those ask for. This directory holds
TLA+ models of the parts that move credits, points, goods, sessions and the standing of
users, in the API and in the browser where both decide, TLC runs that check them on small instances, and TLAPS proofs
for every value of the constants.

Paths below are relative to `src/apps/api/src/modules/` unless they start with `src/`.

## 1. Inventory

The API runs as several processes over one PostgreSQL database. Handlers share
nothing but rows; a handler is a chain of awaits, and every await is a point
where another handler, a webhook or a cron may run. Three devices keep rows
consistent: transactions (`withTransaction`), guarded updates (`updateMany` whose
`where` repeats the condition, and whose count says whether it held), and
row locks (`SELECT ... FOR UPDATE`). PostgreSQL runs at READ COMMITTED: a guarded
update evaluates its condition on the newest committed row; a plain read made
before it may be stale.

| component | state | operations | hard behaviour | correct when |
|---|---|---|---|---|
| **Wallet engine** (`wallet/wallet.service.ts` 156-330) | `wallets` (balance, version, lifetime totals), `transactions`, `users.creditBalance` | `credit`, `debit`, `executeWithOptimisticLock`, `reconcileCreditBalanceMirror` | the balance is read before the transaction; conflicts are retried; the reconciliation copies a balance while settlements write it | no update lost, no overdraft, one ledger row per success, mirror in step, every call returns |
| **Campaigns and their tasks** (`campaigns/`, `tasks/`, admin reviews) | `campaigns` (status, slot counters), `task_completions`, ledger | `assignTask`, `submitProof`, `recheckTask`, reviews, `update`, `cancel`, `cancelUserCampaign`; for admins' own campaigns `createPlatformTask`, `updatePlatformTask`, `cancelPlatformTask` | `submitProof` waits for a platform's API between read and write; three ways to settle one completion; an edit races a cancel, or changes slots and price under the calls that use them | slots never oversubscribed or leaked, one payment per verified completion, refund and payouts within the pool |
| **Challenges** (`challenges/`, `tasks.service.ts` 640-740) | `challenges`, their one `task_completions` row, the reserve | `claim`, `submitChallengeProof`, `cancel`, reviews, `sweepExpired` | several claimants, overlapping sweeps that act on what they selected, a failing close | one claimant, one settlement, reserve freed after the deadline |
| **Crypto deposits** (`wallet/wallet.service.ts` 370-1330, `crypto-verification.service.ts`) | `deposits` (status, unique `paymentRef`, `gatewayData`, `walletVerified`) | `initiateDeposit`, `submitTxHash`, `proveWalletOwnership`, `cancelDeposit`, `verifyCryptoDeposit`, its cron, `reviewDeposit` | a verification reads, asks the chain, and writes to whatever the deposit has become; two deposits claim one transfer | a transfer is credited once, to the payer who proved the wallet; proven claims settle |
| **PayMongo and PayPal deposits** (`paymongo/`, `paypal/`) | `deposits` (status, `paymentRef` with its creation claim, `gatewayData`), the provider's sessions and orders | `createCheckoutSession`, `createOrder`, `captureOrder`, webhooks, expiry crons, `cancelDeposit`, `reviewDeposit` | a creation claim is taken over while its owner still runs; webhooks late, twice or again after a 500; a call that stops between claim, capture and settlement; cancels and crons in between | a deposit is credited once and only for a full payment or an approval; the checkout in the payer's hands is the one the row knows; what is paid does not stay open |
| **Tips and rain** (`channels/`) | several wallets, a 48-hour window in Redis | `sendTip`, `handleRainCommand` | several wallets in one transaction, locked in any order; the budget is counted after the commit | a gift is made whole or not at all; budget kept |
| **Store** (`store/`, admin grants, prizes) | stock, `user_inventory`, purchases | `purchaseItem`, `useItem`, `openLootBox`, `grantStoreItem`, `updateStoreItem` | a purchase locks the item but not the inventory; a use has no transaction | limits kept, no cosmetic bought twice, no unit lost before its effect |
| **Gamification: the wheel** (`gamification/`, the web client's dialogue) | attempts by idempotency key, the day's allowance, spins | `spinWheel`, the client's retries | copies of one click run at once, fail, are rolled back, around midnight | one settlement per click, at its price, within the day's allowance; the page shows what was stored |
| **Gamification: rewards** | streak and last claim in `users`, achievements, missions | `claimDailyReward`, `checkAchievements`, `updateMissionProgress` | streak computed before the transaction; an achievement inserted in and outside one; progress read, written, paid | streak continues the claims; an achievement and a mission are paid once |
| **Referrals** (`referrals/`) | `referrals` (flags, `isQualified`), wallets | `qualifyReferral`, `awardMilestone` | qualified is recorded before the award; awards overlap, start over, fail | a milestone once, to both sides or none |
| **Auth and sessions** (`auth/`, the web client's interceptors) | `user_sessions`, the cookie, the page's state | login, refresh, logout, reset | every request refreshes on its own with a shared cookie; rotation is three statements | a login has one live session; a page is not signed out without a cause |
| **Admin** (`admin/`) | all of the above | reviews, cancels, deposit review | acts on rows read earlier | as the component it acts on |
| **Settlement figures** (`admin/` `backfillSettlement`) | `providerFee`, `providerNet`, `providerConverted` of completed deposits, the cursor an admin holds | calls bounded by rows scanned and rows updated | providers stay silent; the bounds cut pages short; calls, settlements and rejections overlap | following the cursors to their end asks for every deposit |
| **Gamification: XP and levels** | `users.xp`, `level`, `vipPoints`, `vipTierId`, the two logs | `awardXp`, `awardVp` | every service awards, outside any transaction, totals computed from a read | XP, VP, level, tier and logs agree up to the overwrites |
| **Forum** (`forum/`) | topics (status, `isPinned`, `lockedAt`, `replyCount`), threads of replies | `createReply`, `deleteReply`, `deleteTopic`, `lockTopic`, `unlockTopic`, `pinTopic`, `hideTopic` | five operations write one status; the database removes threads below a deleted reply | the count is the replies, the status what the flags say |
| **Social accounts** (`social-auth/`) | one account per user and platform, its tokens | `handleCallback`, `disconnect`, `getValidToken` | a refresh asks the platform between read and write, while the user reconnects or disconnects | the token is the shown account's, and honoured |
| **Standing of a user** (`anti-abuse/`, `admin.service.ts` `updateUserStatus`, `auth.service.ts` `verifyEmail`, `jwt.strategy.ts`) | `users.status`, open flags, verification links, the guard's entry in Redis | `submitReport`, `flagUser`, `checkAndEscalate`, `resolveReport`, `updateUserStatus`, `verifyEmail`, `resendVerification`, `validate` | five writers by id; flags counted by calls that overlap; a cached status | a limit of flags suspends; a restriction bites once it is answered |
| **Visitor statistics** (`analytics/visitor-analytics.service.ts`, the web client's beacon) | `visitor_visits`, `visitor_events`, `analytics_daily_visits` | `ingestBeacon`, `rollupDailyVisits`, `purgeExpiredVisitorData` | beacons come again or at once; hourly rollups of several processes delete and reinsert the same days; the purge removes the rows behind the figures | a page view counts once; a day's figures are those of all its page views |
| Users, chat, notifications, e-mail, uploads, search, other statistics, health, other pages of the web application, infrastructure | | | single-row edits, queries or pure I/O | not modelled |

**How they interact.** Every movement of credits goes through the wallet engine,
inside the caller's transaction when there is one. A campaign or a challenge takes
its credits from the creator's wallet at creation, and pays or refunds through
`WalletService.credit`. `tasks.service.ts` settles completions of both. A deposit
ends in one `credit`. Admin handlers write the same rows as the owners' handlers.
After a commit come best-effort calls (events, notifications, gamification,
referral milestones): their failure is logged and changes nothing before it.

`PROJECT.json` lists the components with what is and is not modelled of each, and
every hazard at its source line with the properties that cover it.

## 2. Modules

| module | models | composes |
|---|---|---|
| `Account` | what a wallet promises: atomic credits and debits | |
| `Wallet` | the optimistic-locking engine | implements `Account` |
| `Escrow` | what a funded campaign or challenge promises about its money | |
| `CampaignTasks` | one campaign, its completions, reviews, edits and closings | implements `Escrow` until an edit reopens it |
| `PlatformTasks` | one campaign of an admin, whose slots and price change under the calls that use them | |
| `Challenges` | one challenge from offer to settlement | implements `Escrow` |
| `CryptoDeposits` | crypto deposits, verification, cron and rejection | |
| `ProviderDeposits` | one deposit by PayMongo or PayPal: checkouts, webhooks, captures, crons, cancels, reviews | |
| `Spins` | what the wheel promises: one settlement per click, within the day's allowance | |
| `Wheel` | the wheel from the click to the settled spin: page, retries, transactions | implements `Spins` |
| `Rewards` | daily claims, achievements and missions of any users | |
| `Store` | purchases, uses, loot boxes, prizes and grants over the inventory | |
| `Transfers` | tips, rains and referral awards: transactions over several wallets | puts the wallet engine inside its callers' transactions |
| `Sessions` | one user's session rows, the browser's cookie, requests that refresh | |
| `Levels` | XP, level, VIP points and tier of one user | |
| `Forum` | topics, threads of replies, staff's edits | |
| `SocialLinks` | a user's account on one platform and the refresh of its tokens | |
| `Backfill` | chains of bounded calls that fill in settlement figures | |
| `Visits` | page views, visits, daily figures and their purge | |
| `Standing` | reports, flags, orders and verifications upon `users.status`; the guard's cache | |
| `WalletProofs`, `CampaignTasksProofs`, `ChallengesProofs`, `CryptoDepositsProofs`, `ProviderDepositsProofs`, `GamificationProofs`, `SessionsProofs`, `TransfersProofs` | the theorems | |
| `MC...` | instances for TLC | `MCCampaignTasks` has `PlatformTasks` beside `CampaignTasks`, `MCStore` `Backfill` beside `Store`, `MCTransfers` `Forum`, `Standing` and `Levels` beside `Transfers`, `MCSessions` `SocialLinks` beside `Sessions`, `MCCryptoDeposits` `Visits` beside `CryptoDeposits` |

The modules that an `MC` module puts side by side share no row and no lock, so that their
product would show nothing new: its variable `scene` says which of them a behaviour plays. `GamificationProofs` has three
components on one page: it extends `MCStore`, `MCRewards` and `Wheel`, of which the first two
instantiate `Store` and `Backfill` (as `G` and `B`) and `Rewards` (as `R`) under names that do not
meet those of the wheel.

**What one action is.** A transaction is one action: it commits or leaves every row
as it was. A handler that reads and later writes under a guard that does not
repeat all it read is split there into two actions with the value it read kept
between them (`seen`, `proof`, `edit`, `claiming`, `submit`, `check`, `review`, `create`, `capture`,
`hook`, `decline`, `expiry`, `cancel`, `plan`, `claim`, `bump`, `gift`, `call`, `update`, `sent`, `deleting`,
`report`, `order`, `verify`, `resend`, `request`). A
handler whose writes repeat every condition of its reads, or that decides under a
row lock, is one action: its earlier reads can only make it refuse more often. A
refusal that changes nothing is the action not being enabled, except where a call
keeps a record of its end.

**`Wallet`.** `wallet`, `ledger` and `mirror` are the tables `wallets`,
`transactions` and the column `users.creditBalance`. A request goes from `new`
through `Submit` or `Refuse` (the amount check), `Read` or `Insufficient` (the
`findUnique` and the debit's balance check), to `Apply` (the transaction:
`updateMany` on id and version, ledger row, mirror), `Conflict` (count 0, read
again) or `GiveUp` (`WalletContentionException`); `OutOfRange` is an `Int` column
refused by PostgreSQL. A call that joins its caller's transaction commits with it; a
caller that rolls back is a request that never applies. `ReconcileLock` is the `SELECT ... FOR UPDATE`,
`ReconcileWrite` the copy; between them no writer of that wallet proceeds. `Init`
lets the mirror have drifted, which is what the reconciliation exists for.

**`CampaignTasks`.** The row `campaign` keeps status and the two counters;
`completion` one row per worker (the unique constraint on campaign and worker).
`Assign`, `Verify` (claim, counters, credit in one transaction: used by approval
and by automatic verification), `Reject`, `Close` are the transactions. A call of
`submitProof` or `recheckTask` is a `proof`: `Begin` reads the completion, the API
answers (`Confirmed`, `Unconfirmed`, `TurnedDown`), and `AutoVerify`, `VerifyFails`
or `SubmitForReview` writes. An `update` that sets a status is an `edit` with its
read and its write. The history variables `clobbered` and `reopened` record the two
races of section 6, so that the other properties say exactly what holds up to
them.

**`PlatformTasks`.** The row `task` has what `CampaignTasks` keeps constant, slots, price and
cost, beside the counters. `Read` is what a proof or an approval read of the completion and the
price; `Pay` (the claim, the counters, the credit of the price read) and `Submit` (the update
by id) are the ways it goes on. `UpdateRead` and `UpdateWrite` are `updatePlatformTask`, whose
cost is computed from the columns given and, for the rest, from those read. `OrderRead` and
`OrderWrite` are the two operations that read an open status and write another by id, `update`
and `cancelPlatformTask`; `Cancel` is the transaction of `cancel` and of `cancelUserCampaign`
with `resolveFundedRefund`. A task made by `createPlatformTask` has no debit, one that an admin
made by `create` has: `funded` is either. `history` names the races of section 6.

**`Challenges`.** `status` and `claimant` are the challenge, `claim` its
completion. `claim`, `submitChallengeProof` and each `sweepExpired` read first and
write later; `cancel` and the reviews are one action each. `late` is the shared
deadline. Two sweeps may overlap because the cron starts every five minutes
whatever the last run is doing.

**`CryptoDeposits`.** A deposit's `ref` is `paymentRef`, `evidence` is
`gatewayData.submittedHash`, `verified` is `walletVerified`, and `older` is the set
of hashes already in a block when it was initiated (`createdAt`). A wallet address
is named by its owner, so that a signature is `CanSign`. A verification, of a
user, an admin or the cron, reads (`CheckRead`), asks (`CheckAsk`: the truthful
`Verdict`, or "waiting" when a node fails or confirmations lack) and ends in
`Complete`, `Release`, `Fail` or `NoResult`. An admin's approval goes through
`verifyCryptoDeposit` and is a verification; the rejection is `ReviewRead` and
`ReviewWrite`, whose update names the row by id alone; `overruled` records that it
came after the credit.

**`ProviderDeposits`.** The two providers share the row, `completeDeposit`,
`cancelDeposit` and `reviewDeposit`, and differ in how a checkout is paid, so one
module has both and `method` says which actions apply. `ref` is `paymentRef` by
what it is: empty, a creation's claim (`creating:...`, with `stale` for
`CLAIM_TTL`), a checkout, a payment, or an admin's text. `url` is the checkout in
`gatewayData`. The provider keeps `order`, the checkouts a payer was given, and
`owed`, the payments whose event it has not been able to deliver. A creation claims (`CreateClaim`),
asks the provider and persists (`CreatePersist`) or releases (`CreateFails`). A
`payment.paid` delivery claims the deposit (`HookClaim`: `verifyPaidEvidence` and
the guarded update) and settles it (`HookComplete`), is acknowledged without
effect (`HookIgnored`), or answers 500 (`HookFails`). A capture reads, claims
PROCESSING, calls PayPal, looks at the answer or at the order already captured,
and settles (`CaptureRead` to `CaptureSettle`; `CaptureFails` is any early end).
`CancelRead`, `CancelWrite`, `CancelNote` are the three statements of
`cancelDeposit`, of which the last rewrites `gatewayData` from what the first
read. `Reject` is a write by id alone, made by `payment.failed` and by an admin.

**`Backfill`.** Deposits are numbered by completion. `call` is what a call of
`backfillSettlement` knows: the cursor it was given and the one it would answer, the rest of
its page with the figures missing when it was read (`Fetch`), what the provider told of the row
at hand (`Examine`), and its two counters. Each figure is a statement of its own, conditioned on
the column being still empty (`Write`), which may throw (`WriteFails`). `Begin` is the admin's
next call with the answered cursor. Beside the chains deposits are completed (`Complete`, with
any of their figures) and rejected by id (`Reject`).

**`Wheel`.** A click is one idempotency key and one confirmed price (`Click`); its
request and the client's retries (`Resend`) are requests `<<click, n>>`, each of which
becomes one transaction on the server. `Begin` inserts the attempt row, whose unique key is
held until the transaction ends; `Replay` is the answer to a key already committed. `Seed`
counts the day's committed spins, `ClaimFree`, `ClaimPaid` and `Deny` decide under the lock of
the allowance row, `Settle` commits debit, prize, spin and stored result, `RollBack` is every
other end. `Answer` and `GiveUp` are the dialogue. `spins` counts by the day a spin is
recorded on, `used` by the day its allowance was claimed from: midnight may lie between.

**`Rewards`.** A daily claim reads and computes (`ClaimRead`), takes its row with the
conditional update (`ClaimRow`), looks for and inserts the streak achievement
(`ClaimLook`, `ClaimInsert`) and commits (`ClaimCommit`) or rolls back (`ClaimFails`).
`CheckRead`, `CheckInsert`, `CheckPay` are `checkAchievements`, which has no transaction;
`BumpRead`, `BumpWrite`, `BumpPay` the three statements of a mission's update. A UTC day
and the cooldown are the same length, so one constant is both; no call lasts that long
(`Tick`). `torn` records missions whose progress was overwritten by an update that had read
less.

**`Store`.** `PurchaseRead` takes the lock of the item's row and passes the guards,
`PurchaseCommit` writes stock and inventory; the inventory rows are not locked, so uses
and grants run between the two. A use reads a row, applies its effect (`UseApply`, or for a
loot box `UseReveal` and `UseGrant`) and writes the quantity it read, less one
(`UseConsume`). A purchase of `n` cosmetics is charged `n` times and gives one row of one:
`PurchaseCommit` does what the code does. `torn` records rows a use wrote over; among them
are a second use of the same unit, and a purchase stacked in between, which vanishes.

**`Transfers`.** A tip or rain is a list of debits and credits, an award a list of its
bonuses; the legs run in one transaction, each a read and a conditional write of a wallet
row that stays locked until the end (`LegRead`, `LegWrite`, `LegConflict`, `LegContended`,
`LegInsufficient`). A leg that needs a row another transaction holds waits; in a circle of
waits one call is the victim (`DeadlockVictim`). `GiveRecord` counts the gift in Redis after
the commit, or fails to. An award locks the referral's row first (`AwardLock`). `hasty`
records givers whose gifts overlapped or were not recorded, `lost` awards whose transaction
failed: `isQualified` is set by then, so nothing repeats them.

**`Sessions`.** A request that is denied with an expired access token refreshes on its own
(`Denied`, `Refresh`): there is no queue in the client, and the pages share one cookie. The
server checks the row, revokes it and mints the next (`Check`, `Revoke`, `Mint`), without a
transaction; `Breaks` stops it, or the answer, anywhere. `Accepted`, `Refused` and `Lost`
are what the page makes of it. `Leave` is the page's own logout, which does not call the
server. `line` names the login a token goes back to; `shared`, `broken`, `ended` and
`straddled` mark lines by what happened to them.

**`Levels`.** Each award is a chain of statements: `ReadXp`, `WriteXp` (XP and the level
computed from the read, by id), `LogXp`, then, if it reached a level, `ReadVp`, `WriteVp`,
`LogVp` for the bonus, and the same three for VIP points of its own. `ClaimAwards` is the
chain inside a daily claim, whose transaction holds the user's row. `torn` says that a call
wrote over what it had not read.

**`Forum`.** `ReplyCheck` and `ReplyPost` are the checks of `createReply` and its
transaction; `DeleteRead` and `DeleteWrite` those of `deleteReply` and `adminDeleteReply`.
`Threads` is what `onDelete: Cascade` removes with a reply. `Pin` and `Unlock` write from
what `EditRead` read; `Lock`, `Hide` and `Unhide` use nothing they read and are one action.
`swept` counts the replies the database removed below a deleted one, `crossed` names the
topics pinned while an unlock was under way.

**`SocialLinks`.** `Exchange` is the consent and the token the platform issues, `Link` the
upsert of `handleCallback`. A verification with an expired access token reads the row
(`CheckRead`), asks (`Renewed`, `NotRenewed`, `AnswerLost`) and writes by user and platform
(`StoreTokens`, `StoreFails`). `crossed` says that the row was not the one read, `dropped`
names tokens the platform replaced and nobody stored.

**`Standing`.** A report is filed, flags its user, counts the open flags, reads the status
and suspends by id (`SubmitReport` to `AutoSuspend`). `SetStatus` and `InvalidateUserCaches`
are the two halves of `updateUserStatus`. `VerifyRead`, `VerifyWrite` and the three statements
of `resendVerification` are the e-mail links. `ValidateMiss` and `ValidateStore` are the guard
of a request that finds no cached entry. `quiet`, `late` and `pardoned` record the last status
written without deleting the entry, an entry stored after the status had changed, and a user
made ACTIVE since the last suspension.

**`Visits`.** A delivery looks up the beacon's `eventId` and takes its time (`Arrive`), finds the
visitor's open visit in its transaction (`Look`) and commits visit and event together
(`Commit`), unless the unique `eventId` or a purged visit rolls it back. A row is named by the
beacon that made it and marked `gone` when purged, so that what the figures were computed from
is still known. A run is one day's transaction of `rollupDailyVisits`: `RollupDelete` locks
the figures it finds or waits for the run that has, `RollupRead` is the query, `RollupCommit`
the insert, which the unique index refuses when another run inserted meanwhile (`Conflicts`,
`RollupFails`). `raced` records visitors with two deliveries under way at once, `behind` the
days whose rows changed since their figures were read.

**Amounts.** Wallet amounts are integers with `MaxInt` for the width of the column
(2^31 - 1). The escrows use one credit amount per task or reward: fees, bonuses and
formatting do not change who is paid when. Deposit amounts are reduced to whether
the transfer is sufficient, or the payment the deposit's.

## 3. Abstract specifications

* `Account`: a credit or debit happens once and at once, or is declined for one of
  four reasons, "insufficient" only if the balance at that moment is. `Wallet`
  implements it under `bal <- balances`, `outcome <- how the request ended`: `Apply`
  maps to `Credit` or `Debit`, `Insufficient`, `Refuse`, `GiveUp` and `OutOfRange` to
  `Decline`, the rest to stuttering.
* `Escrow`: credits leave the pot as payment or return, never more than it holds.
  `Challenges` implements it with `held` as the deposit less payouts and refunds (shown by
  the proof), and so does `CampaignTasks` until an edit reopens a refunded campaign (section 6, 1):
  from there on `ImplementsEscrow` asks nothing.
* `Spins`: a click confirms one price and settles at most once, and a day has one free and
  `MaxPaid` paid spins. `Wheel` implements it under `prize <- result`: `Click` maps to
  `Confirm`, `Settle` to `Settle` of the day the allowance was claimed from, the rest to
  stuttering.

## 4. Runs

| run | instance | states | shows |
|---|---|---|---|
| `wallet` | 1 wallet, 3 requests of 0, 2 or 3 credits either way, 2 attempts, columns up to 7, reconciliation always possible | 80 000 | no lost update, no row of a failed attempt, contention means progress, the mirror, liveness and `ImplementsAccount` |
| `campaign_safety` | 2 slots, 3 workers, 2 proof calls, 1 racing edit; or an admin's campaign of 1 or 2 slots at 2 or 3 credits, 2 workers, 2 calls, and 2 edits of 2 updates and 1 order | 527 000 | counters, completions, payouts and pool agree, and `ImplementsEscrow`; the admin's row adds up while it is edited |
| `challenge` | 3 users claiming, 2 proof calls, 2 overlapping sweeps | 3 700 | statuses agree, one settlement, the reserve freed after the deadline |
| `crypto_claims` | 2 deposits of one user over 1 hash, 1 cron, fairness, no rejection | 100 000 | one credit per transfer, a proven claim is settled |
| `crypto_verdicts` | 1 deposit, 2 hashes of any kind, a check and a cron overlapping, a rejection; or 2 page views in 3 deliveries, 2 rollups, the purge | 2 350 000 | only the user's own payment, never after the close; the figures tell what visitors did |
| `provider` | 1 deposit by either provider; 2 creations, 2 captures, 2 deliveries, 1 cancel, 1 review, the crons and failed payments | 403 000 | credited if completed, paid if credited, the payable checkout, liveness |
| `wheel` | 2 clicks, 1 retry each, 2 days, at most 1 paid spin a day, 2 prizes | 62 000 | the page tells the truth, `ImplementsSpins`, everything comes to rest |
| `store` | 2 users, a loot box and a cosmetic, limits 1 and 3, 2 purchases of 1 or 2, 2 uses, 1 grant; or 4 deposits with 2 figures, 2 chains of calls with pages of 2, 3 scanned and 2 updated at most | 1 071 000 | guards cannot be raced, items are kept until applied; no deposit is left unasked |
| `rewards` | 2 users, any 4 calls of 3 claims, 2 checks, 3 updates, over 6 ticks of a 2-tick day | 579 000 | streaks, achievements, missions |
| `transfers` | 3 users, any 3 calls of 2 gifts and 2 awards, a debit elsewhere; or 2 topics, 2 replies, 2 deletions, 2 edits; or 2 reports, 1 other flag, 1 resolution, 1 order, 1 verification, 1 new link, 1 request; or 4 awards to one user: of a task, a mission, a daily claim and one of VIP points alone, under a boost of 2 | 854 000 | whole or nothing, milestones once, budget; topics tell the truth; flags suspend, restrictions bite; points, level, tier and logs agree |
| `sessions` | 3 requests, 3 tokens, 1 browser; or 2 accounts, 4 tokens, 2 connections, 3 verifications | 1 210 000 | one live session per login, no page signed out without a cause; a stored token is the shown account's |
| `campaign_paid_twice` | 2 workers, 2 proof calls, no edit | | the counterexample of section 6 |

**Why these bounds are enough to be interesting.** Wallet: with `MaxRetry` 2 two
other requests can starve the third, so `GiveUp` happens; the amounts and the
opening balance of 3 make one debit possible and two too many; two credits reach
`MaxInt`. Different wallets never share a row, so one is enough here, and the
proofs cover any number. Campaign: three workers for two slots compete for the last
one; two proof calls may be of one worker. Platform tasks: two
updates cross, or one races an order; 1 slot is no more than are in use, and 2 prices make a
payment at the older one differ; `MaxEdits` 2 is the longest chain of edits any conjunct speaks
of, and `Scenes` names the modules a configuration plays. Challenge: two sweeps select the same
row; three users race. Crypto: two deposits and one hash are the smallest contest;
two hashes on one deposit the smallest stale answer. Provider: two creations are a
claim and its takeover; two captures race for one order; two deliveries of one event
overlap; deposits share nothing but the code, so one is enough. Wheel: a retry overlaps its
original, the other click competes for the allowance, and each may be on either side of
midnight; players share no row. Store: two purchases compete for a limit of 1 or 3, two uses
read one row while a third unit is stacked. Rewards: three claims make a streak that is
broken and continued; `Requirement` 2 lets two updates read the same progress, and a third
complete it twice. Transfers: a rain on two, a tip back and an award to both are the smallest
circle of waits with conflicts; `Circles` and `Totals` name the gifts looked at. Sessions:
three tokens are a login and two refreshes of one token, or three logins in a row. Levels: each award is
half a level (50 XP under the boost, `PerLevel` 100), so that the second of three reaches
level 2, or two at once from the same read; its bonus (`LevelBonus` 20 a level) is what the
second tier requires, for which the call without XP races. Forum: a reply and its answer, in
one topic or in two, each deleted twice at once; a pin and an unlock of one topic. SocialLinks:
a connection with each account and three overlapping refreshes, with tokens for two
connections and two replacements. Backfill: four deposits are a full page
and a page cut short by the limit on rows scanned; two updates end a call in the middle of a
page. Visits: three deliveries are two page views and a copy of one;
the clock runs to 5 with days and visits' window of 2, so that a visit spans two days, and the
rows of day 0 are purged (`RawDays` 2) while its figures are kept (`FigureDays` 3).
Standing: two reports reach the limit of 2 critical flags
together, the other flag that of 1 high flag (the code's are 3 and 6, and only the equality
with a limit matters). Three modules are bounded by
a condition on their states: `Backfill` (`Few` in `MCStore`: one rejection, and two chains only
over three deposits that lack a figure each), `Forum` (`FewEdits` in `MCTransfers`: any 3 of the
deletions and edits, which write different columns) and `Standing` (`FewCalls`: any 6 of the 8
calls); elsewhere a model is finite because a call happens once per element of its
constant set (`Requests`, `Proofs`, `Edits`, `Submits`, `Users`, `Deposits`,
`Reviewed`, `Creates`, `Cancels`, `Reviews`, `Clicks`, `Buys`, `Uses`, `Gifts`, `Claims`,
`Checks`, `Bumps`, `Gives`, `Awards`, `Replies`, `Deletes`, `Connects`, `Reports`, `Others`,
`Resolutions`, `Orders`, `Verifies`, `Resends`, a token of `Links` or of `Accounts`, a request of `Requests`, a token of `Tokens`, `Calls`, `Updates`, `Deliveries`, `Runs`), with `MaxCalls`
of them in `Rewards` and `Transfers`, `MaxEdits` in `PlatformTasks`, and the clock stops at `MaxTime`, `LastTime` or `LastDay`; while sweeps, checks, captures, deliveries,
crons and reconciliations repeat for ever.

`CHECK_DEADLOCK FALSE` stands where the system may stop: a closed campaign, a
settled challenge, a final deposit, a page at rest or calls that are all made have no step left. The wallet's reconciliation
never stops, so its deadlocks are checked. Symmetry is used only in runs without
liveness: workers and calls in `campaign_safety`, hashes and deliveries in `crypto_verdicts`, users and calls in
`store`, `rewards`, `transfers` and `sessions`. Modules side by side are given the same
model values where TLC permutes them, so that one group acts on both; a value means nothing
more in the one than in the other.

## 5. Fairness

* `Wallet`: a request keeps running (`SF` on its steps: it may be blocked by the
  reconciliation's lock time and again, but PostgreSQL grants a row lock in order of
  arrival); the reconciliation, once it holds the lock, writes (`WF`). Retries are
  bounded by `MAX_RETRY`, so nothing is assumed about who wins.
* `Challenges`: time passes, the cron keeps selecting (`WF`), and a closing that is
  tried in run after run does not fail every time (`SF`): the sweep catches the
  error and selects the row again.
* `CryptoDeposits`: the cron runs every minute and visits every deposit awaiting
  verification (`SF` on `CheckRead` per deposit, because its batch may hold the
  others first); nodes and transactions fail now and then, not for ever (`SF` on the
  truthful answer and on `Complete`). Users, admins and the chain are not fair.
* `ProviderDeposits`: a provider sends an event again until it is acknowledged, so a
  payment that is owed its event is delivered (`SF` on `Delivered`, because the
  deposit's state may stop a delivery now and then), and a delivery does not end in an
  error every time (`SF` on `HookComplete`). Nothing is assumed of payers, browsers,
  captures, admins or crons: `PaidSettles` holds although every capture may stop
  after the money moved.
* `Wheel`: the page's timers run (`WF` on its steps: a request is answered, sent again or
  given up), and a transaction that began ends, at the latest when Prisma's time limit rolls
  it back (`WF`). That is enough for `SpinsEnd`: nobody waits for ever for a key or for the
  day's row. Players need not click.
* `Store`, `Rewards`, `Transfers`, `Sessions`, `Levels`, `Forum`, `SocialLinks`, `Standing`,
  `PlatformTasks`, `Backfill` and `Visits` state no liveness: each call is a caller's, who may
  stop, and the code repeats nothing by itself, but for the rollup, whose failures nothing bounds.
* `CampaignTasks` states no liveness: nothing in the code ever releases the slot of
  a worker who walks away (see the hazard at `tasks.service.ts:299`).

## 6. Where the code differs from its comments

`campaign_paid_twice`: the comment on `claimCompletionForVerification` says a
completion can never pay out twice. `submitProof` (`tasks.service.ts:564`) writes
SUBMITTED by id after waiting for the API: if a recheck or a second proof verified
the row meanwhile, it is back in review and approval pays again.

More races are part of the models without a run of their own; where a variable records
one, the properties say that nothing else goes wrong.

* An `update` that read ACTIVE before a cancel writes ACTIVE after it
  (`campaigns.service.ts:523`): the refunded campaign takes assignments again, against the
  comment at `tasks.service.ts:304` (`EditWrite`, `reopened`).
* `updatePlatformTask` writes slots and price by id (`admin.service.ts:271`): no more slots than
  are in use, so that nobody can be paid for those taken (`tight`), and a cost of columns
  another update has replaced (`crossed`). A limit of 0 or one that is no number makes
  `backfillSettlement` answer that there is no further cursor although it examined nothing.
* `wallet.service.ts:389`, "one pending/processing deposit at a time", is a query before an
  insert, which two calls of `initiateDeposit` both pass (`InitiateCheck`, `InitiateCreate`).
* A hash given together with `initiateDeposit`, unsigned, is kept in `gatewayData`, which the
  instructions written next replace (`wallet.service.ts:536`): after `proveWalletOwnership`
  the deposit is PROCESSING and proven with no claim left (`InitiateInstruct`). A deposit
  cancelled while PROCESSING keeps `paymentRef` (629), although a claim that can never verify
  should release it (975-979, `CancelDeposit`).
* `reviewDeposit` overwrites COMPLETED by id with the rejection it decided on a pending
  deposit (`ReviewWrite`), and `payment.failed` likewise (`Reject`): `overruled`.
* A cancel or an expiry cron between `settlePaidDeposit`'s claim and `completeDeposit` makes
  the latter refuse, and `paymongo.service.ts:884` acknowledges the event (`CancelWrite`,
  `HookIgnored`): the paid deposit stays CANCELLED, against the comment at 841-843.
* A `captureOrder` that loses its claim to a cancel compares the fresh row only with COMPLETED
  and PROCESSING (`paypal.service.ts:264-272`) and captures the cancelled deposit's order
  (`AfterRead`), against the message at 395.
* Two users claim a daily reward from one address at once: both find no claim of today
  (`gamification.service.ts:692`), against "one claim per IP per UTC day" (688)
  (`ClaimRead`, `ClaimRow`).
* Two mission updates of one progress lose an increment or both pay (`BumpWrite`, `torn`); two
  uses of one unit both apply (`UseConsume`, `torn`); overlapping gifts exceed the budget
  (`hasty`); a milestone whose transaction fails after `isQualified` is lost (`lost`); two
  refreshes with one token make two sessions, and a refresh under way survives a reset
  (`shared`, `straddled`).
* Two awards compute XP or VIP points from the same read (`gamification.service.ts:167`): one
  is lost, a level pays twice (`torn`).
* Replies that the database removes below a deleted one stay counted in `replyCount`, and an
  unlock overwrites the status of a pin made after its read (`swept`, `crossed`).
* A refresh writes its tokens by user and platform (`social-auth.service.ts:613`): into
  another account's row, when the user reconnected meanwhile (`crossed`).
* Two page views of one visitor that arrive at once, the first of a new visit, both find no open
  visit and open two (`visitor-analytics.service.ts:183`, `Look`), where the comment at 182 has
  one per burst (`raced`).
* An automatic suspension writes by id a status it found ACTIVE earlier, also over a ban
  (`anti-abuse.service.ts:318`); `verifyEmail` activates an account whatever its status is
  (`auth.service.ts:573`), also a suspended or banned one (`VerifyWrite`, `pardoned`).
* Of the writers of a status only `updateUserStatus` deletes the guard's entry (`quiet`), and
  a `validate` under way stores what it read before (`jwt.strategy.ts:63`, `late`): a
  restricted user is admitted until the entry expires.

## 7. Proofs

All theorems are about the specification for every value of the constants that
meets the module's `ASSUME`: the amounts are integers, the welcome grant fits
the column, at least one attempt (`WalletAssumption`); finitely many workers, at
least one slot and a positive reward (`CampaignAssumption`, `ChallengeAssumption`), the same
of an admin's task (`PlatformAssumption`);
owners are users (`CryptoAssumption`); the value for "no checkout" is no checkout
(`ProviderAssumption`); a price and a paid allowance, and no prize that
means none (`WheelAssumption`); no token that means none (`SessionsAssumption`); finitely many calls,
amounts that are natural numbers, circles without doubles and nobody referred by oneself
(`TransfersAssumption`), finitely many replies
(`ForumAssumption`), finitely many reports and flags and limits of at least one
(`StandingAssumption`); the value for "none" is no account (`LinksAssumption`); finitely many
beacons, rows kept for at least the days that are rebuilt, figures for no less, and no row that
means none (`VisitsAssumption`: the retentions' defaults are 90 days and 24 months against three
days rebuilt; a configured retention of fewer days would break `FiguresKept`). A cooldown that is positive
and no longer than the streak's grace, positive goals (`RewardsAssumption`: 24 and 45 hours);
consumables are no cosmetics, calls of different kinds have different names, there are finitely many
uses (`StoreAssumption`); deposits numbered from 1 in the order of their completion, a positive
page, scan and quota (`BackfillAssumption`); finitely many awards of natural amounts, those of
VIP points alone of at least one, tiers that ask for at least one VIP point and a positive
bonus of a level (`LevelsAssumption`).

| module | theorem | says |
|---|---|---|
| `WalletProofs` | `TypeCorrect`, `LedgerCorrect`, `PostedOnceCorrect`, `NeverOverdrawnCorrect`, `LifetimeCorrect`, `ContentionCorrect`, `MirrorCorrect` | each property of `Wallet` |
| | `Refinement` | `Spec => ImplementsAccount` |
| `CampaignTasksProofs` | `TypeCorrect`, `NeverOversubscribedCorrect`, `SlotsCorrect`, `PaidOnceCorrect`, `PoolCoversCorrect`, `ClosedStaysCorrect` | each property of `CampaignTasks` |
| | `EscrowCorrect` | `Spec => ImplementsEscrow` |
| | `TaskCorrect` | the property of `PlatformTasks` |
| `ChallengesProofs` | `TypeCorrect`, `StatusesAgreeCorrect`, `SettledOnceCorrect`, `OneClaimantCorrect`, `ClosedIsFinalCorrect`, `EscrowCorrect` | every safety property of `Challenges` |
| | `Conservation` | the escrow it implements is never overdrawn |
| `CryptoDepositsProofs` | `TypeCorrect`, `CompletedCorrect`, `OwnPaymentCorrect`, `OneCreditCorrect`, `NoCreditCorrect` | every safety property of `CryptoDeposits` |
| | `VisitsCorrect` | the property of `Visits` |
| `ProviderDepositsProofs` | `TypeCorrect`, `CompletedCorrect`, `PaidCorrect`, `PayableCorrect`, `CapturedCorrect`, `RejectedCorrect` | every safety property of `ProviderDeposits` |
| `GamificationProofs` | `TypeCorrect`, `AnswersCorrect` | of `Wheel`: types, and the page shows what was stored |
| | `SpinsCorrect` | `Spec => ImplementsSpins` |
| | `StreakCorrect`, `PaidOnceCorrect` | each property of `Rewards` |
| | `GuardsCorrect`, `KeptCorrect` | each property of `Store` |
| | `BackfillCorrect` | the property of `Backfill` |
| `SessionsProofs` | `TypeCorrect`, `OneHeirCorrect`, `KeptSignedInCorrect` | every safety property of `Sessions` |
| | `LinkCorrect` | the property of `SocialLinks` |
| `TransfersProofs` | `TransfersCorrect`, `MilestoneCorrect`, `BudgetCorrect` | each property of `Transfers` |
| | `TopicsCorrect` | the property of `Forum` |
| | `ThresholdCorrect`, `RestrictionCorrect` | each property of `Standing` |
| | `PointsCorrect` | the property of `Levels` |

The inductive invariants, and why the properties alone are not inductive:

* **Wallet**: `TypeOK`, the ledger properties, and three lemmas about what a request
  in flight knows. `InFlight`: a request about to apply has read a version that
  existed, and if that version is still the wallet's, then the balance too, and a
  debit's amount is covered by it. This is why the version condition is enough:
  without it nothing relates `seen` to the row. `Overtaken`: every attempt a
  request lost was lost to a commit, so the version has moved at least as far as its
  attempts (`ContentionMeansProgress`). `LockHolds`: a reconciliation that holds the
  lock holds the current balance (`MirrorNeverDiverges`).
* **Campaigns**: the properties with `ProofsHaveRows` (a proof under way has a row to
  write to) and `RefundMeansClosed` (a refund was made only on a close, which is
  what bounds the pool before a reopening). The counters are cardinalities of sets of
  rows; the steps move one element.
* **Platform tasks**: the conjuncts of `TaskAddsUp`, which speak of what a history variable
  has not recorded, and `OfferPool`: until an update the pool is the slots times the price,
  and the price a call under way has read is the row's, so that what it will pay is covered.
* **Challenges**: `StatusesAgree` and `SettledOnce` are inductive together: each guard
  repeated in a write selects one combination of the two statuses, for which the
  money is known.
* **Crypto deposits**: `Started` (a deposit that was not created has no columns and no
  call), `Proven` (a set `verified` means the wallet is the owner's), `Answered` (a
  verification about to write with "valid" saw a payment that is valid for the
  wallet the deposit still has, mined after it was initiated) and `RefsUnique` (the
  database constraint). The verification's reads may be stale in status and claim;
  they cannot be in wallet and creation time, which never change: that is why
  `ClaimUnchanged` and `Settleable` suffice.
* **Provider deposits**: `CallsKnow`, what a call learned and nothing undoes: a creation
  that still runs has given nobody its checkout (for `PayableIsStored`: a claim can
  be taken over only while no checkout is stored, so the one that persists is the
  first); a capture that is about to call PayPal finds the deposit out of PENDING, and
  nothing puts it back (`CapturedMeansClaimed`); what is about to be settled was paid in
  full, and a payment stays one (`CreditMeansPaid`). `RejectedIsFinal` needs no
  invariant: every write of a status either repeats that it was open or cancelled, or
  rejects.

* **Wheel**: `KeysHeldOnce` and `RowsHeldOnce` (one transaction per key, one claim per
  allowance row: what the locks give), `Attempts` (a settled attempt has a result, a running
  one none), `Prices`, `Allowances` (the row counts at least what its day was charged), and
  `ClaimsLeft`, the heart: what a transaction claimed is still left when it commits, because it
  holds the row, although its seed may be older than other commits.
* **Sessions**: a line, the tokens of one login, is in one hand. `Fresh` (a token nobody
  minted is nowhere), `Carried` (what a request carries where it stands), `Twins` (two
  refreshes carry one token only at once, or because an answer was lost), `OneHand` (on a
  line nobody shared, one live token or one request past its check, never two), `Pending` (a
  token on its way is known to nobody else), `Known` (the live token of the cookie's line is
  the cookie, or on its way), `Over` (nothing moves on a line that was ended), `Spent` (a
  revoked token was ended or used) and `Refusals` (a refusal has a cause).

* **Transfers**: `Awarding` (an award that writes holds the row of its referral: the flags it
  read still stand); `WorkInv`, of a transaction's rows (`Locks`: it has locked exactly the
  rows of the legs it has written; `Drafts`: each is the committed row with those legs on
  top, and of a higher version; `Reads`: a read of the row's version is of the row; `Apart`:
  no two transactions have one row), so that a commit adds its legs to the books and nothing
  else; `Kept`, of a giver who is not hasty (one gift at a time, all that was given is counted
  but for the gift that is being recorded, and what is under way fits). Balances and budgets
  are sums over sets of any size: the lemmas about `SumFunctionOnSet` (one more element, one
  less, equal summands) are proved on a smallest set for which they would fail, as the
  naturals are well-founded.
* **Forum**: `Counts`, of which the property is a part, with `Pins` (what an unlock has read
  of `isPinned` still holds, unless a pin came between) and `Named`.
* **Standing**: for `RestrictionBites`, `Admits` and `Fresh` (a request that stored what it
  read is `late`, and an entry holds the stored status unless an order of staff is about to
  delete it). `ThresholdNotMissed` needs the types only: a report counts all the flags that
  are open when it counts, those of the reports that ended before it among them, and more
  flags never make fewer.
* **Social links**: `Issued` (a token somebody holds was issued, that of a refresh for the
  account of the one it read) and `OnItsWay` (a token no row holds yet is honoured and in one
  hand), so that only the refresh that read the stored token can have it replaced.

* **Visits**: a delivery lasts less than a window and its page view was stored, if at all, since
  it began (`Delivered`), so that what refuses a copy is not yet purged; of a visitor whose
  deliveries did not overlap, the one under way is the latest (`Alone`) and what it found still
  holds (`Found`). Of the runs: at most one holds the figures of a day (`OneHolder`), they are
  there until it ends (`Rebuilt`), and what a run has read is the day's figures, or the day is
  known to be behind, or its insert will conflict (`Figured`). `DaysApart` is the arithmetic
  that tells purged rows from rebuilt days for any lengths of days and retentions. `Tally` and
  `Upheld` restate `CountedOnce` and `FiguresKept` with sets that the steps can be compared by.

* **Rewards**: `Apart` and `Continues` are the two conjuncts of `StreakIsRun`, as statements about
  a log of rewards, so that a log with one more entry can be compared with the one before. They
  need `RowIsLatest` (the user's row is that of the last entry), `Holders` (the conditional update
  lets one claim at a time hold the row, of a user who is eligible) and `ClaimsCurrent` (a claim whose user is eligible has computed from
  the row as it is: had another claim come between, its user would not be). For `PaidOnce`,
  `Unlocks` (the row of an achievement exists as soon as one call is to pay, and only one is)
  and `Pays` (until an update has overwritten another's, an update that is to write has read
  progress below the requirement, so that one update pays).
* **Store**: `Locks` (one purchase of an item at a time, and it has room) and `Bought` (a
  cosmetic that was bought stays, and bars the next purchase) carry `GuardsNotRaced`; `Kept`
  carries `KeptUntilApplied`: what a row was given is there or went through a use, as long as no
  use wrote over a change it had not read. `Created` says that the row a call will create is
  empty until then, and stays what it is.
* **Backfill**: `Reaches`, what a chain has still to ask for is below its cursor, or on what is
  left of its page, or below that if the page was full; `Descends`, the cursor goes down and is
  the last row examined. New deposits come on top, so they disturb neither. The lemmas on
  pages (`TopIsNewest`, `FetchedPage`) say what the `take` newest of a finite set are.
* **Levels**: `WrittenOnce`, which statement of a call has written what; `Untorn`, that
  until a call writes over what it had not read the totals are sums of what was awarded, and
  no two calls reached one level. The lemmas are about the functions of the code: the square
  root of `getLevelFromXp` exists (`RootExists`) and does not fall (`LevelGrows`), nor
  does the tier (`TierGrows`), so that a level reached is above all reached before
  (`LevelReached`).

**Only model-checked**: liveness
(`EveryRequestEnds`, `DeadlineFreesReserve`, `ValidClaimSettles`, `PaidSettles`, `SpinsEnd`),
since the prover does not reason about `ENABLED` and fairness; and the counterexample of
section 6. Every safety property that a run checks is proved as well.
`TypeOK` of the proved modules, `NeverOverdrawn`, `LifetimeTotals`,
`PostedOnce`, `CompletedMeansCredited` of `CryptoDeposits`, `NeverOversubscribed`, `ClosedStaysClosed`, `OneClaimant`, `ClosedIsFinal`, `ImplementsEscrow` of `Challenges`,
`CapturedMeansClaimed` and `RejectedIsFinal` are proved for every instance and need no run.
`TypeOK` of the other modules documents their state.

## 8. Faulty variants

Beside a definition stands what a plausible mistake would make of it. With the variant
in place of the definition TLC refutes the property named here, in the run of that
property.

| variant | mistake | refuted |
|---|---|---|
| `LastAttemptEarly` | retry bound off by one | `ContentionMeansProgress` |
| `AnyVersion` | no version condition | `ImplementsAccount` |
| `ConflictKeepingRow` | failed attempt keeps its ledger row | `LedgerIsStatement` |
| `WriterNeverWaits` | reconciliation without `FOR UPDATE` | `MirrorNeverDiverges` |
| `ReconcileWriteIfDrifted` | lock kept when nothing drifted | `EveryRequestEnds` |
| `SlotAssumed` | slot claimed without comparing counters | `PoolCovers` |
| `ReleasedNothing` | rejection keeps the slot | `SlotsAreCompletions` |
| `ClaimableAnyhow` | completion claimed without a status | `PaidOnceIfVerified` |
| `RefundOfPendingToo` | promised slots refunded | `ImplementsEscrow` |
| `RefundableAgain` | earlier refunds of a reopened task not counted | `TaskAddsUp` |
| `AnyClaimSubmittable` | proof attached by id | `StatusesAgree` |
| `CloseStale` | sweep closes from any state | `SettledOnce` |
| `NeverAbandoned` | sweep ignores abandoned claims | `DeadlineFreesReserve` |
| `NeverTaken` | `paymentRef` not unique | `OneCreditPerTransfer` |
| `VerdictWithoutSender` | sender not compared | `CreditMeansOwnPayment` |
| `AlwaysSettleable` | settlement ignores the status | `NoCreditAfterClose` |
| `ReservedClaim` | only `paymentRef` looked at | `ValidClaimSettles` |
| `CancelAnyway` | cancel by id alone | `CompletedMeansCredited` |
| `PaidAtAll` | amount of a capture not compared | `CreditMeansPaid` |
| `OwnedByAnyone` | checkout stored without the claim | `PayableIsStored` |
| `ClaimedOnce` | a redelivered event finds its deposit claimed | `PaidSettles` |
| `StoredNothing` | the attempt keeps no result | `AnswersAreTrue` |
| `RowNeverHeld` | the allowance row is not locked | `ImplementsSpins` |
| `GiveUpOnFailure` | no timeout in the page | `SpinsEnd` |
| `KeyNeverTaken`, `AnyPrice` | the key is not unique; the price is not compared | `ImplementsSpins` |
| `NeverLocked` | the item's row is read without `FOR UPDATE` | `GuardsNotRaced` |
| `UnappliedToo` | the item is consumed before its effect | `KeptUntilApplied` |
| `LastFetched` | the cursor is the last row fetched, not the last examined | `BackfillComplete` |
| `AlwaysEligible` | the claim's update has no condition on the last reward | `StreakIsRun` |
| `MoreThanRequired` | requirement off by one | `PaidOnce` |
| `LevelHeld` | a level paid for whenever it is held | `PointsKept` |
| `AnyVersion` (transfers) | a leg without a version condition | `WholeOrNothing` |
| `NotAgain` | the flag is not read again under the lock | `MilestonePaidOnce` |
| `WholeQuarter` | what was given before is not counted | `BudgetKept` |
| `NotRevoked` | rotation leaves the old session | `OneHeir` |
| `Kept` | the answer of a refresh does not set the cookie | `KeptSignedIn` |
| `DeletedAnyhow` | a reply that is gone is counted off again | `TopicsTrue` |
| `FlagsBefore` | flags counted before the report's own | `ThresholdNotMissed` |
| `EntryStays` | the guard's entry is not deleted | `RestrictionBites` |
| `NeverRefused`, `NeverConflicts` | a copy of a beacon, or the figures of another run, not refused by the unique index | `VisitsTrue` |
| `LinkedKeepingAccount` | a reconnection keeps the account's name | `LinkIntact` |

## 9. Not modelled

* Within modelled components: `reviewCampaign`, since nothing makes a campaign
  PENDING_REVIEW any more; a challenge's claim throttle; expiry and single use of the signature
  challenge, chain reorganisations, and what follows a credit (VIP points are `Levels`,
  milestones `Transfers`; that the calls are made at all is left out).
* Of PayMongo and PayPal: `createPaymentLink` and the `link.payment` events, which
  nothing calls any more; `PAYMENT.CAPTURE.PENDING`, whose update finds no row, because
  it wants a PENDING deposit and a captured one is not (`CapturedMeansClaimed`);
  signatures of webhooks; a checkout whose URL nobody was given, which nobody can pay.
* Of gamification: leaderboards, the probabilities of prizes, the
  wheel's older counter in Redis; claims without a client address. Of the store: boosts,
  whose Redis keys are written before the commit, and flags of active and equipped
  cosmetics. Of tips: how often a user may give, moderation.
* Of the forum: reactions, mentions, texts and their moderation. Of social accounts:
  `manualLink`, the switches of platforms, what a verification asks the platform (a `Begin`
  in `CampaignTasks` leads to any answer). Of the standing of users: trust scores, the
  heuristics of addresses and devices; that a suspended user's calls are refused elsewhere.
* Of sessions: passwords, two-factor secrets, lockouts; deletion or ban
  of a user during a refresh, which refuses it like an expired row; the cookie's own `maxAge`.
* A process crash needs no action of its own in these modules: a call that crashes is a
  call that never takes its next step, which `Spec` allows. Where the claim such a call
  leaves behind matters, its end is modelled: `ClaimGoesStale` for a creation,
  `CaptureFails` for a capture.
* Of visitor statistics: bots, whose rows are kept and not counted; routes that are not counted;
  the figures by country, referrer, device and route, which the same statements write; the
  queries. A configured retention shorter than the days that are rebuilt, which `retentionDays`
  accepts, would let a rollup replace a day's figures by those of the rows left: the model
  keeps rows longer, as the default of 90 days does.
* Users' profiles, chat, notifications, e-mail, uploads, search, the other statistics, health, the other pages of the web application and the
  infrastructure: queries, edits of one row, or I/O.

## 10. Plan

Written: `Wallet` with `Account`, `CampaignTasks` and `Challenges` with `Escrow`,
`PlatformTasks`, `CryptoDeposits`, `ProviderDeposits`, `Wheel` with `Spins`, `Sessions`,
`SocialLinks`, `Transfers`, `Forum`, `Standing`, `Visits`, `Store`, `Rewards`, `Levels` and
`Backfill`, with the proofs of their safety properties. The number of runs should stay where it
is, so that all of them remain quick to repeat: a new module's run replaces a
counterexample, shares one as another scene, or two runs of one module become one. Next, in this order:

1. Payouts of campaigns and challenges, and `Transfers`, composed with `Account`: that what is
   proved of a wallet holds where its calls join the transactions of others.
2. An abstract deposit (open, credited once, or closed) that `CryptoDeposits` and
   `ProviderDeposits` both implement up to the writes by id.
