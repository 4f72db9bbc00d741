# Verification of the OVE / ORI wallet

TLA+ models of the server side of this repository, checked with TLC on small
instances, and theorems about them proved with TLAPS for every value of the
constants. Paths below are relative to the repository.

The wallet is an off-chain point ledger. A NestJS API (`apps/api`) and its
packages (`packages/*`) keep everything in PostgreSQL, at its default isolation
READ COMMITTED; a key-value store (Redis, or memory in one process) keeps
counters with a time to live. Several API instances run at once, each of them
runs the scheduled jobs, and other services call in and are called.

To repeat the checks, in this directory: `tlc -config MCLedger.cfg MCLedger`
(and so on for each run of the table below), `tlapm Ledger_proofs.tla`.

## 1. The system

| Component | State | Operations | Talks to |
|---|---|---|---|
| Point ledger, `packages/ledger` | `wallets` (status, available, held, lifetime credited and debited), `ove_transactions`, `wallet_holds`, `ove_credit_lots`, `code_counters` | credit, debit, hold, release, reverse, expire, merge, reconcile | called by every component that moves points |
| Integration outbox, `apps/api/src/outbox` | `integration_outbox` | enqueue in a business transaction, list, claim, send, mark, record failure, manual retry | scheduler, admin page, destination handlers |
| Approval workflow, `admin/admin-approval.service.ts`, `admin/admin-migration.service.ts` | `approval_requests`, `migration_batches` | request, approve (claim, execute, take back), reject; a migration's lines | ledger |
| Inbound events, `common-events` | `inbound_events` | receive, claim, dispatch to a handler, mark, record failure | rewards, entitlements, referrals, links |
| Collectibles, `collectibles`, `collectible-claims` | holdings, entitlement tombstones, claim sessions | grant, revoke, claim | inbox, external market |
| Rewards, `rewards` | `reward_rules`, `service_integrations`; what was granted is counted in `ove_transactions` | grant with caps per rule, person, event, month and service; reverse; change or stop a rule | ledger, inbox, external services |
| Referrals, `referrals` | `wallet_referrals`, `wallet_referral_benefits` | capture, attach at sign-up or by hand, send, confirm, reject | ledger, outbox, inbox, the agency |
| Common user links, `accounts/common-user-linking*` | `ove_accounts.common_user_id`, agencies; advisory locks | link, move after a merge, ask for a merge, assign an agency | inbox, the hub |
| Accounts and sign-in, `accounts`, `auth`, `packages/auth`, `common/session-auth.guard.ts` | accounts, identities, sessions, one-time passwords, attempt counters | register, sign in, revoke, close, review, anonymise | everything |
| Daily bonus, `daily-bonus` | `daily_bonus_claims` | claim | ledger |
| Scheduler, `scheduler` | a lock per job in the key-value store | expiry, outbox dispatch, retention, notices, anonymisation, snapshot | ledger, outbox |
| Point liability report, `reporting` | `point_liability_snapshots` | month-end snapshot, period movements | reads the ledger's tables |
| Settings, texts, notices, mail, web pages | single rows, pages | single-statement updates, reads | the API |

How they interact: by function calls inside one process and by rows of the
database between processes. There are no in-memory structures shared between
requests; what is hard is therefore what happens between the statements of a
call.

**What is hard, and what makes each component correct**

* *Ledger.* A call looks for its idempotency key outside its transaction, then
  locks its wallets' rows and has to read again what it decides on. Correct
  means: balances never negative, the journal explains every balance, a hold is
  paid back once, a transaction is reversed once, a lot ends once, duplicates
  get the original's answer, no deadlock among wallet locks and the counter's
  lock.
* *Outbox.* Several dispatchers work from lists they do not read again, sends
  may succeed and be reported as failed, admins retry at any time, a dispatcher
  dies. Correct means: one sender at a time, SENT means delivered, SENT is
  final, every event gets there or is given up.
* *Approval.* Read, decide, execute, and take back are separate steps of
  concurrent admins, and a migration is many steps, each of which may fail and
  leave the others done. Correct means: two persons, one executor, nothing done
  again when it is executed again, and a status that says what happened.
* *Inbound events.* As the outbox, in the other direction: duplicates at the
  same time, the handler's effects and the mark in different transactions.
* *Entitlements.* Messages in the wrong order, twice, and beside an admin.
  Correct means: revoked is revoked, and SUCCEEDED events were carried out.
* *Rewards.* Caps are counted before the grant is posted, by requests that
  repeat, while the rule is changed. Correct means: no cap is passed, and a
  retry is not refused for what it used up itself.
* *Referrals.* Three parties may confirm one referral at once, two people may
  register with one cookie. Correct means: one bonus per visit, none without the
  agency's yes.
* *Links.* An id belongs to one account although no unique index says so, and
  merges name two ids in any order.
* *Accounts.* Two sign-ins of one new person, a request let in while the account
  is being closed, an identity hashed after closure. Correct means: one account
  per person, and a closed one is not served.
* *Scheduler.* A lock with a time to live against jobs of any length and
  processes that die between INCR and EXPIRE.
* *Daily bonus.* Two transactions for one fact, and midnight in between.
* *Liability snapshot.* Two sums read at two times.

`PROJECT.json` lists each hazard at its line, with the properties that cover it.

## 2. The modules

| Module | Models | Kind |
|---|---|---|
| `PointTotals` | the sum of a column over a set of rows (SQL `SUM`) | operator |
| `Ledger` | one action per committed operation of `packages/ledger` | abstract specification |
| `LedgerRequests` | the same operations as concurrent calls, statement by statement | detailed specification; its steps are `Ledger`'s |
| `Outbox` | enqueue, dispatchers, retries, crashes | specification |
| `ApprovalWorkflow` | requests, approvers, migrations line by line, failures, crashes | specification |
| `InboundEvents` | the inbox: receipt, claim, handler, mark, failure record | component |
| `Entitlements` | the use cases that grant and revoke collectibles, and what admins do beside them | component |
| `EntitlementEvents` | `InboundEvents` with `Entitlements` as its handlers | composition |
| `RewardGrants` | six routes to a reward, their locks, look-ups and limits; reversal; changes of rules | specification |
| `Referrals` | visits, registration, the agency's answer by three ways, manual attachment | specification |
| `CommonUserLinks` | links, moves after merges, assignment events, under advisory and row locks | specification |
| `AccountLifecycle` | sign-in, sessions and guard, closure, review, anonymisation | specification |
| `DailyBonus` | one account's claims over days | specification |
| `ScheduledJobs` | the jobs' lock, with the month-end snapshot and the expiry notices | specification |
| `MC*` | the instances TLC checks | |
| `PointTotals_proofs`, `Ledger_proofs`, `LedgerRequests_proofs`, `EntitlementEvents_proofs` | theorems about the module of that name | proofs |
| `Grants_proofs` | theorems about `RewardGrants` and `ApprovalWorkflow`: who is given points, and by whose decision | proofs |
| `BackgroundJobs_proofs` | theorems about `Outbox` and `ScheduledJobs`: work that runs on its own | proofs |
| `Accounts_proofs` | theorems about `AccountLifecycle` and `CommonUserLinks` | proofs |
| `Bonuses_proofs` | theorems about `DailyBonus` and `Referrals` | proofs |

Operators whose comment says *Mutant* are not part of a model: each is the
changed form of the definition after it that one run must notice.

### Ledger

One action is one committed transaction: credit, debit, hold, release, reverse,
expire (one wallet's part of the batch) and merge, plus the clock. A
transaction's id is its wallet and its place in that wallet's journal; a hold
and a lot have the id of the transaction that made them. Guards are the checks
the code makes after it has the lock, and the key must be unused (the unique
index). What the code leaves alone is kept: `releaseHold` and
`reverseTransaction` do not ask for an ACTIVE wallet; a reversal of a debit does
not reopen lots; a merge moves neither held points nor lots; the expiry batch
decides on a time it took when it started (`cutoff`), charges at most what is
available, and closes its lots whatever it charged. FIFO consumption is stated
by its result: never more than a lot has, in total as much as possible, an
earlier lot before a later one, and lots due at the same time in any order but
one at a time. `reconcileWallet` and the sums of the liability report are the
state functions `ComputedBalance`, `WalletBalances` and `Movement`.

Left out: descriptions, references to services, audit and notification rows,
display codes, decimals (amounts are whole points, as `assertPositiveAmount`
and the callers have them).

### LedgerRequests

A call goes through `start` (look for the key), `find` (which wallet is it?),
`lock` (`SELECT ... FOR UPDATE`, in the order of the ids for a merge), `check`
(what is read again and decided under the lock), `counter` (the row lock of
`nextDisplayCode`), `write` (insert, update, commit) and, after a unique
violation, `reread`. What it writes is computed from the wallet row it read with
the lock (`snap`), as in the code, so a missing lock shows. Writes appear at
commit. That a call can be cut off anywhere is `Abort`. Every insert is made
under the counter's lock, which is held until the commit, so a unique violation
is only ever against a committed key; that is why `Conflict` is immediate.
Lots play no part in locking and are left to `Ledger`.

`Ledger` is the abstract specification: `LedgerSteps` says that every step of a
call changes the committed rows by the `Ledger` operation it asked for, or not
at all. It is stated through `INSTANCE Ledger`, with no lots and a clock that
stands still.

### Outbox

`row` is the table; `batch` what a dispatcher has listed and not processed, with
the attempt count it read then; `sending` and `step` where it is with the event
it claimed. `Send` either reaches the destination or not, and returns or throws
(it cannot return without having reached it). `MarkFails` is `markSent` throwing
inside the same `try`. `available_at` is only a flag, due or not, whose backoff
ends some time.

### ApprovalWorkflow

`request` is the table, `call` where each admin's call is, `batches` the table of
migration runs, `executed` what the requests had the ledger do, by idempotency
key: which line of which request, and who approved it. `direct` holds the keys of
grants and deductions below the threshold, which need no request and may name any
key (`GrantDirectly`).

A grant, a deduction and a merge are one operation under one key, which the
client chooses or which is made of the two accounts, so requests may share it. An
execution may fail before or after its effect is committed. What the ledger does
with a key is `LedgerRequests`' business; here, as there, a key that is used is
answered with the transaction it has, *whoever's it is*, and nothing is done
(`Apply`). So an APPROVED request may have done nothing of its own, and
`ApprovedIsCarriedOut` says when: only if the key answers for another
(`AnsweredForAnother`). `ApprovedHasEffect`, under Findings, is the statement
without that exception.

A migration is a loop over the lines of its file (`MigrateLine`), one transaction
each, with other admins' steps and crashes between them. What a line throws,
before or after its commit, goes to the run's list of errors and no further; only
opening the batch and closing it (`BeginMigrationFails`, `EndMigrationFails`) can
fail the run, and then lines already credited stay credited while the request
goes back to PENDING. A run that comes to its end closes its batch as COMPLETED
with the errors, however many, and the request stays APPROVED. The key of a line
is made of the file's content and the old user (`LineKey`); `docs/migration.md`
tells of the version that made it of the batch, and that is the mutant of
`CreditedOnce`. `Csv` gives the lines with a balance above zero. The others post
nothing; that a line signs its user up, and without a known balance sets the
account REVIEWING, is not in this module. `createdById` of a migration's credits
is the requester and the approver is `verified_by` of the batch; `executed`
records the approver.

### InboundEvents

`inbound` is the table, one row per sender and event id; `work` what each request
of the API is at: `find` and `create` (`receive`, `createPendingRow`), `findAgain`
after the unique index refused the row, `claim`, `handle`, `fail`
(`recordFailure`). A body stands for its hash. `MarkFails` is `markSucceeded`
throwing inside the handler's `try`, with its update made or not; in the first
case `recordFailure` overwrites SUCCEEDED, and the event is handled again on
redelivery. `Crash` is the process dying, or an exception that nothing catches;
nothing takes a PROCESSING row back, so its event is `abandoned`. That a sender
delivers again is a further `Deliver`; `next_retry_at` is written but never read
(redelivery is the sender's), so there is no backoff.

### Entitlements

A caller, an event handler or an admin, goes through `look`, `lock` (the advisory
lock of the entitlement), `decide`, for a grant `lockAsset` and `findAsset`, then
`write`, the commit, and, after a unique violation, `reread`. Writes appear at
commit; a lock is held exactly while the caller is at a place inside the
transaction (`HasEntitlementLock`, `HasAssetLock`, `HasRowLock`). `terms` is what
`matchesExisting` compares: owner, source, order, item, card; that is all the
model keeps of a holding besides its status. The states of the mint life cycle
are declared in the schema, but nothing in the repository sets them, so a holding
is ACTIVE or REVOKED. Sources that belong to no market are refused before
anything is read and are left out, and so are cards' texts and images.

### EntitlementEvents

A claim and the start of the handler are one step, the handler's statements are
`Entitlements`' steps, and its return is one of `MarkSucceeded`, `MarkFails` and
`HandlerThrows`. So an attempt can leave its effect behind and be counted as
failed. The variables of the two parts are disjoint; what relates them is
`SucceededIsAccomplished`: what the inbox says against what the tables hold.

### RewardGrants

A call goes through the look for its key, the integration's row lock and a second
look (`LockService`), the service's limits, a third look, the rule's row lock,
the rule's caps, and the credit. `grants` are the committed CREDIT rows by key:
the code keeps no counters, it counts and sums rows, and so does the model
(`GrantedToday`, `OfRule`, `OfMonth`, `OfUser`, `OfEvent`). Which routes skip the
integration, which rows each rule counts and what a stopped rule means are the
code's: `POST /rewards` is three routes by the transaction type, which may need
its rule (`JOURNEY`), have one that limits nothing once it is stopped
(`PURCHASE`), or have none (`OTHER`, which goes from the look-up straight to the
credit). A rule has its dates and five limits, each of which may be unset; the
counts and the dates are asked at the check (`now`), the row is dated at the
credit, and midnight may pass in between. A month is a day long in the model, so
`Midnight` changes both. The account made for a new external user shows when the
grant commits. The ledger's own locks come after all of these and are
`LedgerRequests`' business.

Left out: the creation of a rule and of an integration. A rule's row exists from
the start, stopped or not; so the model does not show that `lockByRuleCode` on a
code without a row locks nothing, and that grants which come while the row is
being inserted may read it unlocked. A rule that is not there is otherwise like a
stopped one. The limits of an integration stay as they are, and a service does
not ask for a transaction type of another route (`COMMON_EVENT_REWARD`,
`WALLET_SIGNUP_BONUS`), although the schema of the request would let it.

### Referrals

A worker is a request or a job: a registration with a cookie, a sign-in, the
outbox worker sending `wallet.referral.registered`, the agency's event, an
administrator. `referral` and `benefit` are the two tables, `paid` the credit by
its key, `walletBy` the ledger's row lock, under which `confirmBenefitFromEvent`
reads everything again. `Halfway` is what an earlier version could leave: a
credit posted and a row not yet CONFIRMED; `reconcileExistingTransaction` takes
it over. `agreed` is not in the code: it is what the agency has said so far.

### CommonUserLinks

`idBy` are the advisory locks on ids, `rowBy` the row locks. A link has one id to
lock, a move after a merge two, taken in sorted order (`Order`). `Decide` is the
look under the locks. What an event handler reads outside its transaction
(`Merged`, `AssignmentChanged`) is only remembered, and looked at again or not
as in the code.

### AccountLifecycle

`identities` holds a person's row in its raw or its hashed form. A sign-in looks
for the raw form, then the hash, then creates, and after a lost race looks again.
A request passes the guard in two reads (`GuardSession`, `GuardAccount`) and is
served, or is a closure: status, wallet, forfeiture under a key made of account and
amount, and the closing transaction. Reviews write a status they decided on
earlier. `Waited` states the one timing assumption: the grace period (a day at
least, `ANONYMIZATION_GRACE_DAYS`) is longer than any call is under way.

### DailyBonus

`Ask` takes the date, `ReadLatest` the latest row, `Credit` posts under a key
with the date (an existing credit is taken as it is), `WriteRow` writes the row
unless one is there. A call may break off anywhere and days may pass between
any two steps.

### ScheduledJobs

The lock is the number under its key and whether it has a time to live; INCR and
EXPIRE are two steps, and DEL removes the key whoever set it. The month-end snapshot
is its four statements. The ledger is reduced to its transactions, and a sum to the
set of those that are in it. `Post` gives a transaction its `occurred_at`, inside the
database transaction; `Commit` makes it visible, at any later time or never.
`sumWalletBalances` is what is committed at that moment; `sumMovement`, a
statement later, what is then committed of the transactions of the new month with an
`occurred_at` before the run began (`earlier`). The notices are one read and a
transaction per account, most urgent first, at most `MaxAccounts` a run.

`overran`, `cutShort`, `crossed` and `disturbed` are history: they name the events
that spoil a job. A commit crosses a capture (`Crosses`) when the transaction began
after the run did and is committed before the first sum (in the balance, never taken
off); or when it is committed between the two sums and belongs to the month (missing in
the balance) or began before the run (taken off, and not in the balance). `disturbed` is that the snapshot is of such a capture, or that a
transaction of the month is committed when the snapshot is already there. The
property is an equivalence: without these the figure is the month's end, and with any
of them it is not, as a set of transactions (amounts may cancel).

## 3. The runs

| Run | Instance | Shows |
|---|---|---|
| `ledger` | 2 wallets, 4 keys (so 4 transactions), amounts 1 and 2, lots due after 1 or 2 days or never | in every order of four operations: balances sound, the journal chains and explains them, nothing ends twice, the liability report rolls forward, history is not rewritten, merged wallets stay closed |
| `ledger_requests` | any 3 of 11 calls on 3 wallets that share two keys, a hold and a transaction, with merges in a circle; weak fairness | concurrent calls are `Ledger` steps; duplicates get one answer, the one they asked for; marks of merges agree with where the points went; no deadlock, every call ends |
| `outbox` | 3 dispatchers, 1 event, 3 attempts, 1 retry, 1 crash; weak fairness | one sender at a time up to retries; SENT means delivered and is final; the event settles, although attempts are counted from old lists, unless its dispatcher died |
| `approval` | 3 admins, 2 requests, both with the one key or both with the one file of 2 lines; 2 batches, 1 crash | one executor; what is executed again is not credited again; APPROVED means that each line is accounted for |
| `approval_rejected` | 3 admins, 1 request | *violated*: see findings |
| `entitlement_events` | 2 requests (symmetric), 2 events with 2 and 3 bodies, 2 entitlements of 1 card, 2 terms, 1 admin, 2 attempts, 1 crash | one worker per event; a revocation is final in every order; no unique violation but that of a card made by hand; SUCCEEDED means done |
| `rewards` | 2 calls at once, 3 in all, of 9 requests by 6 routes, two of them with one key; daily limit 2; each of the five limits and both dates in some rule; 2 days; rules and the integration stopped, started and changed | no limit passed, nothing posted once stopped, no retry refused for its own grant |
| `referrals` | 2 workers, 3 jobs, 2 visits, 3 accounts, one of them with a credit left half done | one bonus per visit, paid only as agreed, confirmations never collide |
| `common_user_links` | 2 calls at once, 3 in all, 2 accounts, 2 ids, 2 agencies; weak fairness | one account per id, referrer set once, every call ends |
| `daily_bonus` | 2 claims at once, 4 days, a schedule of 3 | a streak is as long as the days claimed and credited in a row |
| `jobs` | 2 instances, both jobs, 2 lots of 2 accounts, 1 transaction, the day before and the day after the month's end | one run at a time, one notice, the right figure and a lock that ends: each up to one named event |
| `accounts` | 3 sign-ins of one person, 2 requests, 1 admin, 2 accounts, 1 point | one account per person; a request that comes after the closure is never served; nobody refused for losing a race |

**Bounds.** Keys bound the transactions of `Ledger`; four are enough for a
grant, something done with it, something that undoes that, and a merge or an
expiry after it, and two wallets for a merge and its aftermath. Two amounts tell
"all of it" from "a part of it". Three calls are one more than any conflict
needs: a pair that races and one that repeats or undoes. Three wallets are the
smallest circle of merges that is not just a pair. In `outbox` one event is
enough: events share nothing but the dispatchers' lists, and the theorems hold
for any number of them; three dispatchers are two that overwrite each other's
count and one that sends. In `approval` the constraint `OneSubject` keeps to
requests with one payload: those with different ones share no key, and the
properties look at a request or a key by itself. Two batches are a migration that
fails on its way and the run after it, or the same file in two requests; two
lines, that one can fail and the other not. A user who is on two lines of a file
is left to the theorem. The bodies in `entitlement_events` are chosen so that
any two of a grant, another grant of the same entitlement, a grant of another
entitlement of the same card and a revocation can meet under one event id or
under two, and two requests are the two sides of every race; the admin is a
third. In `rewards` each limit of a rule and each of its dates refuses some request
(without any one of them, or with the rule read unlocked, `CapsRespected` fails),
and two calls are the two sides of each lock. In `referrals` the third
job is what comes to a referral that two have just touched. Four days hold a
streak, a gap and a new streak. Three sign-ins are two that race and one that
returns after the anonymisation. In `jobs` one transaction is enough, since a sum
is the set of its transactions and each is in it or not by its own times. Deadlock
checking is off where the bounded
calls are used up and the system comes to rest; that no set of calls blocks
itself is `EveryCallEnds`. Where something can always come again
(`entitlement_events`, `daily_bonus`, `jobs`, `accounts`) it stays on.

**Fairness.** `LedgerRequests` and `CommonUserLinks`: a call whose next statement
can run does run it (PostgreSQL hands a free lock to its waiters; node continues
an answered query). Weak fairness per call suffices, as a lock once free stays
available to some waiter and calls are finite. `Abort` is not fair. `Outbox`: the
scheduled job runs every few minutes and continues what it began, and a backoff
ends. Nothing is assumed about sends succeeding, about manual retries or about
new events. The others have no liveness property: the inbox promises none, as a
redelivery is up to the sender; the jobs' lock can be lost for good, which
`LockEndsUnlessCutShort` states as safety; rewards, referrals and claims end with
their request.

**Findings.** `approval_rejected` shows that a rejection does not check the status
when it writes, and overwrites an approval that is carried out.

More places where the code and what is said about it part came up while
modelling. Each is stated in its module as a property that is *not* true of the
code, is in no run, and is violated when it is put into the run's configuration:

| Property | What happens | Said where |
|---|---|---|
| `Ledger.SpentPointsDoNotExpire` | a lot that fell due before a debit emptied the wallet is charged to points granted later | `docs/credit-expiry.md:21-23` |
| `ApprovalWorkflow.ApprovedHasEffect` | a request whose key is used by another transaction, or a migration of which every line fails, is APPROVED and nothing of it was executed | `apps/api/src/admin/admin-approval.service.ts:231-233` |
| `Outbox.NeverSentByTwo` | a manual retry of an event that is being sent lets a second dispatcher send it at the same time | `apps/api/src/outbox/outbox.service.ts:68-69` |
| `Outbox.TriedAtMostMaxAttempts` | two dispatchers with the same list count failures from the same number | `docs/integration-outbox.md:26` |
| `Referrals.TerminalIsFinal` | `reject`, the expiry of a session and the manual attachment write a status they read earlier, over a final one | `apps/api/src/referrals/referral-state-machine.ts:23` |
| `Referrals.EventConfirmsItsPerson` | an event that names a key and a person confirms any row with the key, when two visits share it (`LinkKey <- SharedLink`) | `apps/api/src/referrals/referral.repository.ts:29-32` |
| `Referrals.AgreedIsConfirmed` | a referral attached by hand has no benefit, so the agency's yes leaves it PENDING and its event SENT | `docs/agency-referral.md:189-193` |
| `CommonUserLinks.LinkNeverOverwrites` | two links of one account to different ids lock different ids: the second writes over the first | `apps/api/src/accounts/common-user-linking.use-case.ts` |
| `DailyBonus.RowSaysWhatWasPaid` | after a crash between credit and row, or a race over midnight, the row may name another amount than was credited | `docs/daily-login-bonus.md` |
| `AccountLifecycle.ClosedHasNoSession` | a sign-in under way at the closure gets its session after all were revoked (the guard refuses it: `ClosedStaysOut`) | `docs/account-closure.md` |
| `AccountLifecycle.ClosedForGood` | a review that read the status before the closure writes another over CLOSED | `docs/account-closure.md` |
| `AccountLifecycle.ClosureTakesAll` | a credit between the wallet's read and the closure, or a forfeiture key that was used before, leaves points | `apps/api/src/accounts/account-closure.service.ts:85-86` |

And two that need no counterexample. A process that dies between claim and mark
leaves its row PROCESSING or APPROVED for ever: outbox (listed as known in
`docs/review-response-report.md`), inbox and approval; the properties except it by
name. A process that dies between INCR and EXPIRE leaves a lock that never ends
(`cutShort`), although `docs/runbooks/scheduled-jobs.md:73` says it is freed.
A month-end snapshot is off by the transactions whose commit crosses its capture,
and by those of the month that are committed after it (`disturbed`).

## 4. What is proved

`PointTotals_proofs` proves how a sum changes when a row is added, removed or
left alone: a sum is stated as the number of its points, so these follow from
the library's theorems about cardinality, without induction. From these: what
becomes of it when one row changes its amount, or two rows shift some.

`Ledger_proofs`: `Typing` (`TypeOK`). The step that needs an argument is
consumption: no lot goes below zero because `FifoConsumption` never takes more
than a lot has, and an expiry is for a positive amount because its due lots have
points left. A second group of lemmas (`OnlyRowsOf`) says that an operation
changes only rows of the wallets it is about.

The rest follows from one observation: a step leaves a wallet as it was (`Rests`)
or appends one entry to its journal that starts where the last one ended
(`Grows`); `StepOn` is that every action is so, wallet by wallet. From it come
`HistoryImmutable`, `MergedWalletClosed`, `JournalChained` and `Reconciled`, the
last with `CountedGrows`: the rows that count are one more, or the same. For
`BalancesSound`, each debit is covered by what is available (`Paid`) and the open
holds add up to what is held (`HoldsAddUp`). `EndedOnce` needs a strengthening,
`EndInv`: a row refers only to earlier rows of its own wallet (`Referred`), a lot
has no more left than its grant gave (`LotOf`), and an expiry was covered by its
due lots (`CoveredExpiry`). `LiabilityRollsForward` sums over wallets, so it is
proved for finitely many: a step moves the total and the movements by the same
amount (`Rolls`), and a merge moves neither (`MergeRolls`). Every property of the
`ledger` run is thereby proved.

`LedgerRequests_proofs`: `Atomicity` (`LedgerSteps`), that the calls implement
`Ledger`'s operations for every number of calls, wallets, keys and requests.
The invariant is stated per call: what it names exists (`Named`); from its check
to its commit it has the row locks of its wallets, and what it read of them is
still so (`Locked`); from its check on, its decision is still right (`Decided`).
That last part is about rows the call does not lock itself, the hold and the
transaction it undoes: they stay as they were because whoever changes them must
have the lock of the same wallet. So the proof has two halves: a write with
these facts is the operation of `Ledger` (`GrantPerformed` to `MergePerformed`),
and an operation of `Ledger` on locked wallets disturbs no other call
(`PerformedSafely`, `Undisturbed`). The theorems of `Ledger_proofs` are used
through an instance. Neither the order in which a merge locks nor the counter's
lock is needed for it: they serve termination (`EveryCallEnds`) and the unique
index.

Two more invariants stand on that one. `AnswersInv`: a row the calls did not find
there is what some call asked for, under a key of that call (`RowsAsked`), keys
are unique, a RELEASE names one hold, and whoever has an answer has it from the
row under its key (`Replied`); rows stay, so an answer stays right. `MergesInv`:
a wallet is closed exactly when its account is marked, and its one row out has
its row in. Proved: `TypeOK`, `AnsweredOnceAsAsked`, `MergeFollowsBalance`. Here
the proof asked for more than the first version of the module said. A merge uses
two keys it makes from its own (`KeysOf`), so "every caller that may use the key
asked for the same" is about those. And the ledger the calls find is one that
`Ledger` could have left: its keys are unique, its RELEASE rows name a hold, and
no wallet in it was merged yet (`HistoryAssumption`; merges before the calls began
could be told from their marks only).

`Implements` puts it as a refinement: every step of the calls is a step of
`Ledger`'s `Next`, or leaves the ledger as it was. So what `Ledger_proofs` proves
of single operations carries over to the calls (its lemmas about one step,
`BalancesStep`, `ChainStep`, `ReconcileStep`, `EndStep`, `HistoryStep`,
`ClosedStep` and `LiabilityStep`, are stated apart for this): rows stand and merged
wallets stay closed (`HistoryKept`), and balances, the chained journal, the
reconciliation, `EndedOnce` and the liability report hold on any ledger they held
of when the calls came (`BooksKept`, `LiabilityKept`). The hypothesis
`BooksRight` holds of the ledger of the run `ledger_requests`, and of every
ledger `Ledger` reaches.

`Grants_proofs`, approvals: the inductive invariant adds to the properties that
a call at work is on a request that another admin made (`OthersDecide`), that a
request being executed is not PENDING (`ExecutedIsDecided`: without it a second
claim could succeed; a rejection may overwrite the status but never to PENDING,
and only its one executor takes it back), that what is under a key is what the
key is for (`KeysArePurposes`, from which `CreditedOnce` follows: two runs for one
line would need one key twice), that a batch has its request's content
(`BatchesAreOfRequests`), and the loop invariant of a migration (`UnderWay`: its
batch is the request's latest, and each line passed has its key used or is among
the errors). One executor at a time is what keeps another run from opening a later
batch. `ApprovedIsComplete` says the same of the finished run, and
`ApprovedIsCarriedOut` follows, as a used key is the line's own or another's.
Proved from it: `ApprovalTypeOK`, `OneExecutor`, `TwoAdmins`, `CreditedOnce`,
`ApprovedIsCarriedOut`, for any files, also with a user on several lines.

`Grants_proofs`, rewards: `GrantsInv` says of a call that holds the integration's
lock that the integration is active and its key still unused (`Secure`), and, once
it has checked, that today's rows and its own amount stay within the daily limit
(`Room`): only holders of that lock add rows that count. Of a call that holds the
rule's lock it says that its amount fits the rule as it is in force, and that the
rule's dates cover the day it was checked (`Fits`), because a change of the rule
waits for the same lock. Sums are over finitely many rows
(`IsFiniteSet`), none of a day to come (`NoneAhead`), so after midnight the new day
has none. A reversal only makes
the sums smaller. Proved: `TypeOK`, `DailyLimitKept`, `CapsRespected`,
`RetryIsNotLimited`.

`BackgroundJobs_proofs`, outbox: the key of the inductive invariant is `SendersCounted`: an
event has at most as many senders as it had manual retries, and one more while
it is PROCESSING. A claim uses up that one; each way out of PROCESSING gives it
back together with the sender. `AttemptsWereMade` relates every attempt count,
in rows and in old lists, to the sends that happened. Proved: `TypeOK`,
`ExclusiveUnlessRetried`, `ProcessingIsOwned`, `SentWasDelivered`,
`NotGivenUpEarly`, and the action property `SettledStaysSettled`.

`BackgroundJobs_proofs`, jobs: `JobsInv` has one part per promise. `LocksInv`: an
instance between INCR and DEL is the only one, its key is there, and before
EXPIRE the key has no time to live, all but for jobs that overran. `NoticesInv`:
what a run still has to tell of is not marked as told. `SnapshotInv`: a run that
has not summed the wallets is crossed exactly when something began after it and is
committed; one that has, exactly when the wallets' sum is not what is committed of the month
and of the movement; a commit changes both sides together. Proved: `OneUnlessOverrun`,
`ToldOnceUnlessOverrun`, `SnapshotIsMonthEndUnlessCrossed`, `LockEndsUnlessCutShort`
(a held lock has a time to live; that Redis then ends it is `LockExpires`).

`EntitlementEvents_proofs` has three invariants, each proved with the help of the
one before. `EInv`: callers past a lock exclude each other (`Excluded`), so what
a caller has checked of its entitlement or card is still so when it writes
(`CallOK`); the one exception is the card made by hand without a lock, which is
why `CallOK` says only that a card not found is still not there *or* made by
hand. `InboxInv`: whoever is past the claim is alone with its event (`Alone`),
so nobody else writes that row, what the request knows of it stays (`Known`),
and the count of attempts is what was counted at the claim (`Counted`).
`TruthInv`: the answer a use case ends with is true when it is given, a grant's
terms are never replaced and a revocation never undone (`RowsStay`), so it is
still true when the event is marked, and afterwards. Proved from them: all
properties of the run, for any number of requests, events, entitlements and
admins.

`Accounts_proofs`, links: that a call past a lock holds it (`FirstHeld`,
`NewHeld`) makes what it found under the lock stay so until it writes
(`StillFree`): another call that gave the id away would hold the same lock.
Likewise `RowHeld` for the row lock and the referrer. Proved: `TypeOK`,
`OneAccountPerId`, `ReferrerSetOnce`, for any number of accounts, ids and calls.
The order of the locks is not needed for these; it is for `EveryCallEnds`.

`Accounts_proofs`, life cycle: `LifecycleInv` says that whatever names an account
names one that has a row (`RowsExist`), and what a sign-in knows from its looks
(`LooksHold`): past the first, a row of its person in the raw form is of an account
that is neither rewritten to hashes nor about to be, so two forms never stand for
two accounts. `LateHeld`: a request that came once its account was closed is still
before the guard's look at the account, which refuses it, unless an admin reopened
the account. The invariant shows that the second look
under the hash, after a lost race, is never needed: whoever loses the race finds
the winner's row under the raw form. Proved: `LifecycleTypeOK`,
`OneAccountPerPerson`, `ClosedStaysOut`, `RefusedOnlyIfClosed`.

`Bonuses_proofs`, daily bonus: the invariant says of each call that past `ReadLatest` the
days before its date, as many as its streak less one, have their rows and credits
(`WorkedOut`), and that a row has its credit (`CreditFirst`). Both tables only
grow, so what a call worked out stays true however late it writes. Proved:
`StreakIsEarned`, for any schedule, number of calls and days.

`Bonuses_proofs`, referrals: `ReferralsInv` says of each worker that what its job is
about is there, and that what it is to confirm was agreed to, by the row's key or
its person (`JobsNamed`); that a worker about to pay has the wallet's lock, and knows
whether the credit is there (`PaysHeld`); and that a row that waits has its person,
who has no other row, and one with a benefit never becomes free again (`RowsTaken`).
The last makes `OneBonusPerVisit` inductive: the statuses a job writes from an old
read (see `TerminalIsFinal` above) may be wrong, but none of them is CAPTURED.
Proved: `TypeOK`, `OneBonusPerVisit`, `PaidAsAgreed`, `ConfirmNeverCollides`.

All hold for any constants that satisfy the modules' assumptions: the ledger the
calls find is well typed and its holds have their transactions; the accounts are
linked to begin with as links allow; the sentinel is not one of the things it
stands in for, and bounds and limits are natural numbers (limits positive). Only
`Liability` and `LiabilityKept` ask for more: that there are finitely many wallets.

Only model-checked: all liveness (`EveryCallEnds` of two modules and
`EveryEventSettles`), since fairness and ENABLED are outside the prover's reach.
Not proved either is the run that shows a finding, `RejectedIsNotCarriedOut`, which is not
true. Every other property of every run is a theorem. Worth proving next: that
`EntitlementEvents` moves the inbox and the tables only by steps of
`InboundEvents` and `Entitlements`, and that the approvals' `executed` is what
`LedgerRequests` does with a key.

## 5. What is not modelled

* *Collectible claims* (`collectible-claims`): each step asks an external market
  what may happen; what the wallet does itself is a grant, which is modelled.
* *One-time passwords, SSO states, attempt counters*: single rows or keys with a
  time to live, guarded by what they compare, which is cryptography. The INCR and
  EXPIRE they share with the jobs' lock is in `ScheduledJobs`.
* *Data retention*: deletes of old rows by date that no other action reads.
* *External integrations*: signed HTTP in and out; effects go through ledger,
  outbox and inbox.
* *Collectible images*: object storage and conversion.
* *Queries, exports, settings, texts, notices, mail*: reads, or writes of one row
  by one statement.
* *Web applications* (`apps/user-wallet`, `apps/admin-wallet`), shared types and
  configuration: no state of the system. Together with the generated list of mail
  domains these are the greater part of the lines no definition stands for.

Left out inside modelled components: texts, codes and layouts; the ledger's
decimals; the expiry batch as concurrent calls (it is one transaction per
wallet in `Ledger`); the columns of the liability report; profiles, consent and
the accounts a migration makes; edits of a card's texts. `PROJECT.json` has the status of
every component.
