---------------------------- MODULE ScheduledJobs ----------------------------
(***************************************************************************)
(* The scheduled jobs of several API instances under the lock they keep in   *)
(* Redis, apps/api/src/scheduler and packages/auth/src/kv-store.ts, and two   *)
(* of them in full: the month-end snapshot of the points outstanding, taken   *)
(* while transactions that grant and spend points begin and commit, and the   *)
(* notices of points about to expire.  A sum is the set of the transactions   *)
(* that are in it.                                                            *)
(***************************************************************************)
EXTENDS Integers, FiniteSets

CONSTANTS
  Jobs,           \* those of the jobs below that are scheduled
  Instances,      \* API processes
  Lots,           \* ove_credit_lots, each with its account and the day it expires
  DaysBefore,     \* EXPIRY_NOTICE_DAYS_BEFORE
  MaxAccounts,    \* EXPIRY_NOTICE_MAX_ACCOUNTS_PER_RUN
  Boundary,       \* the first day of the new month
  MaxDay,         \* bound on the days that pass
  Transactions,   \* ove_transactions that grant or spend points
  None

ASSUME JobsAssumption == Jobs \subseteq {"liability-snapshot", "expiry-notice"}
ASSUME LotsAssumption == \A l \in Lots : l.expires \in Nat
ASSUME JobBoundsAssumption == DaysBefore \in Nat /\ MaxAccounts \in Nat \ {0} /\ Boundary \in Nat
                              /\ MaxDay \in Nat
ASSUME NoneAssumption == None \notin [balanceAtCapture : SUBSET Transactions,
                                     movementAfterPeriod : SUBSET Transactions]

VARIABLES
  day,            \* the date
  month, since,   \* transactions with an occurred_at before Boundary, and from then on
  committed,      \* those of them that others see
  holders,        \* the number under scheduler-lock:<job>, 0 if there is none
  ttl,            \* locks that have a time to live
  job, pc,        \* the job an instance runs (any, while it is idle), and how far it is
  now,            \* the day its run began
  earlier,        \* transactions with an occurred_at before it began
  found,          \* lots it read, accounts not yet told
  balance,        \* wallets' total it read
  snapshot,       \* point_liability_snapshots of the month before Boundary
  told,           \* notices about a lot
  marked,         \* lots with expiry_notice_sent_at
  overran,        \* jobs whose lock ran out under its holder
  cutShort,       \* jobs whose holder died before the lock had a time to live
  crossed,        \* captures that a transaction's commit crossed
  disturbed       \* the snapshot is of such a capture, or was taken before one of the month

ledgerVars == <<day, month, since, committed>>
history == <<overran, cutShort, disturbed>>
jobVars == <<holders, ttl, job, pc, now, earlier, found, balance, crossed, snapshot, told, marked>>
schedulerVars == <<ledgerVars, jobVars, history>>

Working == {"existing", "balances", "movement", "list", "notify", "done"}

JobsInit ==
  /\ day = 1
  /\ month = {}
  /\ since = {}
  /\ committed = {}
  /\ holders = [j \in Jobs |-> 0]
  /\ ttl = {}
  /\ job = [i \in Instances |-> "expiry-notice"]
  /\ pc = [i \in Instances |-> "idle"]
  /\ now = [i \in Instances |-> 1]
  /\ earlier = [i \in Instances |-> {}]
  /\ found = [i \in Instances |-> {}]
  /\ balance = [i \in Instances |-> {}]
  /\ snapshot = None
  /\ told = [l \in Lots |-> 0]
  /\ marked = {}
  /\ overran = {}
  /\ cutShort = {}
  /\ crossed = {}
  /\ disturbed = FALSE

Goto(i, phase) == pc' = [pc EXCEPT ![i] = phase]

(* A job returns or is cut off: what it read is gone. *)
Leave(i, phase) ==
  /\ Goto(i, phase)
  /\ now' = [now EXCEPT ![i] = 1]
  /\ earlier' = [earlier EXCEPT ![i] = {}]
  /\ found' = [found EXCEPT ![i] = {}]
  /\ balance' = [balance EXCEPT ![i] = {}]
  /\ crossed' = crossed \ {i}

(* Points are granted or spent: occurred_at is the time at which the row is   *)
(* made, inside the transaction.  One that is rolled back never commits.      *)
Post(t) ==
  /\ t \notin month \cup since
  /\ IF day < Boundary
       THEN month' = month \cup {t} /\ UNCHANGED since
       ELSE since' = since \cup {t} /\ UNCHANGED month
  /\ UNCHANGED <<day, committed, jobVars, history>>

(* The commit of t crosses run i: t began after the run and is committed      *)
(* before it sums the wallets; or it is committed between the two sums, and   *)
(* is of the month, or of those whose sum is to be taken off.                 *)
Crosses(t, i) ==
  \/ pc[i] \in {"existing", "balances"} /\ t \in since \ earlier[i]
  \/ pc[i] = "movement" /\ t \in month \cup earlier[i]

Commit(t) ==
  /\ t \in (month \cup since) \ committed
  /\ committed' = committed \cup {t}
  /\ crossed' = crossed \cup {i \in Instances : Crosses(t, i)}
  /\ disturbed' = (disturbed \/ (snapshot # None /\ t \in month))
  /\ UNCHANGED <<day, month, since, holders, ttl, job, pc, now, earlier, found, balance, snapshot,
                 told, marked, overran, cutShort>>

Midnight ==
  /\ day < MaxDay
  /\ day' = day + 1
  /\ UNCHANGED <<month, since, committed, jobVars, history>>

(* Mutant of Incr: the lock is read before it is set. *)
IncrAsRead(i, j) ==
  /\ pc[i] = "idle"
  /\ holders' = [holders EXCEPT ![j] = 1]
  /\ IF j \notin ttl
       THEN Goto(i, "expire") /\ job' = [job EXCEPT ![i] = j]
       ELSE UNCHANGED <<pc, job>>
  /\ UNCHANGED <<ttl, now, earlier, found, balance, crossed, snapshot, told, marked, history, ledgerVars>>

(* withLock: INCR; whoever gets 1 runs the job, the others leave it to the    *)
(* next time.  RedisKeyValueStore.incr sets the time to live in a command of  *)
(* its own, for the first only.                                               *)
Incr(i, j) ==
  /\ pc[i] = "idle"
  /\ holders' = [holders EXCEPT ![j] = IF @ = 0 THEN 1 ELSE 2]
  /\ IF holders[j] = 0
       THEN Goto(i, "expire") /\ job' = [job EXCEPT ![i] = j]
       ELSE UNCHANGED <<pc, job>>
  /\ UNCHANGED <<ttl, now, earlier, found, balance, crossed, snapshot, told, marked, history, ledgerVars>>

Begun(j) == IF j = "expiry-notice" THEN "list" ELSE "existing"

(* Mutant of Ending: EXPIRE is left to whoever is second. *)
EndingOfSecond(j) == {k \in {j} : holders[k] > 1}

(* EXPIRE does nothing to a key that is gone. *)
Ending(j) == {k \in {j} : holders[k] > 0}

Expire(i) ==
  /\ pc[i] = "expire"
  /\ ttl' = ttl \cup Ending(job[i])
  /\ now' = [now EXCEPT ![i] = day]
  /\ earlier' = IF job[i] = "expiry-notice" THEN earlier
                ELSE [earlier EXCEPT ![i] = month \cup since]
  /\ Goto(i, Begun(job[i]))
  /\ UNCHANGED <<holders, job, found, balance, crossed, snapshot, told, marked, history, ledgerVars>>

(* finally: the key goes, whoever set it. *)
Del(i) ==
  /\ pc[i] = "done"
  /\ holders' = [holders EXCEPT ![job[i]] = 0]
  /\ ttl' = ttl \ {job[i]}
  /\ Leave(i, "idle")
  /\ job' = [job EXCEPT ![i] = "expiry-notice"]
  /\ UNCHANGED <<snapshot, told, marked, history, ledgerVars>>

Runs(i, j) == job[i] = j /\ pc[i] \in Working

(* JOB_LOCK_TTL_SECONDS have passed. *)
LockExpires(j) ==
  /\ j \in ttl
  /\ holders' = [holders EXCEPT ![j] = 0]
  /\ ttl' = ttl \ {j}
  /\ overran' = IF \E i \in Instances : Runs(i, j) THEN overran \cup {j} ELSE overran
  /\ UNCHANGED <<job, pc, now, earlier, found, balance, crossed, snapshot, told, marked, cutShort,
                 disturbed, ledgerVars>>

(* The process dies, or Redis fails the command it is about to send: EXPIRE   *)
(* throws before the job begins, and a DEL that fails is let go.              *)
Die(i) ==
  /\ pc[i] # "idle"
  /\ cutShort' = cutShort \cup {j \in {job[i]} : pc[i] = "expire"}
  /\ Leave(i, "idle")
  /\ job' = [job EXCEPT ![i] = "expiry-notice"]
  /\ UNCHANGED <<holders, ttl, snapshot, told, marked, overran, disturbed, ledgerVars>>

(* The job throws: what it did stays done, and finally runs. *)
Fail(i) ==
  /\ pc[i] \in Working \ {"done"}
  /\ Leave(i, "done")
  /\ UNCHANGED <<holders, ttl, job, snapshot, told, marked, history, ledgerVars>>

-----------------------------------------------------------------------------
(* captureMonthEndSnapshot: four statements, none of them in a transaction.  *)

Existing(i) ==
  /\ pc[i] = "existing"
  /\ IF now[i] >= Boundary /\ snapshot = None
       THEN Goto(i, "balances") /\ UNCHANGED <<now, earlier, found, balance, crossed>>
       ELSE Leave(i, "done")
  /\ UNCHANGED <<holders, ttl, job, snapshot, told, marked, history, ledgerVars>>

sumWalletBalances(i) ==
  /\ pc[i] = "balances"
  /\ balance' = [balance EXCEPT ![i] = committed]
  /\ Goto(i, "movement")
  /\ UNCHANGED <<holders, ttl, job, now, earlier, found, crossed, snapshot, told, marked, history,
                 ledgerVars>>

(* Mutant of sumMovement: the movements are summed to date.                  *)
sumMovementToDate(i) == since \cap committed

(* The transactions of the new month that had occurred when the run began,   *)
(* as many of them as are committed by now.                                  *)
sumMovement(i) == since \cap earlier[i] \cap committed

(* The unique index on period_end fails the second of two. *)
Create(i, total) ==
  IF snapshot = None
    THEN snapshot' = total /\ disturbed' = (i \in crossed)
    ELSE UNCHANGED <<snapshot, disturbed>>

(* totalBalance is the one less the other.  A commit between the second sum   *)
(* and the create does to the snapshot what one after both does.              *)
Capture(i) ==
  /\ pc[i] = "movement"
  /\ Create(i, [balanceAtCapture |-> balance[i], movementAfterPeriod |-> sumMovement(i)])
  /\ Leave(i, "done")
  /\ UNCHANGED <<holders, ttl, job, told, marked, overran, cutShort, ledgerVars>>

-----------------------------------------------------------------------------
(* createExpiryNotices: one read, then a transaction per account.            *)

(* Mutant of DueLots: marked lots are listed again. *)
DueLotsAgain(i) == {l \in Lots : l.expires > now[i] /\ l.expires <= now[i] + DaysBefore}

DueLots(i) == {l \in Lots \ marked : l.expires > now[i] /\ l.expires <= now[i] + DaysBefore}

AccountsOf(S) == {l.account : l \in S}

(* Of the accounts of S, those whose first lot expires no later than x's.    *)
UpTo(S, x) ==
  {a \in AccountsOf(S) : \A m \in S : m.account = x
                           => \E l \in S : l.account = a /\ l.expires <= m.expires}

(* At most MaxAccounts of them are told, the most urgent; the rest is left   *)
(* to the next run.                                                          *)
ListDue(i) ==
  /\ pc[i] = "list"
  /\ \E S \in SUBSET AccountsOf(DueLots(i)) :
       /\ Cardinality(S) <= MaxAccounts
       /\ S = AccountsOf(DueLots(i)) \/ Cardinality(S) = MaxAccounts
       /\ \A a \in S, b \in AccountsOf(DueLots(i)) \ S : a \in UpTo(DueLots(i), b)
       /\ found' = [found EXCEPT ![i] = {l \in DueLots(i) : l.account \in S}]
  /\ Goto(i, "notify")
  /\ UNCHANGED <<holders, ttl, job, now, earlier, balance, crossed, snapshot, told, marked, history,
                 ledgerVars>>

Tell(S) ==
  /\ told' = [l \in Lots |-> IF l \in S THEN told[l] + 1 ELSE told[l]]
  /\ marked' = marked \cup S

Notify(i) ==
  /\ pc[i] = "notify"
  /\ IF found[i] = {}
       THEN Leave(i, "done") /\ UNCHANGED <<told, marked>>
       ELSE \E a \in AccountsOf(found[i]) :
              LET S == {l \in found[i] : l.account = a}
              IN  /\ \A b \in AccountsOf(found[i]) : a \in UpTo(found[i], b)
                  /\ Tell(S)
                  /\ found' = [found EXCEPT ![i] = @ \ S]
                  /\ UNCHANGED <<pc, now, earlier, balance, crossed>>
  /\ UNCHANGED <<holders, ttl, job, snapshot, history, ledgerVars>>

-----------------------------------------------------------------------------
Run(i) ==
  \/ Expire(i)
  \/ Existing(i)
  \/ sumWalletBalances(i)
  \/ Capture(i)
  \/ ListDue(i)
  \/ Notify(i)
  \/ Del(i)

JobsNext ==
  \/ \E t \in Transactions : Post(t) \/ Commit(t)
  \/ Midnight
  \/ \E i \in Instances, j \in Jobs : Incr(i, j)
  \/ \E i \in Instances : Run(i) \/ Fail(i) \/ Die(i)
  \/ \E j \in Jobs : LockExpires(j)

JobsSpec == JobsInit /\ [][JobsNext]_schedulerVars

-----------------------------------------------------------------------------
(* Two instances are in one job at once only after its lock ran out under    *)
(* one of them: neither the INCR of a loser nor a process that died makes it *)
(* happen (withLock, scheduler.service.ts:150).                              *)
OneUnlessOverrun ==
  \A i, k \in Instances : \A j \in Jobs \ overran : Runs(i, j) /\ Runs(k, j) => i = k

(* Nobody is told twice of the same points, though the list was read long    *)
(* before the lots are marked and processes die in between - as long as no   *)
(* run outlives its lock (createExpiryNotices, expiry-notice.service.ts:59). *)
ToldOnceUnlessOverrun ==
  "expiry-notice" \notin overran => \A l \in Lots : told[l] <= 1

(* The month's figure is the balance at the end of the month, however late   *)
(* the job runs, however often it was cut off and with two runs at once: what *)
(* is left of the wallets' sum are the transactions of the month.  It is so   *)
(* unless the commit of a transaction crosses the capture, and then never:    *)
(* the two sums are statements of their own, the end of the second is the     *)
(* time of the start, and a transaction's time is not that of its commit      *)
(* (captureMonthEndSnapshot, point-liability.service.ts:296).                *)
SnapshotIsMonthEndUnlessCrossed ==
  snapshot # None =>
    (~disturbed <=> snapshot.balanceAtCapture
                      = (month \cap committed) \cup snapshot.movementAfterPeriod)

(* A lock has a time to live whatever became of its holder, unless that died *)
(* between INCR and EXPIRE (RedisKeyValueStore.incr, kv-store.ts:84): then   *)
(* the job is skipped for good.                                              *)
LockEndsUnlessCutShort ==
  \A j \in Jobs \ cutShort :
    holders[j] > 0 => j \in ttl \/ \E i \in Instances : job[i] = j /\ pc[i] = "expire"

=============================================================================
