-------------------------- MODULE AccountLifecycle --------------------------
(***************************************************************************)
(* Accounts from the first sign-in to the anonymisation after closure,       *)
(* apps/api/src/accounts, auth and common/session-auth.guard.ts, with the    *)
(* review of migrated accounts in apps/api/src/admin: calls that look up,    *)
(* create, close, reopen and rewrite the same rows at once.                  *)
(***************************************************************************)
EXTENDS Integers, FiniteSets

CONSTANTS
  People,         \* who signs in: a provider and a provider_subject
  Logins,         \* sign-ins, each with the session it may get
  Requests,       \* calls of a signed-in user at once
  Admins,         \* calls of administrators at once
  AccountIds,     \* ids accounts may get
  Nobody,         \* no person, no account
  HashKey,        \* is ANONYMIZATION_HASH_KEY set?
  MaxBalance      \* bound on the points of a wallet

ASSUME NobodyAssumption == Nobody \notin People \cup AccountIds
ASSUME HashKeyAssumption == HashKey \in BOOLEAN
ASSUME MaxBalanceAssumption == MaxBalance \in Nat

VARIABLES
  status,         \* ove_accounts.status, "none" for no row
  identities,     \* account_identities: whose, under which form, which account
  balance,        \* available_balance of the account's wallet
  forfeits,       \* ACCOUNT_CLOSURE_FORFEIT transactions, by idempotency key
  past,           \* accounts closed longer ago than the grace period
  targets,        \* accounts the anonymisation has listed
  session,        \* user_sessions: the account of a sign-in's session
  revoked,        \* sessions with revoked_at
  at, who, acct,  \* a sign-in: how far, of whom, the account it found
  pc, token, sum, \* a request: how far, its session, what it forfeits
  late,           \* requests begun when their account was closed
  admin, on,      \* an administrator's call: how far, on which account
  reopened        \* accounts set to another status after they were closed

accountVars == <<status, identities, balance, forfeits, past, targets, reopened>>
sessionVars == <<session, revoked>>
loginVars == <<at, who, acct>>
requestVars == <<pc, token, sum, late>>
adminVars == <<admin, on>>
lifecycleVars == <<accountVars, sessionVars, loginVars, requestVars, adminVars>>

LifecycleInit ==
  /\ status = [a \in AccountIds |-> "none"]
  /\ identities = {}
  /\ balance = [a \in AccountIds |-> 0]
  /\ forfeits = {}
  /\ past = {}
  /\ targets = {}
  /\ session = [l \in Logins |-> Nobody]
  /\ revoked = {}
  /\ at = [l \in Logins |-> "start"]
  /\ who = [l \in Logins |-> Nobody]
  /\ acct = [l \in Logins |-> Nobody]
  /\ pc = [r \in Requests |-> "idle"]
  /\ token = [r \in Requests |-> Nobody]
  /\ sum = [r \in Requests |-> 0]
  /\ late = {}
  /\ admin = [m \in Admins |-> "idle"]
  /\ on = [m \in Admins |-> Nobody]
  /\ reopened = {}

-----------------------------------------------------------------------------
(* Sign-in: findOrCreateByIdentity, then the session.                        *)

Login(l, phase) == at' = [at EXCEPT ![l] = phase]

Arrive(l, p) ==
  /\ at[l] = "start"
  /\ who' = [who EXCEPT ![l] = p]
  /\ Login(l, "raw")
  /\ UNCHANGED <<acct, accountVars, sessionVars, requestVars, adminVars>>

Rows(p, form) == {i \in identities : i.person = p /\ i.form = form}

(* A row that is found settles it; a closed account is refused.              *)
Found(l, form) ==
  \E i \in Rows(who[l], form) :
    IF status[i.account] = "CLOSED" THEN Login(l, "refused") /\ UNCHANGED acct
    ELSE Login(l, "session") /\ acct' = [acct EXCEPT ![l] = i.account]

(* findIdentity: by the subject itself, then by its hash; once more the same *)
(* after losing a race.                                                      *)
FindRaw(l) ==
  /\ at[l] \in {"raw", "raw again"}
  /\ \/ Found(l, "raw")
     \/ /\ Rows(who[l], "raw") = {}
        /\ Login(l, IF at[l] = "raw" THEN "hash" ELSE "hash again")
        /\ UNCHANGED acct
  /\ UNCHANGED <<who, accountVars, sessionVars, requestVars, adminVars>>

FindHash(l) ==
  /\ at[l] \in {"hash", "hash again"}
  /\ \/ HashKey /\ Found(l, "hash")
     \/ /\ HashKey => Rows(who[l], "hash") = {}
        /\ Login(l, IF at[l] = "hash" THEN "create" ELSE "refused")
        /\ UNCHANGED acct
  /\ UNCHANGED <<who, accountVars, sessionVars, requestVars, adminVars>>

(* One transaction, or the unique index on the identity undoes it.           *)
Create(l) ==
  /\ at[l] = "create"
  /\ Rows(who[l], "raw") = {}
  /\ \E a \in AccountIds :
       /\ status[a] = "none"
       /\ status' = [status EXCEPT ![a] = "ACTIVE"]
       /\ identities' = identities \cup {[person |-> who[l], form |-> "raw", account |-> a]}
       /\ acct' = [acct EXCEPT ![l] = a]
  /\ Login(l, "session")
  /\ UNCHANGED <<who, balance, forfeits, past, targets, reopened,
                 sessionVars, requestVars, adminVars>>

(* Mutant of CreateLost: the error goes to the caller. *)
CreateLostFails(l) ==
  /\ at[l] = "create"
  /\ Rows(who[l], "raw") # {}
  /\ Login(l, "refused")
  /\ UNCHANGED <<who, acct, accountVars, sessionVars, requestVars, adminVars>>

CreateLost(l) ==
  /\ at[l] = "create"
  /\ Rows(who[l], "raw") # {}
  /\ Login(l, "raw again")
  /\ UNCHANGED <<who, acct, accountVars, sessionVars, requestVars, adminVars>>

createSession(l) ==
  /\ at[l] = "session"
  /\ session' = [session EXCEPT ![l] = acct[l]]
  /\ Login(l, "over")
  /\ UNCHANGED <<who, acct, revoked, accountVars, requestVars, adminVars>>

(* Logging out, here or from another device, by an administrator, or the end *)
(* of its thirty days.                                                       *)
Revoke(l) ==
  /\ session[l] # Nobody
  /\ l \notin revoked
  /\ revoked' = revoked \cup {l}
  /\ UNCHANGED <<session, accountVars, loginVars, requestVars, adminVars>>

-----------------------------------------------------------------------------
(* A request of a signed-in user: the guard, then the handler.               *)

GoOn(r, phase) == pc' = [pc EXCEPT ![r] = phase]
Account(r) == session[token[r]]

(* A request is over, or its process dies. *)
Over(r) ==
  /\ GoOn(r, "idle")
  /\ token' = [token EXCEPT ![r] = Nobody]
  /\ sum' = [sum EXCEPT ![r] = 0]
  /\ late' = late \ {r}

Call(r, l) ==
  /\ pc[r] = "idle"
  /\ session[l] # Nobody
  /\ token' = [token EXCEPT ![r] = l]
  /\ late' = IF status[session[l]] = "CLOSED" THEN late \cup {r} ELSE late
  /\ GoOn(r, "guard")
  /\ UNCHANGED <<sum, accountVars, sessionVars, loginVars, adminVars>>

(* canActivate: the session, then the account.                               *)
GuardSession(r) ==
  /\ pc[r] = "guard"
  /\ IF token[r] \in revoked THEN Over(r)
     ELSE GoOn(r, "guard account") /\ UNCHANGED <<token, sum, late>>
  /\ UNCHANGED <<accountVars, sessionVars, loginVars, adminVars>>

(* Mutant of LetIn: the account is not looked at. *)
LetInBySession(r) == TRUE

LetIn(r) == status[Account(r)] # "CLOSED"

GuardAccount(r) ==
  /\ pc[r] = "guard account"
  /\ IF LetIn(r)
       THEN (\E phase \in {"serve", "status"} : GoOn(r, phase)) /\ UNCHANGED <<token, sum, late>>
       ELSE Over(r)
  /\ UNCHANGED <<accountVars, sessionVars, loginVars, adminVars>>

(* A handler, such as the daily bonus, that credits the wallet. *)
Serve(r) ==
  /\ pc[r] = "serve"
  /\ balance[Account(r)] < MaxBalance
  /\ balance' = [balance EXCEPT ![Account(r)] = @ + 1]
  /\ Over(r)
  /\ UNCHANGED <<status, identities, forfeits, past, targets, reopened,
                 sessionVars, loginVars, adminVars>>

(* requestClosure: the account, the wallet, the debit, the closure.          *)
ReadStatus(r) ==
  /\ pc[r] = "status"
  /\ IF status[Account(r)] = "CLOSED" THEN Over(r)
     ELSE GoOn(r, "wallet") /\ UNCHANGED <<token, sum, late>>
  /\ UNCHANGED <<accountVars, sessionVars, loginVars, adminVars>>

ReadWallet(r) ==
  /\ pc[r] = "wallet"
  /\ sum' = [sum EXCEPT ![r] = balance[Account(r)]]
  /\ GoOn(r, IF balance[Account(r)] > 0 THEN "forfeit" ELSE "close")
  /\ UNCHANGED <<token, late, accountVars, sessionVars, loginVars, adminVars>>

(* debitWallet, under a key that names the account and the amount: the       *)
(* transaction it finds there is taken for its own.                          *)
ForfeitKey(r) == <<Account(r), sum[r]>>

Forfeit(r) ==
  /\ pc[r] = "forfeit"
  /\ \/ /\ ForfeitKey(r) \in forfeits
        /\ GoOn(r, "close")
        /\ UNCHANGED <<balance, forfeits, token, sum, late>>
     \/ /\ ForfeitKey(r) \notin forfeits
        /\ balance[Account(r)] >= sum[r]
        /\ balance' = [balance EXCEPT ![Account(r)] = @ - sum[r]]
        /\ forfeits' = forfeits \cup {ForfeitKey(r)}
        /\ GoOn(r, "close")
        /\ UNCHANGED <<token, sum, late>>
     \/ /\ ForfeitKey(r) \notin forfeits
        /\ balance[Account(r)] < sum[r]
        /\ Over(r)
        /\ UNCHANGED <<balance, forfeits>>
  /\ UNCHANGED <<status, identities, past, targets, reopened, sessionVars, loginVars, adminVars>>

SessionsOf(a) == {l \in Logins : session[l] = a}

Close(r) ==
  /\ pc[r] = "close"
  /\ status' = [status EXCEPT ![Account(r)] = "CLOSED"]
  /\ revoked' = revoked \cup SessionsOf(Account(r))
  /\ past' = past \ {Account(r)}
  /\ Over(r)
  /\ UNCHANGED <<identities, balance, forfeits, targets, reopened, session, loginVars, adminVars>>

BreakOff(r) ==
  /\ pc[r] # "idle"
  /\ Over(r)
  /\ UNCHANGED <<accountVars, sessionVars, loginVars, adminVars>>

-----------------------------------------------------------------------------
(* The migration of an account whose old balance is unknown puts it under    *)
(* review, and another administrator ends the review.  Each reads the status *)
(* first and writes it later, whatever it is by then.                        *)

ReadForReview(m, a) ==
  /\ admin[m] = "idle"
  /\ \/ status[a] \in {"ACTIVE", "REVIEWING"} /\ admin' = [admin EXCEPT ![m] = "REVIEWING"]
     \/ status[a] = "REVIEWING" /\ admin' = [admin EXCEPT ![m] = "ACTIVE"]
  /\ on' = [on EXCEPT ![m] = a]
  /\ UNCHANGED <<accountVars, sessionVars, loginVars, requestVars>>

updateStatus(m) ==
  /\ admin[m] # "idle"
  /\ status' = [status EXCEPT ![on[m]] = admin[m]]
  /\ reopened' = IF status[on[m]] = "CLOSED" THEN reopened \cup {on[m]} ELSE reopened
  /\ past' = past \ {on[m]}
  /\ admin' = [admin EXCEPT ![m] = "idle"]
  /\ on' = [on EXCEPT ![m] = Nobody]
  /\ UNCHANGED <<identities, balance, forfeits, targets, sessionVars, loginVars, requestVars>>

-----------------------------------------------------------------------------
(* Anonymisation.                                                            *)

(* Mutant of Waited: no grace. *)
NoGrace == TRUE

(* The grace period, of ninety days or one at least, is longer than any call *)
(* is under way.                                                             *)
Waited ==
  /\ \A l \in Logins : at[l] \in {"start", "over", "refused"}
  /\ \A r \in Requests : pc[r] = "idle"
  /\ \A m \in Admins : admin[m] = "idle"

GraceEnds(a) ==
  /\ status[a] = "CLOSED"
  /\ a \notin past
  /\ Waited
  /\ past' = past \cup {a}
  /\ UNCHANGED <<status, identities, balance, forfeits, targets, reopened,
                 sessionVars, loginVars, requestVars, adminVars>>

eligible == {a \in past : status[a] = "CLOSED"
                          /\ \E i \in identities : i.account = a /\ i.form = "raw"}

ListTargets ==
  /\ HashKey
  /\ targets = {}
  /\ eligible # {}
  /\ targets' = eligible
  /\ UNCHANGED <<status, identities, balance, forfeits, past, reopened,
                 sessionVars, loginVars, requestVars, adminVars>>

(* A transaction per account of the list, which does not look again whether  *)
(* the account is still closed.                                              *)
Anonymize(a) ==
  /\ a \in targets
  /\ identities' = {IF i.account = a THEN [i EXCEPT !.form = "hash"] ELSE i : i \in identities}
  /\ targets' = targets \ {a}
  /\ UNCHANGED <<status, balance, forfeits, past, reopened,
                 sessionVars, loginVars, requestVars, adminVars>>

-----------------------------------------------------------------------------
SignIn(l) ==
  \/ \E p \in People : Arrive(l, p)
  \/ FindRaw(l)
  \/ FindHash(l)
  \/ Create(l)
  \/ CreateLost(l)
  \/ createSession(l)

Handle(r) ==
  \/ \E l \in Logins : Call(r, l)
  \/ GuardSession(r)
  \/ GuardAccount(r)
  \/ Serve(r)
  \/ ReadStatus(r)
  \/ ReadWallet(r)
  \/ Forfeit(r)
  \/ Close(r)
  \/ BreakOff(r)

LifecycleNext ==
  \/ \E l \in Logins : SignIn(l) \/ Revoke(l)
  \/ \E r \in Requests : Handle(r)
  \/ \E m \in Admins : updateStatus(m) \/ \E a \in AccountIds : ReadForReview(m, a)
  \/ \E a \in AccountIds : GraceEnds(a) \/ Anonymize(a)
  \/ ListTargets

LifecycleSpec == LifecycleInit /\ [][LifecycleNext]_lifecycleVars

-----------------------------------------------------------------------------
(* Nobody ever has two accounts under one identity: not by signing in twice  *)
(* at once, nor by coming back after closing the first, before or after its  *)
(* identity was hashed (findIdentity, account-registration.service.ts:85).   *)
OneAccountPerPerson ==
  \A i, j \in identities : i.person = j.person => i.account = j.account

(* A request that comes once its account is closed is never handled, though  *)
(* a sign-in under way at the closure leaves a session nobody revoked        *)
(* (canActivate, session-auth.guard.ts:50).                                  *)
ClosedStaysOut ==
  \A r \in late :
    Account(r) \notin reopened => pc[r] \in {"guard", "guard account"}

(* A sign-in is turned away only for a closed account of its own: not for    *)
(* losing the race to create it (P2002, account-registration.service.ts:210). *)
RefusedOnlyIfClosed ==
  [][\A l \in Logins :
       at[l] # "refused" /\ at'[l] = "refused" =>
         \E i \in identities : i.person = who[l] /\ status[i.account] = "CLOSED"]_lifecycleVars

(* A closed account has no session left (docs/account-closure.md).           *)
ClosedHasNoSession ==
  \A l \in Logins : session[l] # Nobody /\ status[session[l]] = "CLOSED" => l \in revoked

(* Once closed, closed for good (docs/account-closure.md).                   *)
ClosedForGood == reopened = {}

(* The points an account has when it is closed are gone from its wallet      *)
(* (comment above requestClosure); checked where requests come one by one.   *)
ClosureTakesAll ==
  [][\A a \in AccountIds :
       status[a] # "CLOSED" /\ status'[a] = "CLOSED" => balance[a] = 0]_lifecycleVars

=============================================================================
