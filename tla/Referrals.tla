------------------------------ MODULE Referrals ------------------------------
(***************************************************************************)
(* The agency's referrals, apps/api/src/referrals: a visit of an invitation  *)
(* link leaves a row and a cookie, the registration that brings the cookie   *)
(* takes the row, and the agency says whether it counts.  The answer comes   *)
(* to the login, to the outbox worker or as an event of its own, possibly to *)
(* all three at once; an administrator attaches a left over row by hand.     *)
(***************************************************************************)
EXTENDS Naturals, FiniteSets

CONSTANTS
  Sessions,      \* wallet_referrals rows, one for each visit
  Accounts,      \* people who may register
  Linked0,       \* those of them the agency knows to begin with
  Keys,          \* referral_session_key values
  LinkKey,       \* the key the agency has for the link of a visit
  Workers,       \* requests and jobs under way at once
  None,          \* no account, no session, no key; the holder of a free lock
  Legacy,        \* ENABLE_LEGACY_REFERRAL_SIGNUP_BONUS
  Halfway,       \* credits a former version left without the status, by account
  MaxJobs        \* bound on the requests and jobs in all

ASSUME NoneAssumption == None \notin Sessions \cup Accounts \cup Keys \cup Workers
ASSUME LinkKeyAssumption == LinkKey \in [Sessions -> Keys]
ASSUME LegacyAssumption == Legacy \in BOOLEAN
ASSUME HalfwayAssumption ==
  /\ DOMAIN Halfway \subseteq Accounts
  /\ Halfway \in [DOMAIN Halfway -> Sessions]
  /\ \A a, b \in DOMAIN Halfway : Halfway[a] = Halfway[b] => a = b
ASSUME Linked0Assumption == Linked0 \subseteq Accounts
ASSUME MaxJobsAssumption == MaxJobs \in Nat

Statuses == {"CAPTURED", "PENDING", "CONFIRMED", "REJECTED", "EXPIRED"}

VARIABLES
  referral,      \* wallet_referrals: status, account and session key
  overdue,       \* rows whose expiresAt has passed
  registered,    \* accounts there are
  linked,        \* those of them whose common_user_id is known
  benefit,       \* wallet_referral_benefits: by account, its row's session and status
  paid,          \* REFERRAL_REWARD credits, by the benefit's account: the session paid for
  event,         \* wallet.referral.registered in the outbox, by session
  agreed,        \* keys and accounts the agency has said "confirmed" of
  walletBy,      \* the row locks on the wallets
  work,          \* what each worker does and remembers
  jobs           \* requests and jobs so far

vars == <<referral, overdue, registered, linked, benefit, paid, event, agreed,
          walletBy, work, jobs>>

(* session and account: what the job is about; key: of an event; saw: was    *)
(* the credit there; told: the row of the outbox the job sends.              *)
Idle == [pc |-> "idle", session |-> None, account |-> None, key |-> None,
         saw |-> FALSE, told |-> None]
Phases == {"idle", "resolved", "expire", "register", "link", "read", "ask",
           "reject", "find", "lock", "pay", "attach"}

HalfwaySessions == {Halfway[a] : a \in DOMAIN Halfway}

Init ==
  /\ referral = [s \in HalfwaySessions |->
                   [status |-> "PENDING", key |-> LinkKey[s],
                    account |-> CHOOSE a \in DOMAIN Halfway : Halfway[a] = s]]
  /\ overdue = {}
  /\ registered \in {some \in SUBSET Accounts : DOMAIN Halfway \subseteq some}
  /\ linked = registered \cap Linked0
  /\ benefit = [a \in DOMAIN Halfway |-> [session |-> Halfway[a], status |-> "PENDING"]]
  /\ paid = Halfway
  /\ event = [s \in Sessions |-> IF s \in HalfwaySessions THEN "PENDING" ELSE "NONE"]
  /\ agreed = DOMAIN Halfway
  /\ walletBy = [a \in Accounts |-> None]
  /\ work = [w \in Workers |-> Idle]
  /\ jobs = 0

Doing(w, phase) == work[w].pc = phase
Job(w, job) == work' = [work EXCEPT ![w] = job]
Goto(w, phase) == work' = [work EXCEPT ![w].pc = phase]

Take(w, job) ==
  /\ Doing(w, "idle") /\ jobs < MaxJobs
  /\ jobs' = jobs + 1
  /\ Job(w, job)

(* A job is over; its locks are free, and an event it sent is SENT if it     *)
(* ended well (OutboxService.processPendingEvents).                          *)
Finish(w, well) ==
  /\ Job(w, Idle)
  /\ walletBy' = [a \in Accounts |-> IF walletBy[a] = w THEN None ELSE walletBy[a]]
  /\ event' = [s \in Sessions |->
                 IF s = work[w].told /\ well THEN "SENT" ELSE event[s]]

Has(a) == {s \in DOMAIN referral : referral[s].account = a}   \* at most one
Of(a) == CHOOSE s \in Has(a) : TRUE
SetStatus(s, status) == referral' = [referral EXCEPT ![s].status = status]

UnchangedRows == UNCHANGED <<referral, benefit, paid, event>>
UnchangedPeople == UNCHANGED <<registered, linked>>
UnchangedWorld == UNCHANGED <<overdue, agreed>>

-----------------------------------------------------------------------------
(* Visits                                                                   *)

(* ReferralCaptureUseCase.capture.  The key comes with the link or from the  *)
(* agency; without an answer the row stays without one.                      *)
Visit(s) ==
  /\ s \notin DOMAIN referral
  /\ \E key \in {LinkKey[s], None} :
       referral' = [t \in DOMAIN referral \cup {s} |->
                      IF t = s THEN [status |-> "CAPTURED", account |-> None, key |-> key]
                      ELSE referral[t]]
  /\ UNCHANGED <<benefit, paid, event, walletBy, work, jobs>>
  /\ UnchangedPeople /\ UnchangedWorld

Overdue(s) ==
  /\ s \in DOMAIN referral \ overdue
  /\ overdue' = overdue \cup {s}
  /\ UNCHANGED <<agreed, walletBy, work, jobs>> /\ UnchangedRows /\ UnchangedPeople

-----------------------------------------------------------------------------
(* Registration                                                             *)

(* resolvePendingSession: the row is read, and written in a second statement *)
Login(w, a, s) ==
  /\ s \in DOMAIN referral
  /\ Take(w, [Idle EXCEPT !.account = a,
                !.session = IF referral[s].status = "CAPTURED" THEN s ELSE None,
                !.pc = IF referral[s].status = "CAPTURED" /\ s \in overdue
                       THEN "expire" ELSE "register"])
  /\ UNCHANGED walletBy /\ UnchangedRows /\ UnchangedPeople /\ UnchangedWorld

ExpireSession(w) ==
  /\ Doing(w, "expire")
  /\ SetStatus(work[w].session, "EXPIRED")
  /\ Job(w, [work[w] EXCEPT !.pc = "register", !.session = None])
  /\ UNCHANGED <<benefit, paid, event, walletBy, jobs>> /\ UnchangedPeople /\ UnchangedWorld

\* Mutant: the row is taken whatever became of it since it was read.
FreeAsRead(s) == s # None

(* claimCapturedForAccount: the condition of its UPDATE *)
Free(s) == s # None /\ referral[s].status = "CAPTURED"

(* findOrCreateByIdentity's transaction with attachToNewAccount in it.  The  *)
(* account may be there by now (P2002): the referral is left alone.          *)
Register(w) ==
  LET a == work[w].account
      s == work[w].session
  IN /\ Doing(w, "register")
     /\ IF a \in registered
        THEN Finish(w, TRUE) /\ UNCHANGED <<referral, benefit, registered>>
        ELSE /\ registered' = registered \cup {a}
             /\ Goto(w, "link") /\ UNCHANGED walletBy
             /\ IF Free(s)
                THEN /\ referral' = [referral EXCEPT ![s].status = "PENDING", ![s].account = a]
                     /\ benefit' = IF ~Legacy THEN benefit
                                   ELSE [b \in DOMAIN benefit \cup {a} |->
                                           IF b = a THEN [session |-> s, status |-> "PENDING"]
                                           ELSE benefit[b]]
                     /\ event' = [event EXCEPT ![s] = IF @ = "NONE" THEN "PENDING" ELSE @]
                ELSE UNCHANGED <<referral, benefit, event>>
     /\ UNCHANGED <<paid, linked, jobs>> /\ UnchangedWorld

(* tryLinkCommonUser: the hub answers or it does not. *)
LinkCommonUser(w) ==
  /\ Doing(w, "link")
  /\ \/ linked' = linked \cup {work[w].account} /\ Goto(w, "read") /\ UNCHANGED <<walletBy, event>>
     \/ Finish(w, TRUE) /\ UNCHANGED linked
  /\ UNCHANGED <<referral, benefit, paid, registered, jobs>> /\ UnchangedWorld

(* The administrator resolves the account with the hub again. *)
LinkAgain(w, a) ==
  /\ a \in registered
  /\ Take(w, [Idle EXCEPT !.pc = "link", !.account = a])
  /\ UNCHANGED walletBy /\ UnchangedRows /\ UnchangedPeople /\ UnchangedWorld

(* common_user.resolved: nothing is asked of the agency. *)
LinkedLater(a) ==
  /\ a \in registered \ linked
  /\ linked' = linked \cup {a}
  /\ UNCHANGED <<registered, walletBy, work, jobs>> /\ UnchangedRows /\ UnchangedWorld

-----------------------------------------------------------------------------
(* The agency's answer                                                      *)

(* AgencyReferralOutboxHandler.send, which throws and is tried again while    *)
(* the account is not linked.  A manual retry may have a row sent twice at   *)
(* once.                                                                     *)
Send(w, s) ==
  LET a == referral[s].account
  IN /\ event[s] = "PENDING"
     /\ \/ /\ a # None /\ referral[s].status = "PENDING" /\ a \in linked
           /\ Take(w, [Idle EXCEPT !.pc = "read", !.account = a, !.told = s])
           /\ UNCHANGED event
        \/ /\ a = None \/ referral[s].status # "PENDING"
           /\ Doing(w, "idle")
           /\ event' = [event EXCEPT ![s] = "SENT"]
           /\ UNCHANGED <<work, jobs>>
     /\ UNCHANGED <<referral, benefit, paid, walletBy>> /\ UnchangedPeople /\ UnchangedWorld

(* attemptConfirm *)
ReadReferral(w) ==
  LET a == work[w].account
  IN /\ Doing(w, "read")
     /\ IF \E s \in Has(a) : referral[s].status = "PENDING" /\ referral[s].key # None
        THEN /\ Job(w, [work[w] EXCEPT !.pc = "ask", !.session = Of(a)])
             /\ UNCHANGED <<walletBy, event>>
        ELSE Finish(w, TRUE)
     /\ UNCHANGED <<referral, benefit, paid, jobs>> /\ UnchangedPeople /\ UnchangedWorld

\* Mutant: a call that failed is taken for a confirmation.
AgreesGuessed(answer) == answer # "rejected"

Agrees(answer) == answer = "confirmed"

AskAgency(w) ==
  LET s == work[w].session
  IN /\ Doing(w, "ask")
     /\ \E answer \in {"confirmed", "rejected", "call_failed"} :
          /\ agreed' = IF answer = "confirmed" THEN agreed \cup {referral[s].key, work[w].account} ELSE agreed
          /\ IF Agrees(answer) THEN Goto(w, "find") /\ UNCHANGED <<walletBy, event>>
             ELSE IF answer = "rejected" THEN Goto(w, "reject") /\ UNCHANGED <<walletBy, event>>
             ELSE Finish(w, FALSE)
     /\ UNCHANGED <<referral, benefit, paid, overdue, jobs>> /\ UnchangedPeople

(* RejectReferralUseCase asks the row attemptConfirm read, and writes.       *)
Reject(w) ==
  /\ Doing(w, "reject")
  /\ SetStatus(work[w].session, "REJECTED")
  /\ Finish(w, TRUE)
  /\ UNCHANGED <<benefit, paid, jobs>> /\ UnchangedPeople /\ UnchangedWorld

(* referral.confirmed, which names a session key, a person or both *)
AgencyEvent(w, key, a) ==
  /\ key # None \/ a # None
  /\ Take(w, [Idle EXCEPT !.pc = "find", !.key = key, !.account = a])
  /\ agreed' = agreed \cup ({key, a} \ {None})
  /\ UNCHANGED <<overdue, walletBy>> /\ UnchangedRows /\ UnchangedPeople

(* The rows confirmBenefitFromEvent looks at: the account's own if the call  *)
(* knows the account, else any one with the key, else the linked person's.   *)
Found(w) ==
  LET job == work[w]
      byKey == {s \in DOMAIN referral : job.key # None /\ referral[s].key = job.key}
      fromEvent == job.session = None
  IN IF ~fromEvent THEN Has(job.account)
     ELSE IF byKey # {} THEN byKey
     ELSE IF job.account \in linked THEN Has(job.account) ELSE {}

Find(w) ==
  /\ Doing(w, "find")
  /\ \/ Found(w) = {} /\ Finish(w, TRUE)
     \/ \E s \in Found(w) :
          IF referral[s].status = "PENDING"
          THEN /\ Job(w, [work[w] EXCEPT !.pc = "lock", !.session = s,
                                         !.account = referral[s].account])
               /\ UNCHANGED <<walletBy, event>>
          ELSE Finish(w, TRUE)
  /\ UNCHANGED <<referral, benefit, paid, jobs>> /\ UnchangedPeople /\ UnchangedWorld

\* Mutant: the wallet is not locked.
WalletFreeUnlocked(a) == TRUE

WalletFree(a) == walletBy[a] = None

(* lockWallet, then the row, the benefit and the credit again *)
LockWallet(w) ==
  LET a == work[w].account
      s == work[w].session
      waiting == /\ referral[s].status = "PENDING" /\ referral[s].account # None
                 /\ a \in DOMAIN benefit /\ benefit[a].status = "PENDING"
  IN /\ Doing(w, "lock")
     /\ WalletFree(a)
     /\ IF waiting
        THEN /\ walletBy' = [walletBy EXCEPT ![a] = w]
             /\ Job(w, [work[w] EXCEPT !.pc = "pay", !.saw = a \in DOMAIN paid])
             /\ UNCHANGED event
        ELSE Finish(w, TRUE)
     /\ UNCHANGED <<referral, benefit, paid, jobs>> /\ UnchangedPeople /\ UnchangedWorld

(* The credit, the benefit and the row, in one commit.  A credit that was    *)
(* seen to be there is taken over when it is this row's too; one that is     *)
(* there unseen fails the INSERT, and all is rolled back.                    *)
Pay(w) ==
  LET a == work[w].account
      s == work[w].session
      collides == ~work[w].saw /\ a \in DOMAIN paid
      another == work[w].saw /\ paid[a] # s
  IN /\ Doing(w, "pay")
     /\ IF collides \/ another THEN UNCHANGED <<paid, benefit, referral>>
        ELSE /\ paid' = [b \in DOMAIN paid \cup {a} |-> IF b \in DOMAIN paid THEN paid[b] ELSE s]
             /\ benefit' = [benefit EXCEPT ![a].status = "CONFIRMED"]
             /\ SetStatus(s, "CONFIRMED")
     /\ Finish(w, ~collides)
     /\ UNCHANGED jobs /\ UnchangedPeople /\ UnchangedWorld

(* The process dies, or the wallet is not ACTIVE and the credit throws. *)
Abort(w) ==
  /\ ~Doing(w, "idle")
  /\ Finish(w, FALSE)
  /\ UNCHANGED <<referral, benefit, paid, jobs>> /\ UnchangedPeople /\ UnchangedWorld

-----------------------------------------------------------------------------
(* attachManually: everything is asked before the transaction. *)
AttachManually(w, s, a) ==
  /\ s \in DOMAIN referral /\ a \in registered
  /\ referral[s].account = None /\ referral[s].status = "CAPTURED" /\ referral[s].key # None
  /\ Has(a) = {}
  /\ Take(w, [Idle EXCEPT !.pc = "attach", !.session = s, !.account = a])
  /\ UNCHANGED walletBy /\ UnchangedRows /\ UnchangedPeople /\ UnchangedWorld

(* Its UPDATE has no condition; the unique index lets an account have one    *)
(* row only.  The enqueue keeps an event that is there.                      *)
CommitAttach(w) ==
  LET a == work[w].account
      s == work[w].session
  IN /\ Doing(w, "attach")
     /\ Has(a) \subseteq {s}
     /\ referral' = [referral EXCEPT ![s].status = "PENDING", ![s].account = a]
     /\ event' = [event EXCEPT ![s] = IF @ = "NONE" THEN "PENDING" ELSE @]
     /\ Job(w, Idle)
     /\ UNCHANGED <<benefit, paid, walletBy, jobs>> /\ UnchangedPeople /\ UnchangedWorld

Step(w) ==
  \/ ExpireSession(w) \/ Register(w) \/ LinkCommonUser(w)
  \/ ReadReferral(w) \/ AskAgency(w) \/ Reject(w) \/ Find(w)
  \/ LockWallet(w) \/ Pay(w) \/ CommitAttach(w) \/ Abort(w)

Next ==
  \/ \E s \in Sessions : Visit(s) \/ Overdue(s)
  \/ \E a \in Accounts : LinkedLater(a)
  \/ \E w \in Workers :
       \/ Step(w)
       \/ \E a \in Accounts, s \in Sessions : Login(w, a, s) \/ AttachManually(w, s, a)
       \/ \E a \in Accounts : LinkAgain(w, a)
       \/ \E s \in DOMAIN referral : Send(w, s)
       \/ \E key \in Keys \cup {None}, a \in Accounts \cup {None} : AgencyEvent(w, key, a)

Spec == Init /\ [][Next]_vars

-----------------------------------------------------------------------------
(* Properties                                                               *)

TypeOK ==
  /\ DOMAIN referral \subseteq Sessions
  /\ referral \in [DOMAIN referral -> [status : Statuses, account : Accounts \cup {None},
                                       key : Keys \cup {None}]]
  /\ overdue \subseteq DOMAIN referral
  /\ registered \subseteq Accounts /\ linked \subseteq registered
  /\ DOMAIN benefit \subseteq registered
  /\ benefit \in [DOMAIN benefit -> [session : DOMAIN referral, status : {"PENDING", "CONFIRMED"}]]
  /\ DOMAIN paid \subseteq DOMAIN benefit /\ paid \in [DOMAIN paid -> DOMAIN referral]
  /\ event \in [Sessions -> {"NONE", "PENDING", "SENT"}]
  /\ agreed \subseteq Keys \cup Accounts
  /\ walletBy \in [Accounts -> Workers \cup {None}]
  /\ work \in [Workers -> [pc : Phases, session : Sessions \cup {None}, account : Accounts \cup {None},
                           key : Keys \cup {None}, saw : BOOLEAN, told : Sessions \cup {None}]]
  /\ jobs \in 0..MaxJobs

\* One visit brings at most one sign-up bonus, however many registrations came
\* with its cookie at once and whatever was done to its row since.
OneBonusPerVisit ==
  \A a, b \in DOMAIN benefit : benefit[a].session = benefit[b].session => a = b

\* Nothing is paid before the agency has said so of the visit or the person: a
\* timeout or a refusal is never taken for a yes.
PaidAsAgreed ==
  \A a \in DOMAIN paid : a \in agreed \/ referral[paid[a]].key \in agreed

\* The login, the worker and the event may confirm at once: the wallet's lock
\* lets the later find the work done, none of them fails on the credit's key.
ConfirmNeverCollides ==
  \A w \in Workers :
    Doing(w, "pay") => (work[w].saw <=> work[w].account \in DOMAIN paid)

\* "No way leads out of a terminal state" (referral-state-machine.ts and
\* admin-wallet-referrals.service.ts).
TerminalIsFinal ==
  [][\A s \in DOMAIN referral :
       referral[s].status \in {"CONFIRMED", "REJECTED", "EXPIRED"}
         => referral'[s].status = referral[s].status]_vars

\* The agency confirms a key and a person: when that person's own referral
\* carries the key, nobody else's is confirmed (confirm-referral.use-case.ts and
\* referral.repository.ts: a session key is ambiguous and comes last).
EventConfirmsItsPerson ==
  [][\A w \in Workers :
       LET job == work[w]
       IN (/\ Doing(w, "find") /\ job.session = None /\ job.account \in linked
           /\ \E s \in Has(job.account) : referral[s].key = job.key
           /\ work'[w].pc = "lock") => work'[w].account = job.account]_vars

\* The event is not SENT with the agency's yes left undone: "CONFIRMED once the
\* agency agrees", for the rows attached by hand too (docs/agency-referral.md).
AgreedIsConfirmed ==
  [][\A w \in Workers, s \in DOMAIN referral :
       (/\ work[w].pc \in {"lock", "pay"} /\ work[w].told = s
        /\ event[s] = "PENDING" /\ event'[s] = "SENT" /\ work'[w].pc = "idle")
         => referral'[s].status # "PENDING"]_vars

=============================================================================
