---------------------------- MODULE Bonuses_proofs ----------------------------
(***************************************************************************)
(* Theorems about the bonuses.  DailyBonus, for any number of claims at once, *)
(* any schedule and any number of days: a streak is of days claimed and paid. *)
(* Referrals, for any visits, people and workers: a visit brings one bonus,   *)
(* as the agency agreed, and confirmations at once do not collide.           *)
(***************************************************************************)
EXTENDS DailyBonus, Referrals, FiniteSetTheorems, TLAPS

(* Days of a streak of n that ends the day before d, each claimed and paid *)
Earned(d, n) == (d - n + 1) .. (d - 1) \subseteq DOMAIN rows \cap DOMAIN credits

ClaimPhases == {"start", "read", "credit", "row"}

\* Dates and streaks are numbers, and a streak is of a day at least.
DatesOK ==
  /\ day \in Nat
  /\ DOMAIN rows \subseteq Nat
  /\ \A d \in DOMAIN rows : rows[d].streak \in Nat \ {0}
  /\ at \in [Claims -> ClaimPhases]
  /\ today \in [Claims -> Nat]
  /\ streak \in [Claims -> Nat \ {0}]

\* A call that has worked out its streak found the days before it, and they stay.
WorkedOut ==
  \A c \in Claims : at[c] \in {"credit", "row"} => Earned(today[c], streak[c])

\* A call that writes its row has seen to the credit.
CreditFirst == \A c \in Claims : at[c] = "row" => today[c] \in DOMAIN credits

(* The inductive invariant *)
IInv ==
  /\ DatesOK
  /\ WorkedOut
  /\ CreditFirst
  /\ StreakIsEarned

-----------------------------------------------------------------------------
LEMMA InitInv == BonusInit => IInv
  <1> SUFFICES ASSUME BonusInit PROVE IInv
    OBVIOUS
  <1>1. DOMAIN rows = {} /\ \A c \in Claims : at[c] = "start"
    BY DEF BonusInit
  <1>2. DatesOK
    BY <1>1 DEF BonusInit, DatesOK, ClaimPhases
  <1>3. WorkedOut /\ CreditFirst /\ StreakIsEarned
    BY <1>1 DEF WorkedOut, CreditFirst, StreakIsEarned
  <1>4. QED
    BY <1>2, <1>3 DEF IInv

(* Rows and credits are only added: what was earned stays earned. *)
LEMMA EarnedStays ==
  ASSUME DOMAIN rows \subseteq DOMAIN rows', DOMAIN credits \subseteq DOMAIN credits',
         NEW d, NEW n, Earned(d, n)
  PROVE  Earned(d, n)'
  BY DEF Earned

(* A streak of one day is earned by nobody's leave. *)
LEMMA FirstDay == ASSUME NEW d \in Nat PROVE Earned(d, 1)
  BY DEF Earned

(* The streak of the day before, and that day, make one more. *)
LEMMA NextDay ==
  ASSUME NEW d \in Nat, d \in DOMAIN rows, rows[d].streak \in Nat \ {0}, StreakIsEarned
  PROVE  Earned(d + 1, rows[d].streak + 1)
  <1>1. (d - rows[d].streak + 1) .. d \subseteq DOMAIN rows \cap DOMAIN credits
    BY DEF StreakIsEarned
  <1>2. /\ (d + 1) - (rows[d].streak + 1) + 1 = d - rows[d].streak + 1
        /\ (d + 1) - 1 = d
    OBVIOUS
  <1>3. QED
    BY <1>1, <1>2 DEF Earned

(* A call over is one that has worked out nothing. *)
LEMMA OverPreserves ==
  ASSUME IInv, NEW c \in Claims, Over(c), UNCHANGED <<day, credits, rows>>
  PROVE  IInv'
  <1>1. /\ at' \in [Claims -> ClaimPhases] /\ today' \in [Claims -> Nat]
        /\ streak' \in [Claims -> Nat \ {0}]
        /\ at'[c] = "start"
        /\ \A d \in Claims : d # c => /\ at'[d] = at[d] /\ today'[d] = today[d]
                                      /\ streak'[d] = streak[d]
    BY DEF IInv, DatesOK, ClaimPhases, Over, Proceed
  <1>2. DatesOK' /\ CreditFirst' /\ StreakIsEarned'
    BY <1>1 DEF IInv, DatesOK, CreditFirst, StreakIsEarned
  <1>3. WorkedOut'
    BY <1>1 DEF IInv, WorkedOut, Earned
  <1>4. QED
    BY <1>2, <1>3 DEF IInv

LEMMA AskPreserves == ASSUME IInv, NEW c \in Claims, Ask(c) PROVE IInv'
  <1>1. /\ at' \in [Claims -> ClaimPhases] /\ today' \in [Claims -> Nat]
        /\ at'[c] = "read" /\ UNCHANGED <<day, credits, rows, streak>>
        /\ \A d \in Claims : d # c => at'[d] = at[d] /\ today'[d] = today[d]
    BY DEF Ask, Proceed, IInv, DatesOK, ClaimPhases
  <1>2. DatesOK' /\ CreditFirst' /\ StreakIsEarned'
    BY <1>1 DEF IInv, DatesOK, CreditFirst, StreakIsEarned
  <1>3. WorkedOut'
    BY <1>1 DEF IInv, WorkedOut, Earned
  <1>4. QED
    BY <1>2, <1>3 DEF IInv

LEMMA ReadLatestPreserves == ASSUME IInv, NEW c \in Claims, ReadLatest(c) PROVE IInv'
  <1>1. PICK n \in Nat \ {0} : streak' = [streak EXCEPT ![c] = n] /\ Earned(today[c], n)
    <2>1. today[c] \in Nat
      BY DEF IInv, DatesOK
    <2>2. ASSUME streak' = [streak EXCEPT ![c] = 1]
          PROVE  \E n \in Nat \ {0} : streak' = [streak EXCEPT ![c] = n] /\ Earned(today[c], n)
      <3>1. Earned(today[c], 1) /\ 1 \in Nat \ {0}
        BY <2>1, FirstDay
      <3>2. QED
        BY <2>2, <3>1
    <2>3. ASSUME NEW d \in DOMAIN rows, isNextDay(d, today[c]),
                 streak' = [streak EXCEPT ![c] = rows[d].streak + 1]
          PROVE  \E n \in Nat \ {0} : streak' = [streak EXCEPT ![c] = n] /\ Earned(today[c], n)
      <3>1. d \in Nat /\ rows[d].streak \in Nat \ {0} /\ today[c] = d + 1
        BY <2>3 DEF IInv, DatesOK, isNextDay
      <3>2. Earned(today[c], rows[d].streak + 1)
        BY <3>1, NextDay DEF IInv
      <3>3. rows[d].streak + 1 \in Nat \ {0}
        BY <3>1
      <3>4. QED
        BY <2>3, <3>2, <3>3
    <2>4. ASSUME NEW d \in DOMAIN rows,
                 streak' = [streak EXCEPT ![c] =
                             IF isNextDay(d, today[c]) THEN rows[d].streak + 1 ELSE 1]
          PROVE  \E n \in Nat \ {0} : streak' = [streak EXCEPT ![c] = n] /\ Earned(today[c], n)
      <3> DEFINE n == IF isNextDay(d, today[c]) THEN rows[d].streak + 1 ELSE 1
      <3>0. streak' = [streak EXCEPT ![c] = n]
        BY <2>4
      <3>1. CASE isNextDay(d, today[c])
        <4>1. n = rows[d].streak + 1
          BY <3>1
        <4> HIDE DEF n
        <4>2. QED
          BY <2>3, <3>0, <3>1, <4>1
      <3>2. CASE ~isNextDay(d, today[c])
        <4>1. n = 1
          BY <3>2
        <4> HIDE DEF n
        <4>2. QED
          BY <2>2, <3>0, <4>1
      <3>3. QED
        BY <3>1, <3>2
    <2>5. QED
      BY <2>2, <2>4 DEF ReadLatest
  <1>2. /\ at' \in [Claims -> ClaimPhases] /\ at'[c] = "credit"
        /\ \A d \in Claims : d # c => at'[d] = at[d]
        /\ UNCHANGED <<day, credits, rows, today>>
    BY DEF ReadLatest, Proceed, IInv, DatesOK, ClaimPhases
  <1>3. /\ streak' \in [Claims -> Nat \ {0}] /\ streak'[c] = n
        /\ \A d \in Claims : d # c => streak'[d] = streak[d]
    BY <1>1 DEF IInv, DatesOK
  <1>4. DatesOK' /\ CreditFirst' /\ StreakIsEarned'
    BY <1>2, <1>3 DEF IInv, DatesOK, CreditFirst, StreakIsEarned
  <1>5. WorkedOut'
    BY <1>1, <1>2, <1>3 DEF IInv, WorkedOut, Earned
  <1>6. QED
    BY <1>4, <1>5 DEF IInv

LEMMA CreditPreserves == ASSUME IInv, NEW c \in Claims, Credit(c) PROVE IInv'
  <1>1. /\ at' \in [Claims -> ClaimPhases] /\ at[c] = "credit" /\ at'[c] = "row"
        /\ \A d \in Claims : d # c => at'[d] = at[d]
        /\ UNCHANGED <<day, rows, today, streak>>
    BY DEF Credit, Proceed, IInv, DatesOK, ClaimPhases
  <1>2. DOMAIN credits' = DOMAIN credits \cup {today[c]}
    BY DEF Credit
  <1>3. DatesOK' /\ CreditFirst'
    BY <1>1, <1>2 DEF IInv, DatesOK, CreditFirst
  <1>4. WorkedOut'
    BY <1>1, <1>2 DEF IInv, WorkedOut, Earned
  <1>5. StreakIsEarned'
    BY <1>1, <1>2 DEF IInv, StreakIsEarned
  <1>6. QED
    BY <1>3, <1>4, <1>5 DEF IInv

LEMMA WriteRowPreserves == ASSUME IInv, NEW c \in Claims, WriteRow(c) PROVE IInv'
  <1> DEFINE t == today[c]
  <1>1. /\ at[c] = "row" /\ Over(c) /\ UNCHANGED <<day, credits>>
        /\ t \in Nat /\ streak[c] \in Nat \ {0}
    BY DEF WriteRow, IInv, DatesOK
  <1>2. CASE t \in DOMAIN rows
    BY <1>1, <1>2, OverPreserves DEF WriteRow
  <1>3. CASE t \notin DOMAIN rows
    <2>1. /\ DOMAIN rows' = DOMAIN rows \cup {t}
          /\ rows'[t].streak = streak[c]
          /\ \A d \in DOMAIN rows : rows'[d] = rows[d]
      BY <1>3 DEF WriteRow
    <2>2. /\ at' \in [Claims -> ClaimPhases] /\ today' \in [Claims -> Nat]
          /\ streak' \in [Claims -> Nat \ {0}]
          /\ at'[c] = "start"
          /\ \A d \in Claims : d # c => /\ at'[d] = at[d] /\ today'[d] = today[d]
                                        /\ streak'[d] = streak[d]
      BY <1>1 DEF IInv, DatesOK, ClaimPhases, Over, Proceed
    <2>3. DatesOK' /\ CreditFirst'
      BY <1>1, <2>1, <2>2 DEF IInv, DatesOK, CreditFirst
    <2>4. WorkedOut'
      BY <1>1, <2>1, <2>2 DEF IInv, WorkedOut, Earned
    <2>5. StreakIsEarned'
      <3> SUFFICES ASSUME NEW d \in DOMAIN rows'
                   PROVE  (d - rows'[d].streak + 1) .. d \subseteq DOMAIN rows' \cap DOMAIN credits'
        BY DEF StreakIsEarned
      <3>1. CASE d \in DOMAIN rows
        BY <3>1, <1>1, <2>1 DEF IInv, StreakIsEarned
      <3>2. CASE d = t
        <4>1. (t - streak[c] + 1) .. (t - 1) \subseteq DOMAIN rows \cap DOMAIN credits
          BY <1>1 DEF IInv, WorkedOut, Earned
        <4>2. t \in DOMAIN credits
          BY <1>1 DEF IInv, CreditFirst
        <4>3. \A e \in (t - streak[c] + 1) .. t : e \in (t - streak[c] + 1) .. (t - 1) \/ e = t
          BY <1>1
        <4> HIDE DEF t
        <4>4. QED
          BY <4>1, <4>2, <4>3, <3>2, <1>1, <2>1
      <3>3. QED
        BY <3>1, <3>2, <2>1
    <2>6. QED
      BY <2>3, <2>4, <2>5 DEF IInv
  <1>4. QED
    BY <1>2, <1>3

-----------------------------------------------------------------------------
LEMMA NextPreserves == IInv /\ [BonusNext]_bonusVars => IInv'
  <1> SUFFICES ASSUME IInv, [BonusNext]_bonusVars PROVE IInv'
    OBVIOUS
  <1>1. CASE UNCHANGED bonusVars
    BY <1>1 DEF bonusVars, IInv, DatesOK, WorkedOut, Earned, CreditFirst, StreakIsEarned
  <1>2. ASSUME NEW c \in Claims, Claim(c) PROVE IInv'
    <2>1. CASE Refuse(c) \/ BreakOff(c)
      BY <2>1, OverPreserves DEF Refuse, BreakOff
    <2>2. CASE ~(Refuse(c) \/ BreakOff(c))
      BY <1>2, <2>2, AskPreserves, ReadLatestPreserves, CreditPreserves, WriteRowPreserves DEF Claim
    <2>3. QED
      BY <2>1, <2>2
  <1>3. CASE Midnight
    BY <1>3
       DEF Midnight, IInv, DatesOK, WorkedOut, Earned, CreditFirst, StreakIsEarned
  <1>4. QED
    BY <1>1, <1>2, <1>3 DEF BonusNext

(* No interleaving of claims, no crash between the credit and the row and no  *)
(* midnight between the date and either earns a streak whose days were not    *)
(* all claimed and credited (claim, daily-bonus.service.ts:80).              *)
THEOREM Earning == BonusSpec => []StreakIsEarned
  <1>1. BonusSpec => []IInv
    BY InitInv, NextPreserves, PTL DEF BonusSpec
  <1>2. IInv => StreakIsEarned
    BY DEF IInv
  <1>3. QED
    BY <1>1, <1>2, PTL

-----------------------------------------------------------------------------
(* Referrals, for any visits, people, keys and workers.  A row that has      *)
(* brought a bonus is CAPTURED no more, so no other registration takes it;   *)
(* what a job is about to pay for, the agency has agreed to, of the key,     *)
(* which never changes, or of the person.                                    *)

JobType ==
  [pc : Phases, session : Sessions \cup {None}, account : Accounts \cup {None},
   key : Keys \cup {None}, saw : BOOLEAN, told : Sessions \cup {None}]

\* What a job is about is there, and what it confirms was agreed to.
JobNamed(job) ==
  /\ job.pc = "expire" => job.session \in DOMAIN referral /\ job.account \in Accounts
  /\ job.pc = "register" =>
       job.session \in DOMAIN referral \cup {None} /\ job.account \in Accounts
  /\ job.pc \in {"link", "read"} => job.account \in registered
  /\ job.pc \in {"ask", "reject"} =>
       /\ job.session \in DOMAIN referral /\ job.account \in registered
       /\ referral[job.session].key # None
  /\ job.pc = "find" /\ job.session = None =>
       {job.key, job.account} \ {None} \subseteq agreed
  /\ job.pc = "find" /\ job.session # None => job.account \in agreed
  /\ job.pc \in {"lock", "pay"} =>
       /\ job.session \in DOMAIN referral /\ job.account \in Accounts
       /\ job.account \in agreed \/ referral[job.session].key \in agreed
  /\ job.pc = "attach" => job.session \in DOMAIN referral /\ job.account \in registered

JobsNamed == \A w \in Workers : JobNamed(work[w])

\* A job that is to pay has the wallet, and knows whether the credit is there.
PaysHeld ==
  \A w \in Workers :
    work[w].pc = "pay" =>
      /\ walletBy[work[w].account] = w
      /\ work[w].account \in DOMAIN benefit
      /\ work[w].saw <=> work[w].account \in DOMAIN paid

\* A row that waits has its person, who has no other; one with a benefit is taken for
\* good.
RowsTaken ==
  /\ \A s \in DOMAIN referral : referral[s].account \in registered \cup {None}
  /\ \A s, t \in DOMAIN referral :
       referral[s].account = referral[t].account /\ referral[s].account # None => s = t
  /\ \A s \in DOMAIN referral : referral[s].status = "PENDING" => referral[s].account # None
  /\ \A a \in DOMAIN benefit : referral[benefit[a].session].status # "CAPTURED"

ReferralsInv ==
  /\ TypeOK
  /\ JobsNamed
  /\ PaysHeld
  /\ RowsTaken
  /\ OneBonusPerVisit
  /\ PaidAsAgreed

LEMMA IdleIsAJob == Idle \in JobType /\ Idle.pc = "idle"
BY DEF Idle, JobType, Phases

LEMMA HalfwayRows ==
  ASSUME Init, NEW s \in HalfwaySessions
  PROVE  /\ s \in Sessions
         /\ referral[s].status = "PENDING" /\ referral[s].key = LinkKey[s]
         /\ referral[s].account \in DOMAIN Halfway
         /\ referral[s] \in [status : Statuses, account : Accounts \cup {None}, key : Keys \cup {None}]
<1>1. PICK a \in DOMAIN Halfway : Halfway[a] = s
  BY DEF HalfwaySessions
<1>2. (CHOOSE b \in DOMAIN Halfway : Halfway[b] = s) \in DOMAIN Halfway
  BY <1>1
<1>3. referral[s] = [status |-> "PENDING", key |-> LinkKey[s],
                     account |-> CHOOSE b \in DOMAIN Halfway : Halfway[b] = s]
  BY DEF Init
<1>4. s \in Sessions /\ DOMAIN Halfway \subseteq Accounts
  BY <1>1, HalfwayAssumption
<1>5. LinkKey[s] \in Keys
  BY <1>4, LinkKeyAssumption
<1> QED BY <1>2, <1>3, <1>4, <1>5 DEF Statuses

LEMMA ReferralsInvInit == Init => ReferralsInv
<1> SUFFICES ASSUME Init
             PROVE  ReferralsInv
  OBVIOUS
<1>1. DOMAIN referral = HalfwaySessions /\ referral = [s \in HalfwaySessions |-> referral[s]]
  BY DEF Init
<1>2. DOMAIN benefit = DOMAIN Halfway /\ \A a \in DOMAIN Halfway :
        benefit[a].session = Halfway[a] /\ benefit[a] \in [session : DOMAIN referral, status : {"PENDING", "CONFIRMED"}]
  BY <1>1 DEF Init, HalfwaySessions
<1>3. benefit = [a \in DOMAIN Halfway |-> benefit[a]]
  BY DEF Init
<1>4. paid = Halfway /\ agreed = DOMAIN Halfway /\ DOMAIN Halfway \subseteq registered
      /\ registered \subseteq Accounts /\ linked \subseteq registered /\ overdue = {} /\ jobs = 0
  BY DEF Init
<1>5. Halfway \in [DOMAIN Halfway -> HalfwaySessions]
  BY HalfwayAssumption DEF HalfwaySessions
<1>6. TypeOK
  <2>1. referral \in [DOMAIN referral -> [status : Statuses, account : Accounts \cup {None},
                                          key : Keys \cup {None}]]
    BY <1>1, HalfwayRows
  <2>2. DOMAIN referral \subseteq Sessions
    BY <1>1, HalfwayRows
  <2>3. benefit \in [DOMAIN benefit -> [session : DOMAIN referral, status : {"PENDING", "CONFIRMED"}]]
    BY <1>2, <1>3
  <2>4. event \in [Sessions -> {"NONE", "PENDING", "SENT"}] /\ walletBy \in [Accounts -> Workers \cup {None}]
    BY DEF Init
  <2>5. work \in [Workers -> JobType]
    BY IdleIsAJob DEF Init
  <2>6. jobs \in 0..MaxJobs
    BY <1>4, MaxJobsAssumption
  <2> QED BY <1>1, <1>2, <1>4, <1>5, <2>1, <2>2, <2>3, <2>4, <2>5, <2>6, HalfwayAssumption DEF TypeOK, JobType
<1>7. JobsNamed /\ PaysHeld
  <2>1. \A w \in Workers : work[w] = Idle
    BY DEF Init
  <2> QED BY <2>1, IdleIsAJob DEF JobsNamed, JobNamed, PaysHeld
<1>8. RowsTaken
  <2>1. \A s \in HalfwaySessions :
          referral[s].account \in DOMAIN Halfway /\ Halfway[referral[s].account] = s
    BY DEF Init, HalfwaySessions
  <2>2. \A s \in HalfwaySessions : referral[s].status = "PENDING" /\ referral[s].account # None
    BY HalfwayRows, HalfwayAssumption, NoneAssumption
  <2> QED BY <1>1, <1>2, <1>4, <1>5, <2>1, <2>2 DEF RowsTaken
<1>9. OneBonusPerVisit
  BY <1>2, HalfwayAssumption DEF OneBonusPerVisit
<1>10. PaidAsAgreed
  BY <1>4 DEF PaidAsAgreed
<1> QED BY <1>6, <1>7, <1>8, <1>9, <1>10 DEF ReferralsInv

-----------------------------------------------------------------------------
(* What a worker's step leaves of the others.                                *)

LEMMA Working ==
  ASSUME ReferralsInv, NEW w \in Workers, NEW job \in JobType,
         work' = [work EXCEPT ![w] = job], JobNamed(job)',
         DOMAIN referral \subseteq DOMAIN referral',
         \A s \in DOMAIN referral : referral'[s].key = referral[s].key,
         registered \subseteq registered', agreed \subseteq agreed'
  PROVE  /\ work' \in [Workers -> JobType]
         /\ work'[w] = job
         /\ \A v \in Workers \ {w} : work'[v] = work[v]
         /\ JobsNamed'
<1>1. work \in [Workers -> JobType]
  BY DEF ReferralsInv, TypeOK, JobType
<1>2. work' \in [Workers -> JobType] /\ work'[w] = job /\ \A v \in Workers \ {w} : work'[v] = work[v]
  BY <1>1
<1>3. ASSUME NEW v \in Workers
      PROVE  JobNamed(work[v])'
  <2>1. CASE v = w
    BY <1>2, <2>1
  <2>2. CASE v # w
    <3>1. work'[v] = work[v] /\ JobNamed(work[v])
      BY <1>2, <2>2 DEF ReferralsInv, JobsNamed
    <3> QED BY <3>1 DEF JobNamed
  <2> QED BY <2>1, <2>2
<1> QED BY <1>2, <1>3 DEF JobsNamed

LEMMA Holding ==
  ASSUME ReferralsInv, NEW w \in Workers, NEW job \in JobType,
         work' = [work EXCEPT ![w] = job], job.pc # "pay",
         \A a \in Accounts : walletBy[a] \notin {w, None} => walletBy'[a] = walletBy[a],
         DOMAIN benefit \subseteq DOMAIN benefit', DOMAIN paid \subseteq DOMAIN paid',
         \A a \in DOMAIN paid' \ DOMAIN paid : walletBy[a] = w
  PROVE  PaysHeld'
<1>1. work \in [Workers -> JobType]
  BY DEF ReferralsInv, TypeOK, JobType
<1>2. work'[w] = job /\ \A v \in Workers \ {w} : work'[v] = work[v]
  BY <1>1
<1> SUFFICES ASSUME NEW v \in Workers, work'[v].pc = "pay"
             PROVE  /\ walletBy'[work'[v].account] = v
                    /\ work'[v].account \in DOMAIN benefit'
                    /\ work'[v].saw <=> work'[v].account \in DOMAIN paid'
  BY DEF PaysHeld
<1>3. v # w /\ work'[v] = work[v] /\ work[v].pc = "pay"
  BY <1>2
<1>4. /\ walletBy[work[v].account] = v
      /\ work[v].account \in DOMAIN benefit
      /\ work[v].saw <=> work[v].account \in DOMAIN paid
  BY <1>3 DEF ReferralsInv, PaysHeld
<1>5. work[v].account \in Accounts
  BY <1>3 DEF ReferralsInv, JobsNamed, JobNamed
<1>6. walletBy'[work[v].account] = v
  BY <1>3, <1>4, <1>5, NoneAssumption
<1>7. work[v].account \notin DOMAIN paid' \ DOMAIN paid
  BY <1>3, <1>4
<1> QED BY <1>3, <1>4, <1>6, <1>7

LEMMA Finishing ==
  ASSUME ReferralsInv, NEW w \in Workers, NEW well, Finish(w, well)
  PROVE  /\ work' = [work EXCEPT ![w] = Idle]
         /\ walletBy' \in [Accounts -> Workers \cup {None}]
         /\ \A a \in Accounts : walletBy[a] \notin {w, None} => walletBy'[a] = walletBy[a]
         /\ event' \in [Sessions -> {"NONE", "PENDING", "SENT"}]
BY DEF Finish, Job, ReferralsInv, TypeOK

\* A job that reads and waits disturbs no row.
LEMMA ReadsAlone ==
  ASSUME ReferralsInv, NEW w \in Workers, NEW job \in JobType,
         work' = [work EXCEPT ![w] = job], JobNamed(job)', job.pc # "pay",
         UNCHANGED <<referral, benefit, paid, registered, overdue>>,
         agreed \subseteq agreed', agreed' \subseteq Keys \cup Accounts,
         linked' \subseteq registered,
         walletBy' \in [Accounts -> Workers \cup {None}],
         \A a \in Accounts : walletBy[a] \notin {w, None} => walletBy'[a] = walletBy[a],
         event' \in [Sessions -> {"NONE", "PENDING", "SENT"}],
         jobs' \in 0..MaxJobs
  PROVE  ReferralsInv'
<1>1. work' \in [Workers -> JobType] /\ JobsNamed'
  BY Working
<1>2. PaysHeld'
  BY Holding
<1>3. TypeOK'
  BY <1>1 DEF ReferralsInv, TypeOK, JobType
<1>4. RowsTaken' /\ OneBonusPerVisit' /\ PaidAsAgreed'
  BY DEF ReferralsInv, RowsTaken, OneBonusPerVisit, PaidAsAgreed
<1> QED BY <1>1, <1>2, <1>3, <1>4 DEF ReferralsInv

LEMMA EndsAlone ==
  ASSUME ReferralsInv, NEW w \in Workers, NEW well, Finish(w, well),
         UNCHANGED <<referral, benefit, paid, registered, overdue, jobs>>,
         agreed \subseteq agreed', agreed' \subseteq Keys \cup Accounts,
         linked' \subseteq registered
  PROVE  ReferralsInv'
<1>1. JobNamed(Idle)'
  BY IdleIsAJob DEF JobNamed, Idle
<1>2. jobs' \in 0..MaxJobs
  BY DEF ReferralsInv, TypeOK
<1> QED BY <1>1, <1>2, IdleIsAJob, Finishing, ReadsAlone

LEMMA Taking ==
  ASSUME ReferralsInv, NEW w \in Workers, NEW job, Take(w, job)
  PROVE  work' = [work EXCEPT ![w] = job] /\ jobs' \in 0..MaxJobs
BY MaxJobsAssumption DEF Take, Job, ReferralsInv, TypeOK

-----------------------------------------------------------------------------
(* The steps that leave the rows alone.                                      *)

LEMMA JobFields ==
  ASSUME ReferralsInv, NEW w \in Workers
  PROVE  /\ work[w] \in JobType
         /\ JobNamed(work[w])
BY DEF ReferralsInv, TypeOK, JobType, JobsNamed

\* A job that goes on to another phase
LEMMA NextPhase ==
  ASSUME ReferralsInv, NEW w \in Workers, NEW phase \in Phases, Goto(w, phase)
  PROVE  \E job \in JobType :
           /\ work' = [work EXCEPT ![w] = job]
           /\ job.pc = phase
           /\ job.session = work[w].session /\ job.account = work[w].account
           /\ job.key = work[w].key /\ job.saw = work[w].saw
<1>1. [work[w] EXCEPT !.pc = phase] \in JobType
  BY JobFields DEF JobType
<1>2. work' = [work EXCEPT ![w] = [work[w] EXCEPT !.pc = phase]]
  BY DEF Goto, ReferralsInv, TypeOK
<1> QED BY <1>1, <1>2, JobFields DEF JobType

LEMMA LoginKeeps ==
  ASSUME ReferralsInv, NEW w \in Workers, NEW a \in Accounts, NEW s \in Sessions, Login(w, a, s)
  PROVE  ReferralsInv'
<1> USE DEF ReferralsInv, TypeOK
<1>1. PICK job : /\ job = [Idle EXCEPT !.account = a,
                             !.session = IF referral[s].status = "CAPTURED" THEN s ELSE None,
                             !.pc = IF referral[s].status = "CAPTURED" /\ s \in overdue
                                    THEN "expire" ELSE "register"]
                 /\ Take(w, job)
  BY DEF Login
<1>2. /\ s \in DOMAIN referral
      /\ UNCHANGED <<referral, benefit, paid, event, registered, linked, overdue, agreed, walletBy>>
  BY DEF Login, UnchangedRows, UnchangedPeople, UnchangedWorld
<1>3. /\ job.account = a /\ job.pc \in {"expire", "register"}
      /\ job.session \in {s, None} /\ (job.pc = "expire" => job.session = s)
  BY <1>1 DEF Idle
<1>4. job \in JobType
  BY <1>1 DEF Idle, JobType, Phases
<1>5. JobNamed(job)'
  BY <1>2, <1>3 DEF JobNamed
<1> QED BY <1>1, <1>2, <1>3, <1>4, <1>5, Taking, ReadsAlone

LEMMA LinkCommonUserKeeps ==
  ASSUME ReferralsInv, NEW w \in Workers, LinkCommonUser(w)
  PROVE  ReferralsInv'
<1> USE DEF ReferralsInv, TypeOK
<1>1. work[w].pc = "link" /\ UNCHANGED <<referral, benefit, paid, registered, jobs, overdue, agreed>>
  BY DEF LinkCommonUser, Doing, UnchangedWorld
<1>2. work[w].account \in registered
  BY <1>1, JobFields DEF JobNamed
<1>3. CASE linked' = linked \cup {work[w].account} /\ Goto(w, "read") /\ UNCHANGED <<walletBy, event>>
  <2>1. PICK job \in JobType :
          work' = [work EXCEPT ![w] = job] /\ job.pc = "read" /\ job.account = work[w].account
    BY <1>3, NextPhase DEF Phases
  <2>2. JobNamed(job)'
    BY <1>1, <1>2, <2>1 DEF JobNamed
  <2> QED BY <1>1, <1>2, <1>3, <2>1, <2>2, ReadsAlone
<1>4. CASE Finish(w, TRUE) /\ UNCHANGED linked
  BY <1>1, <1>4, EndsAlone
<1> QED BY <1>3, <1>4 DEF LinkCommonUser

LEMMA LinkAgainKeeps ==
  ASSUME ReferralsInv, NEW w \in Workers, NEW a \in Accounts, LinkAgain(w, a)
  PROVE  ReferralsInv'
<1> USE DEF ReferralsInv, TypeOK
<1>1. PICK job : job = [Idle EXCEPT !.pc = "link", !.account = a] /\ Take(w, job)
  BY DEF LinkAgain
<1>2. /\ a \in registered
      /\ UNCHANGED <<referral, benefit, paid, event, registered, linked, overdue, agreed, walletBy>>
  BY DEF LinkAgain, UnchangedRows, UnchangedPeople, UnchangedWorld
<1>3. job \in JobType /\ job.pc = "link" /\ job.account = a
  BY <1>1 DEF Idle, JobType, Phases
<1>4. JobNamed(job)'
  BY <1>2, <1>3 DEF JobNamed
<1> QED BY <1>1, <1>2, <1>3, <1>4, Taking, ReadsAlone

LEMMA SendKeeps ==
  ASSUME ReferralsInv, NEW w \in Workers, NEW s \in DOMAIN referral, Send(w, s)
  PROVE  ReferralsInv'
<1> USE DEF ReferralsInv, TypeOK
<1> DEFINE a == referral[s].account
<1>1. UNCHANGED <<referral, benefit, paid, walletBy, registered, linked, overdue, agreed>>
  BY DEF Send, UnchangedPeople, UnchangedWorld
<1>2. CASE /\ a # None /\ a \in linked
           /\ Take(w, [Idle EXCEPT !.pc = "read", !.account = a, !.told = s])
           /\ UNCHANGED event
  <2>1. PICK job : job = [Idle EXCEPT !.pc = "read", !.account = a, !.told = s] /\ Take(w, job)
    BY <1>2
  <2>2. s \in Sessions /\ a \in Accounts /\ a \in registered
    BY <1>2
  <2>3. job \in JobType /\ job.pc = "read" /\ job.account = a
    BY <2>1, <2>2 DEF Idle, JobType, Phases
  <2>4. JobNamed(job)'
    BY <1>1, <2>2, <2>3 DEF JobNamed
  <2> QED BY <1>1, <1>2, <2>1, <2>3, <2>4, Taking, ReadsAlone
<1>3. CASE event' = [event EXCEPT ![s] = "SENT"] /\ UNCHANGED <<work, jobs>>
  <2>1. TypeOK'
    BY <1>1, <1>3
  <2>2. JobsNamed' /\ PaysHeld'
    BY <1>1, <1>3 DEF JobsNamed, JobNamed, PaysHeld
  <2>3. RowsTaken' /\ OneBonusPerVisit' /\ PaidAsAgreed'
    BY <1>1 DEF RowsTaken, OneBonusPerVisit, PaidAsAgreed
  <2> QED BY <2>1, <2>2, <2>3
<1> QED BY <1>2, <1>3 DEF Send

LEMMA OfIsOne ==
  ASSUME NEW a, Has(a) # {}
  PROVE  Of(a) \in DOMAIN referral /\ referral[Of(a)].account = a
BY DEF Of, Has

\* An account has one row at most, so the row read is the one asked about.
LEMMA ReadReferralKeeps ==
  ASSUME ReferralsInv, NEW w \in Workers, ReadReferral(w)
  PROVE  ReferralsInv'
<1> USE DEF ReferralsInv, TypeOK
<1> DEFINE a == work[w].account
<1>1. work[w].pc = "read" /\ UNCHANGED <<referral, benefit, paid, jobs, registered, linked, overdue, agreed>>
  BY DEF ReadReferral, Doing, UnchangedPeople, UnchangedWorld
<1>2. a \in registered
  BY <1>1, JobFields DEF JobNamed
<1>3. CASE /\ \E s \in Has(a) : referral[s].status = "PENDING" /\ referral[s].key # None
           /\ Job(w, [work[w] EXCEPT !.pc = "ask", !.session = Of(a)])
           /\ UNCHANGED <<walletBy, event>>
  <2>1. Of(a) \in DOMAIN referral
    BY <1>3, OfIsOne
  <2>2. a # None /\ (\A s \in Has(a) : s = Of(a)) /\ referral[Of(a)].key # None
    BY <1>2, <1>3, OfIsOne, NoneAssumption DEF RowsTaken, Has
  <2>3. PICK job : job = [work[w] EXCEPT !.pc = "ask", !.session = Of(a)] /\ work' = [work EXCEPT ![w] = job]
    BY <1>3 DEF Job
  <2>4. job \in JobType /\ job.pc = "ask" /\ job.account = a /\ job.session = Of(a)
    BY <2>1, <2>3, JobFields DEF JobType, Phases
  <2>5. JobNamed(job)'
    BY <1>1, <1>2, <2>1, <2>2, <2>4 DEF JobNamed
  <2> QED BY <1>1, <1>3, <2>3, <2>4, <2>5, ReadsAlone
<1>4. CASE Finish(w, TRUE)
  BY <1>1, <1>4, EndsAlone
<1> QED BY <1>3, <1>4 DEF ReadReferral

LEMMA AskAgencyKeeps ==
  ASSUME ReferralsInv, NEW w \in Workers, AskAgency(w)
  PROVE  ReferralsInv'
<1> USE DEF ReferralsInv, TypeOK
<1> DEFINE s == work[w].session
           a == work[w].account
<1>1. work[w].pc = "ask" /\ UNCHANGED <<referral, benefit, paid, overdue, jobs, registered, linked>>
  BY DEF AskAgency, Doing, UnchangedPeople
<1>2. s \in DOMAIN referral /\ a \in registered /\ referral[s].key # None
  BY <1>1, JobFields DEF JobNamed
<1>3. PICK answer \in {"confirmed", "rejected", "call_failed"} :
        /\ agreed' = IF answer = "confirmed" THEN agreed \cup {referral[s].key, a} ELSE agreed
        /\ IF Agrees(answer) THEN Goto(w, "find") /\ UNCHANGED <<walletBy, event>>
           ELSE IF answer = "rejected" THEN Goto(w, "reject") /\ UNCHANGED <<walletBy, event>>
           ELSE Finish(w, FALSE)
  BY DEF AskAgency
<1>4. agreed \subseteq agreed' /\ agreed' \subseteq Keys \cup Accounts
  BY <1>2, <1>3
<1>5. CASE Agrees(answer) /\ Goto(w, "find") /\ UNCHANGED <<walletBy, event>>
  <2>1. PICK job \in JobType :
          /\ work' = [work EXCEPT ![w] = job] /\ job.pc = "find"
          /\ job.session = s /\ job.account = a
    BY <1>5, NextPhase DEF Phases
  <2>2. a \in agreed' /\ s # None
    BY <1>2, <1>3, <1>5, NoneAssumption DEF Agrees
  <2>3. JobNamed(job)'
    BY <2>1, <2>2 DEF JobNamed
  <2> QED BY <1>1, <1>4, <1>5, <2>1, <2>3, ReadsAlone
<1>6. CASE Goto(w, "reject") /\ UNCHANGED <<walletBy, event>>
  <2>1. PICK job \in JobType :
          /\ work' = [work EXCEPT ![w] = job] /\ job.pc = "reject"
          /\ job.session = s /\ job.account = a
    BY <1>6, NextPhase DEF Phases
  <2>2. JobNamed(job)'
    BY <1>1, <1>2, <2>1 DEF JobNamed
  <2> QED BY <1>1, <1>4, <1>6, <2>1, <2>2, ReadsAlone
<1>7. CASE Finish(w, FALSE)
  BY <1>1, <1>4, <1>7, EndsAlone
<1> QED BY <1>3, <1>5, <1>6, <1>7

LEMMA AgencyEventKeeps ==
  ASSUME ReferralsInv, NEW w \in Workers, NEW key \in Keys \cup {None}, NEW a \in Accounts \cup {None},
         AgencyEvent(w, key, a)
  PROVE  ReferralsInv'
<1> USE DEF ReferralsInv, TypeOK
<1>1. PICK job : job = [Idle EXCEPT !.pc = "find", !.key = key, !.account = a] /\ Take(w, job)
  BY DEF AgencyEvent
<1>2. /\ agreed' = agreed \cup ({key, a} \ {None})
      /\ UNCHANGED <<referral, benefit, paid, event, registered, linked, overdue, walletBy>>
  BY DEF AgencyEvent, UnchangedRows, UnchangedPeople
<1>3. job \in JobType /\ job.pc = "find" /\ job.account = a /\ job.key = key /\ job.session = None
  BY <1>1 DEF Idle, JobType, Phases
<1>4. JobNamed(job)'
  BY <1>2, <1>3 DEF JobNamed
<1>5. agreed \subseteq agreed' /\ agreed' \subseteq Keys \cup Accounts
  BY <1>2
<1> QED BY <1>1, <1>2, <1>3, <1>4, <1>5, Taking, ReadsAlone

\* The row found is of the key or of the person the agency agreed to.
LEMMA FindKeeps ==
  ASSUME ReferralsInv, NEW w \in Workers, Find(w)
  PROVE  ReferralsInv'
<1> USE DEF ReferralsInv, TypeOK
<1>1. work[w].pc = "find" /\ UNCHANGED <<referral, benefit, paid, jobs, registered, linked, overdue, agreed>>
  BY DEF Find, Doing, UnchangedPeople, UnchangedWorld
<1>2. CASE \E well : Finish(w, well)
  BY <1>1, <1>2, EndsAlone
<1>3. ASSUME NEW s \in Found(w), referral[s].status = "PENDING",
             Job(w, [work[w] EXCEPT !.pc = "lock", !.session = s, !.account = referral[s].account]),
             UNCHANGED <<walletBy, event>>
      PROVE  ReferralsInv'
  <2>1. s \in DOMAIN referral /\ s \in Sessions
    BY <1>3 DEF Found, Has
  <2>2. referral[s].account \in Accounts
    BY <1>3, <2>1 DEF RowsTaken
  <2>3. referral[s].account \in agreed \/ referral[s].key \in agreed
    <3>1. CASE work[w].session # None
      <4>1. work[w].account \in agreed
        BY <1>1, <3>1, JobFields DEF JobNamed
      <4> QED BY <1>3, <3>1, <4>1 DEF Found, Has
    <3>2. CASE work[w].session = None
      <4>1. {work[w].key, work[w].account} \ {None} \subseteq agreed
        BY <1>1, <3>2, JobFields DEF JobNamed
      <4>2. \/ work[w].key # None /\ referral[s].key = work[w].key
            \/ work[w].account \in linked /\ referral[s].account = work[w].account
        BY <1>3, <3>2 DEF Found, Has
      <4> QED BY <4>1, <4>2, <2>2, NoneAssumption
    <3> QED BY <3>1, <3>2
  <2>4. PICK job : /\ job = [work[w] EXCEPT !.pc = "lock", !.session = s, !.account = referral[s].account]
                   /\ work' = [work EXCEPT ![w] = job]
    BY <1>3 DEF Job
  <2>5. job \in JobType /\ job.pc = "lock" /\ job.session = s /\ job.account = referral[s].account
    BY <2>1, <2>2, <2>4, JobFields DEF JobType, Phases
  <2>6. JobNamed(job)'
    BY <1>1, <2>1, <2>2, <2>3, <2>5 DEF JobNamed
  <2> QED BY <1>1, <1>3, <2>4, <2>5, <2>6, ReadsAlone
<1> QED BY <1>2, <1>3 DEF Find

LEMMA AttachManuallyKeeps ==
  ASSUME ReferralsInv, NEW w \in Workers, NEW s \in Sessions, NEW a \in Accounts, AttachManually(w, s, a)
  PROVE  ReferralsInv'
<1> USE DEF ReferralsInv, TypeOK
<1>1. PICK job : job = [Idle EXCEPT !.pc = "attach", !.session = s, !.account = a] /\ Take(w, job)
  BY DEF AttachManually
<1>2. /\ s \in DOMAIN referral /\ a \in registered
      /\ UNCHANGED <<referral, benefit, paid, event, registered, linked, overdue, agreed, walletBy>>
  BY DEF AttachManually, UnchangedRows, UnchangedPeople, UnchangedWorld
<1>3. job \in JobType /\ job.pc = "attach" /\ job.account = a /\ job.session = s
  BY <1>1 DEF Idle, JobType, Phases
<1>4. JobNamed(job)'
  BY <1>2, <1>3 DEF JobNamed
<1> QED BY <1>1, <1>2, <1>3, <1>4, Taking, ReadsAlone

LEMMA AbortKeeps ==
  ASSUME ReferralsInv, NEW w \in Workers, Abort(w)
  PROVE  ReferralsInv'
BY EndsAlone DEF Abort, UnchangedPeople, UnchangedWorld, ReferralsInv, TypeOK

\* The wallet's lock is taken free, so no other job that is to pay has it.
LEMMA LockWalletKeeps ==
  ASSUME ReferralsInv, NEW w \in Workers, LockWallet(w)
  PROVE  ReferralsInv'
<1> USE DEF ReferralsInv, TypeOK
<1> DEFINE a == work[w].account
           s == work[w].session
<1>1. /\ work[w].pc = "lock" /\ walletBy[a] = None
      /\ UNCHANGED <<referral, benefit, paid, jobs, registered, linked, overdue, agreed>>
  BY DEF LockWallet, Doing, WalletFree, UnchangedPeople, UnchangedWorld
<1>2. s \in DOMAIN referral /\ a \in Accounts /\ (a \in agreed \/ referral[s].key \in agreed)
  BY <1>1, JobFields DEF JobNamed
<1>3. CASE Finish(w, TRUE)
  BY <1>1, <1>3, EndsAlone
<1>4. CASE /\ a \in DOMAIN benefit
           /\ walletBy' = [walletBy EXCEPT ![a] = w]
           /\ Job(w, [work[w] EXCEPT !.pc = "pay", !.saw = a \in DOMAIN paid])
           /\ UNCHANGED event
  <2> DEFINE seen == a \in DOMAIN paid
  <2>1. PICK job : /\ job = [work[w] EXCEPT !.pc = "pay", !.saw = seen]
                   /\ work' = [work EXCEPT ![w] = job]
    BY <1>4 DEF Job
  <2>2. job \in JobType /\ job.pc = "pay" /\ job.session = s /\ job.account = a /\ job.saw = seen
    <3>1. seen \in BOOLEAN
      OBVIOUS
    <3> HIDE DEF seen
    <3> QED BY <2>1, <3>1, JobFields DEF JobType, Phases
  <2>3. job.saw <=> a \in DOMAIN paid
    BY <2>2
  <2>4. JobNamed(job)'
    BY <1>1, <1>2, <2>2 DEF JobNamed
  <2>5. /\ work' \in [Workers -> JobType] /\ work'[w] = job
        /\ \A v \in Workers \ {w} : work'[v] = work[v]
        /\ JobsNamed'
    BY <1>1, <2>1, <2>2, <2>4, Working
  <2>6. walletBy' \in [Accounts -> Workers \cup {None}] /\ walletBy'[a] = w
        /\ \A b \in Accounts \ {a} : walletBy'[b] = walletBy[b]
    BY <1>2, <1>4
  <2>7. PaysHeld'
    <3> SUFFICES ASSUME NEW v \in Workers, work'[v].pc = "pay"
                 PROVE  /\ walletBy'[work'[v].account] = v
                        /\ work'[v].account \in DOMAIN benefit
                        /\ work'[v].saw <=> work'[v].account \in DOMAIN paid
      BY <1>1 DEF PaysHeld
    <3>1. CASE v = w
      BY <1>4, <2>2, <2>3, <2>5, <2>6, <3>1
    <3>2. CASE v # w
      <4>1. work'[v] = work[v] /\ work[v].pc = "pay"
        BY <2>5, <3>2
      <4>2. /\ walletBy[work[v].account] = v
            /\ work[v].account \in DOMAIN benefit
            /\ work[v].saw <=> work[v].account \in DOMAIN paid
        BY <4>1 DEF PaysHeld
      <4>3. work[v].account \in Accounts
        BY <4>1, JobFields DEF JobNamed
      <4>4. work[v].account # a
        BY <1>1, <4>2, NoneAssumption
      <4> QED BY <2>6, <4>1, <4>2, <4>3, <4>4
    <3> QED BY <3>1, <3>2
  <2>8. TypeOK'
    BY <1>1, <1>4, <2>5, <2>6 DEF JobType
  <2>9. RowsTaken' /\ OneBonusPerVisit' /\ PaidAsAgreed'
    BY <1>1 DEF RowsTaken, OneBonusPerVisit, PaidAsAgreed
  <2> QED BY <2>5, <2>7, <2>8, <2>9
<1> QED BY <1>3, <1>4 DEF LockWallet

LEMMA OverdueKeeps ==
  ASSUME ReferralsInv, NEW s \in Sessions, Overdue(s)
  PROVE  ReferralsInv'
<1> USE DEF ReferralsInv, Overdue, UnchangedRows, UnchangedPeople
<1>1. TypeOK'
  BY DEF TypeOK
<1>2. JobsNamed' /\ PaysHeld'
  BY DEF JobsNamed, JobNamed, PaysHeld
<1>3. RowsTaken' /\ OneBonusPerVisit' /\ PaidAsAgreed'
  BY DEF RowsTaken, OneBonusPerVisit, PaidAsAgreed
<1> QED BY <1>1, <1>2, <1>3

LEMMA LinkedLaterKeeps ==
  ASSUME ReferralsInv, NEW a \in Accounts, LinkedLater(a)
  PROVE  ReferralsInv'
<1> USE DEF ReferralsInv, LinkedLater, UnchangedRows, UnchangedWorld
<1>1. TypeOK'
  BY DEF TypeOK
<1>2. JobsNamed' /\ PaysHeld'
  BY DEF JobsNamed, JobNamed, PaysHeld
<1>3. RowsTaken' /\ OneBonusPerVisit' /\ PaidAsAgreed'
  BY DEF RowsTaken, OneBonusPerVisit, PaidAsAgreed
<1> QED BY <1>1, <1>2, <1>3

-----------------------------------------------------------------------------
(* The steps that write rows.                                                *)

RowType == [status : Statuses, account : Accounts \cup {None}, key : Keys \cup {None}]

\* A status set leaves the rest of the row, and makes none wait or free again.
LEMMA StatusSet ==
  ASSUME ReferralsInv, NEW s \in DOMAIN referral, NEW status \in {"CONFIRMED", "REJECTED", "EXPIRED"},
         SetStatus(s, status)
  PROVE  /\ DOMAIN referral' = DOMAIN referral
         /\ referral' \in [DOMAIN referral -> RowType]
         /\ \A t \in DOMAIN referral :
              /\ referral'[t].key = referral[t].key
              /\ referral'[t].account = referral[t].account
              /\ referral'[t].status \in {status, referral[t].status}
BY DEF SetStatus, ReferralsInv, TypeOK, RowType, Statuses

\* So does taking a row for a person, who is written into it.
LEMMA RowTaken ==
  ASSUME ReferralsInv, NEW s \in DOMAIN referral, NEW a \in Accounts,
         referral' = [referral EXCEPT ![s].status = "PENDING", ![s].account = a]
  PROVE  /\ DOMAIN referral' = DOMAIN referral
         /\ referral' \in [DOMAIN referral -> RowType]
         /\ \A t \in DOMAIN referral : referral'[t].key = referral[t].key
         /\ \A t \in DOMAIN referral \ {s} : referral'[t] = referral[t]
         /\ referral'[s].status = "PENDING" /\ referral'[s].account = a
<1>1. referral \in [DOMAIN referral -> RowType] /\ "PENDING" \in Statuses
  BY DEF ReferralsInv, TypeOK, RowType, Statuses
<1> DEFINE row == [referral[s] EXCEPT !.status = "PENDING", !.account = a]
<1>2. referral' = [referral EXCEPT ![s] = row]
  BY <1>1
<1>3. row \in RowType /\ row.key = referral[s].key /\ row.status = "PENDING" /\ row.account = a
  BY <1>1 DEF RowType
<1> HIDE DEF row
<1> QED BY <1>1, <1>2, <1>3

LEMMA VisitKeeps ==
  ASSUME ReferralsInv, NEW s \in Sessions, Visit(s)
  PROVE  ReferralsInv'
<1> USE DEF ReferralsInv
<1>1. /\ s \notin DOMAIN referral
      /\ UNCHANGED <<benefit, paid, event, walletBy, work, jobs, registered, linked, overdue, agreed>>
  BY DEF Visit, UnchangedPeople, UnchangedWorld
<1>2. PICK key \in {LinkKey[s], None} :
        referral' = [t \in DOMAIN referral \cup {s} |->
                       IF t = s THEN [status |-> "CAPTURED", account |-> None, key |-> key]
                       ELSE referral[t]]
  BY DEF Visit
<1>3. /\ DOMAIN referral' = DOMAIN referral \cup {s}
      /\ \A t \in DOMAIN referral : referral'[t] = referral[t]
      /\ referral'[s].status = "CAPTURED" /\ referral'[s].account = None
  BY <1>1, <1>2
<1>4. referral' \in [DOMAIN referral' -> RowType]
  <2>1. key \in Keys \cup {None}
    BY LinkKeyAssumption
  <2>2. [status |-> "CAPTURED", account |-> None, key |-> key] \in RowType
    BY <2>1 DEF RowType, Statuses
  <2>3. referral \in [DOMAIN referral -> RowType]
    BY DEF TypeOK, RowType
  <2> QED BY <1>2, <2>2, <2>3
<1>5. TypeOK'
  <2>1. benefit \in [DOMAIN benefit -> [session : DOMAIN referral', status : {"PENDING", "CONFIRMED"}]]
    BY <1>3 DEF TypeOK
  <2> QED BY <1>1, <1>3, <1>4, <2>1 DEF TypeOK, RowType
<1>6. JobsNamed' /\ PaysHeld'
  <2>1. JobsNamed'
    BY <1>1, <1>3 DEF JobsNamed, JobNamed
  <2> QED BY <1>1, <2>1 DEF PaysHeld
<1>7. \A a \in DOMAIN benefit : benefit[a].session \in DOMAIN referral
  BY DEF TypeOK
<1>8. RowsTaken'
  BY <1>1, <1>3, <1>7 DEF RowsTaken
<1>9. OneBonusPerVisit' /\ PaidAsAgreed'
  BY <1>1, <1>3 DEF OneBonusPerVisit, PaidAsAgreed, TypeOK
<1> QED BY <1>5, <1>6, <1>8, <1>9

LEMMA ExpireSessionKeeps ==
  ASSUME ReferralsInv, NEW w \in Workers, ExpireSession(w)
  PROVE  ReferralsInv'
<1> USE DEF ReferralsInv
<1> DEFINE s == work[w].session
<1>1. /\ work[w].pc = "expire" /\ SetStatus(s, "EXPIRED")
      /\ UNCHANGED <<benefit, paid, event, walletBy, jobs, registered, linked, overdue, agreed>>
  BY DEF ExpireSession, Doing, UnchangedPeople, UnchangedWorld
<1>2. s \in DOMAIN referral /\ work[w].account \in Accounts
  BY <1>1, JobFields DEF JobNamed
<1>3. /\ DOMAIN referral' = DOMAIN referral
      /\ referral' \in [DOMAIN referral -> RowType]
      /\ \A t \in DOMAIN referral :
           /\ referral'[t].key = referral[t].key
           /\ referral'[t].account = referral[t].account
           /\ referral'[t].status \in {"EXPIRED", referral[t].status}
  BY <1>1, <1>2, StatusSet
<1>4. PICK job : /\ job = [work[w] EXCEPT !.pc = "register", !.session = None]
                 /\ work' = [work EXCEPT ![w] = job]
  BY DEF ExpireSession, Job
<1>5. job \in JobType /\ job.pc = "register" /\ job.session = None /\ job.account = work[w].account
  BY <1>4, JobFields DEF JobType, Phases
<1>6. JobNamed(job)'
  BY <1>2, <1>5 DEF JobNamed
<1>7. work' \in [Workers -> JobType] /\ JobsNamed'
  BY <1>1, <1>3, <1>4, <1>5, <1>6, Working
<1>8. PaysHeld'
  BY <1>1, <1>4, <1>5, Holding
<1>9. TypeOK'
  BY <1>1, <1>3, <1>7 DEF TypeOK, JobType, RowType
<1>10. RowsTaken'
  <2>1. \A a \in DOMAIN benefit : benefit[a].session \in DOMAIN referral
    BY DEF TypeOK
  <2> QED BY <1>1, <1>3, <2>1 DEF RowsTaken
<1>11. OneBonusPerVisit' /\ PaidAsAgreed'
  BY <1>1, <1>3 DEF OneBonusPerVisit, PaidAsAgreed, TypeOK
<1> QED BY <1>7, <1>8, <1>9, <1>10, <1>11

LEMMA RejectKeeps ==
  ASSUME ReferralsInv, NEW w \in Workers, Reject(w)
  PROVE  ReferralsInv'
<1> USE DEF ReferralsInv
<1> DEFINE s == work[w].session
<1>1. /\ work[w].pc = "reject" /\ SetStatus(s, "REJECTED") /\ Finish(w, TRUE)
      /\ UNCHANGED <<benefit, paid, jobs, registered, linked, overdue, agreed>>
  BY DEF Reject, Doing, UnchangedPeople, UnchangedWorld
<1>2. s \in DOMAIN referral
  BY <1>1, JobFields DEF JobNamed
<1>3. /\ DOMAIN referral' = DOMAIN referral
      /\ referral' \in [DOMAIN referral -> RowType]
      /\ \A t \in DOMAIN referral :
           /\ referral'[t].key = referral[t].key
           /\ referral'[t].account = referral[t].account
           /\ referral'[t].status \in {"REJECTED", referral[t].status}
  BY <1>1, <1>2, StatusSet
<1>4. /\ work' = [work EXCEPT ![w] = Idle]
      /\ walletBy' \in [Accounts -> Workers \cup {None}]
      /\ \A a \in Accounts : walletBy[a] \notin {w, None} => walletBy'[a] = walletBy[a]
      /\ event' \in [Sessions -> {"NONE", "PENDING", "SENT"}]
  BY <1>1, Finishing
<1>5. JobNamed(Idle)'
  BY IdleIsAJob DEF JobNamed, Idle
<1>6. work' \in [Workers -> JobType] /\ JobsNamed'
  BY <1>1, <1>3, <1>4, <1>5, IdleIsAJob, Working
<1>7. PaysHeld'
  BY <1>1, <1>4, IdleIsAJob, Holding
<1>8. TypeOK'
  BY <1>1, <1>3, <1>4, <1>6 DEF TypeOK, JobType, RowType
<1>9. RowsTaken'
  <2>1. \A a \in DOMAIN benefit : benefit[a].session \in DOMAIN referral
    BY DEF TypeOK
  <2> QED BY <1>1, <1>3, <2>1 DEF RowsTaken
<1>10. OneBonusPerVisit' /\ PaidAsAgreed'
  BY <1>1, <1>3 DEF OneBonusPerVisit, PaidAsAgreed, TypeOK
<1> QED BY <1>6, <1>7, <1>8, <1>9, <1>10

\* The credit, the benefit and the row: what is paid for was agreed to, and no other
\* job has the wallet.
LEMMA PayKeeps ==
  ASSUME ReferralsInv, NEW w \in Workers, Pay(w)
  PROVE  ReferralsInv'
<1> USE DEF ReferralsInv
<1> DEFINE a == work[w].account
           s == work[w].session
<1>1. work[w].pc = "pay" /\ UNCHANGED <<jobs, registered, linked, overdue, agreed>>
  BY DEF Pay, Doing, UnchangedPeople, UnchangedWorld
<1>2. PICK well : Finish(w, well)
  BY DEF Pay
<1>3. CASE UNCHANGED <<paid, benefit, referral>>
  <2>1. linked' \subseteq registered /\ agreed' \subseteq Keys \cup Accounts
    BY <1>1 DEF TypeOK
  <2> QED BY <1>1, <1>2, <1>3, <2>1, EndsAlone
<1>4. CASE /\ paid' = [b \in DOMAIN paid \cup {a} |-> IF b \in DOMAIN paid THEN paid[b] ELSE s]
           /\ benefit' = [benefit EXCEPT ![a].status = "CONFIRMED"]
           /\ SetStatus(s, "CONFIRMED")
  <2>1. s \in DOMAIN referral /\ a \in Accounts /\ (a \in agreed \/ referral[s].key \in agreed)
    BY <1>1, JobFields DEF JobNamed
  <2>2. walletBy[a] = w /\ a \in DOMAIN benefit
    BY <1>1 DEF PaysHeld
  <2>3. /\ DOMAIN referral' = DOMAIN referral
        /\ referral' \in [DOMAIN referral -> RowType]
        /\ \A t \in DOMAIN referral :
             /\ referral'[t].key = referral[t].key
             /\ referral'[t].account = referral[t].account
             /\ referral'[t].status \in {"CONFIRMED", referral[t].status}
    BY <1>4, <2>1, StatusSet
  <2>4. /\ DOMAIN benefit' = DOMAIN benefit
        /\ benefit' \in [DOMAIN benefit -> [session : DOMAIN referral, status : {"PENDING", "CONFIRMED"}]]
        /\ \A b \in DOMAIN benefit : benefit'[b].session = benefit[b].session
    BY <1>4, <2>2 DEF TypeOK
  <2>5. /\ DOMAIN paid' = DOMAIN paid \cup {a}
        /\ \A b \in DOMAIN paid : paid'[b] = paid[b]
        /\ a \notin DOMAIN paid => paid'[a] = s
        /\ paid' \in [DOMAIN paid' -> DOMAIN referral]
    BY <1>4, <2>1 DEF TypeOK
  <2>6. /\ work' = [work EXCEPT ![w] = Idle]
        /\ walletBy' \in [Accounts -> Workers \cup {None}]
        /\ \A b \in Accounts : walletBy[b] \notin {w, None} => walletBy'[b] = walletBy[b]
        /\ event' \in [Sessions -> {"NONE", "PENDING", "SENT"}]
    BY <1>2, Finishing
  <2>7. JobNamed(Idle)'
    BY IdleIsAJob DEF JobNamed, Idle
  <2>8. work' \in [Workers -> JobType] /\ JobsNamed'
    BY <1>1, <2>3, <2>6, <2>7, IdleIsAJob, Working
  <2>9. PaysHeld'
    BY <2>2, <2>4, <2>5, <2>6, IdleIsAJob, Holding
  <2>10. TypeOK'
    BY <1>1, <2>2, <2>3, <2>4, <2>5, <2>6, <2>8 DEF TypeOK, JobType, RowType
  <2>11. \A b \in DOMAIN benefit : benefit[b].session \in DOMAIN referral
    BY DEF TypeOK
  <2>12. RowsTaken'
    BY <1>1, <2>3, <2>4, <2>11 DEF RowsTaken
  <2>13. OneBonusPerVisit'
    BY <2>4 DEF OneBonusPerVisit
  <2>14. PaidAsAgreed'
    BY <1>1, <2>1, <2>3, <2>5 DEF PaidAsAgreed, TypeOK
  <2> QED BY <2>8, <2>9, <2>10, <2>12, <2>13, <2>14
<1> QED BY <1>3, <1>4 DEF Pay

\* The administrator's row was free when it was read; an account has none but it.
LEMMA CommitAttachKeeps ==
  ASSUME ReferralsInv, NEW w \in Workers, CommitAttach(w)
  PROVE  ReferralsInv'
<1> USE DEF ReferralsInv
<1> DEFINE a == work[w].account
           s == work[w].session
<1>1. /\ work[w].pc = "attach" /\ Has(a) \subseteq {s}
      /\ referral' = [referral EXCEPT ![s].status = "PENDING", ![s].account = a]
      /\ event' = [event EXCEPT ![s] = IF @ = "NONE" THEN "PENDING" ELSE @]
      /\ work' = [work EXCEPT ![w] = Idle]
      /\ UNCHANGED <<benefit, paid, walletBy, jobs, registered, linked, overdue, agreed>>
  BY DEF CommitAttach, Doing, Job, UnchangedPeople, UnchangedWorld
<1>2. s \in DOMAIN referral /\ a \in registered /\ a \in Accounts
  BY <1>1, JobFields DEF JobNamed, TypeOK
<1>3. /\ DOMAIN referral' = DOMAIN referral
      /\ referral' \in [DOMAIN referral -> RowType]
      /\ \A t \in DOMAIN referral : referral'[t].key = referral[t].key
      /\ \A t \in DOMAIN referral \ {s} : referral'[t] = referral[t]
      /\ referral'[s].status = "PENDING" /\ referral'[s].account = a
  BY <1>1, <1>2, RowTaken
<1>4. JobNamed(Idle)'
  BY IdleIsAJob DEF JobNamed, Idle
<1>5. work' \in [Workers -> JobType] /\ JobsNamed'
  BY <1>1, <1>3, <1>4, IdleIsAJob, Working
<1>6. PaysHeld'
  BY <1>1, IdleIsAJob, Holding
<1>7. event' \in [Sessions -> {"NONE", "PENDING", "SENT"}]
  BY <1>1 DEF TypeOK
<1>8. TypeOK'
  BY <1>1, <1>3, <1>5, <1>7 DEF TypeOK, JobType, RowType
<1>9. RowsTaken'
  <2>1. \A b \in DOMAIN benefit : benefit[b].session \in DOMAIN referral
    BY DEF TypeOK
  <2>2. \A t \in DOMAIN referral \ {s} : referral[t].account # a
    BY <1>1 DEF Has
  <2> QED BY <1>1, <1>2, <1>3, <2>1, <2>2, NoneAssumption DEF RowsTaken
<1>10. OneBonusPerVisit' /\ PaidAsAgreed'
  BY <1>1, <1>3 DEF OneBonusPerVisit, PaidAsAgreed, TypeOK
<1> QED BY <1>5, <1>6, <1>8, <1>9, <1>10

\* A registration takes a row that is CAPTURED still, so no benefit is of it.
LEMMA RegisterKeeps ==
  ASSUME ReferralsInv, NEW w \in Workers, Register(w)
  PROVE  ReferralsInv'
<1> USE DEF ReferralsInv
<1> DEFINE a == work[w].account
           s == work[w].session
<1>1. work[w].pc = "register" /\ UNCHANGED <<paid, linked, jobs, overdue, agreed>>
  BY DEF Register, Doing, UnchangedWorld
<1>2. s \in DOMAIN referral \cup {None} /\ a \in Accounts
  BY <1>1, JobFields DEF JobNamed
<1>3. CASE a \in registered
  <2>1. Finish(w, TRUE) /\ UNCHANGED <<referral, benefit, registered>>
    BY <1>3 DEF Register
  <2>2. linked' \subseteq registered /\ agreed' \subseteq Keys \cup Accounts
    BY <1>1 DEF TypeOK
  <2> QED BY <1>1, <2>1, <2>2, EndsAlone
<1>4. CASE a \notin registered
  <2>1. registered' = registered \cup {a} /\ Goto(w, "link") /\ UNCHANGED walletBy
    BY <1>4 DEF Register
  <2>2. PICK job \in JobType :
          work' = [work EXCEPT ![w] = job] /\ job.pc = "link" /\ job.account = a
    BY <2>1, NextPhase DEF Phases
  <2>3. JobNamed(job)'
    BY <2>1, <2>2 DEF JobNamed
  <2>4. a \notin DOMAIN benefit /\ DOMAIN paid \subseteq DOMAIN benefit
    BY <1>4 DEF TypeOK
  <2>5. \A b \in DOMAIN benefit : benefit[b].session \in DOMAIN referral
    BY DEF TypeOK
  <2>6. CASE ~Free(s)
    <3>1. UNCHANGED <<referral, benefit, event>>
      BY <1>4, <2>6 DEF Register
    <3>2. work' \in [Workers -> JobType] /\ JobsNamed'
      BY <1>1, <2>1, <2>2, <2>3, <3>1, Working
    <3>3. PaysHeld'
      BY <1>1, <2>1, <2>2, <3>1, Holding
    <3>4. TypeOK'
      BY <1>1, <1>2, <2>1, <3>1, <3>2 DEF TypeOK, JobType
    <3>5. RowsTaken' /\ OneBonusPerVisit' /\ PaidAsAgreed'
      BY <1>1, <2>1, <3>1 DEF RowsTaken, OneBonusPerVisit, PaidAsAgreed
    <3> QED BY <3>2, <3>3, <3>4, <3>5
  <2>7. CASE Free(s)
    <3>1. s \in DOMAIN referral /\ referral[s].status = "CAPTURED"
      BY <1>2, <2>7 DEF Free
    <3>2. /\ referral' = [referral EXCEPT ![s].status = "PENDING", ![s].account = a]
          /\ benefit' = IF ~Legacy THEN benefit
                        ELSE [b \in DOMAIN benefit \cup {a} |->
                                IF b = a THEN [session |-> s, status |-> "PENDING"]
                                ELSE benefit[b]]
          /\ event' = [event EXCEPT ![s] = IF @ = "NONE" THEN "PENDING" ELSE @]
      BY <1>4, <2>7 DEF Register
    <3>3. /\ DOMAIN referral' = DOMAIN referral
          /\ referral' \in [DOMAIN referral -> RowType]
          /\ \A t \in DOMAIN referral : referral'[t].key = referral[t].key
          /\ \A t \in DOMAIN referral \ {s} : referral'[t] = referral[t]
          /\ referral'[s].status = "PENDING" /\ referral'[s].account = a
      BY <1>2, <3>1, <3>2, RowTaken
    <3>4. /\ DOMAIN benefit' \in {DOMAIN benefit, DOMAIN benefit \cup {a}}
          /\ \A b \in DOMAIN benefit : benefit'[b] = benefit[b]
          /\ a \in DOMAIN benefit' => benefit'[a].session = s
          /\ benefit' \in [DOMAIN benefit' -> [session : DOMAIN referral, status : {"PENDING", "CONFIRMED"}]]
      <4>1. CASE ~Legacy
        BY <2>4, <3>2, <4>1 DEF TypeOK
      <4>2. CASE Legacy
        BY <2>4, <3>1, <3>2, <4>2 DEF TypeOK
      <4> QED BY <4>1, <4>2
    <3>5. work' \in [Workers -> JobType] /\ JobsNamed'
      BY <1>1, <2>1, <2>2, <2>3, <3>3, Working
    <3>6. PaysHeld'
      BY <1>1, <2>1, <2>2, <3>4, Holding
    <3>7. event' \in [Sessions -> {"NONE", "PENDING", "SENT"}]
      BY <3>2 DEF TypeOK
    <3>8. TypeOK'
      BY <1>1, <1>2, <2>1, <3>3, <3>4, <3>5, <3>7 DEF TypeOK, JobType, RowType
    <3>9. RowsTaken'
      <4>1. \A t \in DOMAIN referral : referral[t].account # a
        BY <1>2, <1>4, NoneAssumption DEF RowsTaken
      <4>2. \A t \in DOMAIN referral' : referral'[t].account \in registered' \cup {None}
        BY <2>1, <3>3 DEF RowsTaken
      <4>3. \A t, u \in DOMAIN referral' :
              referral'[t].account = referral'[u].account /\ referral'[t].account # None => t = u
        BY <3>3, <4>1 DEF RowsTaken
      <4>4. \A t \in DOMAIN referral' : referral'[t].status = "PENDING" => referral'[t].account # None
        BY <1>2, <3>3, NoneAssumption DEF RowsTaken
      <4>5. \A b \in DOMAIN benefit' : referral'[benefit'[b].session].status # "CAPTURED"
        BY <2>5, <3>3, <3>4 DEF RowsTaken
      <4> QED BY <4>2, <4>3, <4>4, <4>5 DEF RowsTaken
    <3>10. OneBonusPerVisit'
      BY <2>4, <3>1, <3>4 DEF OneBonusPerVisit, RowsTaken
    <3>11. PaidAsAgreed'
      BY <1>1, <3>3 DEF PaidAsAgreed, TypeOK
    <3> QED BY <3>5, <3>6, <3>8, <3>9, <3>10, <3>11
  <2> QED BY <2>6, <2>7
<1> QED BY <1>3, <1>4

-----------------------------------------------------------------------------
LEMMA ReferralsNextKeeps == ReferralsInv /\ [Next]_vars => ReferralsInv'
<1> SUFFICES ASSUME ReferralsInv, [Next]_vars
             PROVE  ReferralsInv'
  OBVIOUS
<1>1. ASSUME NEW w \in Workers, Step(w)
      PROVE  ReferralsInv'
  BY <1>1, ExpireSessionKeeps, RegisterKeeps, LinkCommonUserKeeps, ReadReferralKeeps,
     AskAgencyKeeps, RejectKeeps, FindKeeps, LockWalletKeeps, PayKeeps, CommitAttachKeeps,
     AbortKeeps DEF Step
<1>2. CASE UNCHANGED vars
  <2> USE <1>2 DEF ReferralsInv, vars
  <2>1. TypeOK'
    BY DEF TypeOK
  <2>2. JobsNamed' /\ PaysHeld'
    BY DEF JobsNamed, JobNamed, PaysHeld
  <2>3. RowsTaken' /\ OneBonusPerVisit' /\ PaidAsAgreed'
    BY DEF RowsTaken, OneBonusPerVisit, PaidAsAgreed
  <2> QED BY <2>1, <2>2, <2>3
<1> QED
  BY <1>1, <1>2, VisitKeeps, OverdueKeeps, LinkedLaterKeeps, LoginKeeps, AttachManuallyKeeps,
     LinkAgainKeeps, SendKeeps, AgencyEventKeeps DEF Next

LEMMA ReferralsInvariance == Spec => []ReferralsInv
BY ReferralsInvInit, ReferralsNextKeeps, PTL DEF Spec

\* Every variable holds what it is meant to: a credit is of a benefit, a benefit of a
\* registered account and of a row there is.
THEOREM ReferralTyping == Spec => []TypeOK
<1>1. ReferralsInv => TypeOK
  BY DEF ReferralsInv
<1> QED BY <1>1, ReferralsInvariance, PTL

\* However many register with one cookie at once, and whatever an administrator or the
\* agency does to the row, a visit brings one bonus (claimCapturedForAccount).
THEOREM OneBonus == Spec => []OneBonusPerVisit
<1>1. ReferralsInv => OneBonusPerVisit
  BY DEF ReferralsInv
<1> QED BY <1>1, ReferralsInvariance, PTL

\* Nothing is paid for but what the agency agreed to (ConfirmReferralUseCase).
THEOREM PaidOnlyAsAgreed == Spec => []PaidAsAgreed
<1>1. ReferralsInv => PaidAsAgreed
  BY DEF ReferralsInv
<1> QED BY <1>1, ReferralsInvariance, PTL

\* A confirmation that comes to the credit knows whether it is there (lockWallet).
THEOREM ConfirmationsDoNotCollide == Spec => []ConfirmNeverCollides
<1>1. ReferralsInv => ConfirmNeverCollides
  BY DEF ReferralsInv, PaysHeld, ConfirmNeverCollides, Doing
<1> QED BY <1>1, ReferralsInvariance, PTL

=============================================================================
