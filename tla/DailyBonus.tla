----------------------------- MODULE DailyBonus -----------------------------
(***************************************************************************)
(* The daily login bonus of one account, apps/api/src/daily-bonus: a claim   *)
(* reads the last row, posts a credit in a transaction of the ledger's, and  *)
(* writes its own row in another.  Calls overlap, cross midnight and break   *)
(* off between the two.                                                      *)
(***************************************************************************)
EXTENDS Integers, Sequences

CONSTANTS
  Claims,         \* requests the API works on at once
  Schedule,       \* DAILY_BONUS_SCHEDULE
  MaxDay          \* bound on the days that pass

ASSUME ScheduleAssumption == Schedule # <<>> /\ Schedule \in Seq(Nat \ {0})
ASSUME BonusBoundsAssumption == MaxDay \in Nat

VARIABLES
  day,            \* the server's date
  credits,        \* the CREDIT rows, by the date in the idempotency key
  rows,           \* daily_bonus_claims, by claimed_date
  at,             \* how far a call is
  today, streak   \* what it has worked out

bonusVars == <<day, credits, rows, at, today, streak>>

amountForStreak(n) == Schedule[((n - 1) % Len(Schedule)) + 1]

BonusInit ==
  /\ day = 1
  /\ credits = <<>>
  /\ rows = <<>>
  /\ at = [c \in Claims |-> "start"]
  /\ today = [c \in Claims |-> 1]
  /\ streak = [c \in Claims |-> 1]

Proceed(c, phase) == at' = [at EXCEPT ![c] = phase]

(* A call ends, and what it worked out is gone. *)
Over(c) ==
  /\ Proceed(c, "start")
  /\ today' = [today EXCEPT ![c] = 1]
  /\ streak' = [streak EXCEPT ![c] = 1]

Latest(d) == d \in DOMAIN rows /\ \A e \in DOMAIN rows : e <= d

(* A call takes the date, then reads the latest row: one of today refuses it, *)
(* one of the day before continues the streak.                               *)
Ask(c) ==
  /\ at[c] = "start"
  /\ today' = [today EXCEPT ![c] = day]
  /\ Proceed(c, "read")
  /\ UNCHANGED <<day, credits, rows, streak>>

(* Mutant of isNextDay: any earlier day will do. *)
AnyEarlierDay(previous, current) == previous < current

isNextDay(previous, current) == current = previous + 1

Refuse(c) ==
  /\ at[c] = "read"
  /\ Latest(today[c])
  /\ Over(c)
  /\ UNCHANGED <<day, credits, rows>>

ReadLatest(c) ==
  /\ at[c] = "read"
  /\ \/ /\ DOMAIN rows = {}
        /\ streak' = [streak EXCEPT ![c] = 1]
     \/ \E d \in DOMAIN rows \ {today[c]} :
          /\ Latest(d)
          /\ streak' = [streak EXCEPT ![c] =
                          IF isNextDay(d, today[c]) THEN rows[d].streak + 1 ELSE 1]
  /\ Proceed(c, "credit")
  /\ UNCHANGED <<day, credits, rows, today>>

(* creditWallet: a transaction of this key is taken as it is, whatever its    *)
(* amount; else one is posted, and occurs now.                                *)
Credit(c) ==
  /\ at[c] = "credit"
  /\ credits' =
       IF today[c] \in DOMAIN credits THEN credits
       ELSE [d \in DOMAIN credits \cup {today[c]} |->
               IF d = today[c]
               THEN [amount |-> amountForStreak(streak[c]), occurred |-> day]
               ELSE credits[d]]
  /\ Proceed(c, "row")
  /\ UNCHANGED <<day, rows, today, streak>>

(* The loser of the unique index on the row gives it up. *)
WriteRow(c) ==
  /\ at[c] = "row"
  /\ rows' =
       IF today[c] \in DOMAIN rows THEN rows
       ELSE [d \in DOMAIN rows \cup {today[c]} |->
               IF d = today[c]
               THEN [streak |-> streak[c], amount |-> amountForStreak(streak[c])]
               ELSE rows[d]]
  /\ Over(c)
  /\ UNCHANGED <<day, credits>>

(* The process dies, or the database does not answer. *)
BreakOff(c) ==
  /\ at[c] # "start"
  /\ Over(c)
  /\ UNCHANGED <<day, credits, rows>>

Midnight ==
  /\ day < MaxDay
  /\ day' = day + 1
  /\ UNCHANGED <<credits, rows, at, today, streak>>

Claim(c) ==
  \/ Ask(c)
  \/ Refuse(c)
  \/ ReadLatest(c)
  \/ Credit(c)
  \/ WriteRow(c)
  \/ BreakOff(c)

BonusNext == (\E c \in Claims : Claim(c)) \/ Midnight

BonusSpec == BonusInit /\ [][BonusNext]_bonusVars

(* A streak of n is never written for a day that does not end n days each of *)
(* which has its row and its credit: neither a skipped day nor a broken-off   *)
(* or a late claim earns a longer one (claim, daily-bonus.service.ts:76).     *)
StreakIsEarned ==
  \A d \in DOMAIN rows :
    (d - rows[d].streak + 1) .. d \subseteq DOMAIN rows \cap DOMAIN credits

(* A row says what was really paid (docs/daily-login-bonus.md).              *)
RowSaysWhatWasPaid == \A d \in DOMAIN rows : rows[d].amount = credits[d].amount

=============================================================================
