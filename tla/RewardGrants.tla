---------------------------- MODULE RewardGrants ----------------------------
(***************************************************************************)
(* Rewards and the limits on them, apps/api/src/rewards and the handlers     *)
(* that grant: how much a rule and a service integration may give out while  *)
(* requests run at once, are sent again, and an administrator changes or     *)
(* stops the rule or the integration under them.  A call takes the row lock  *)
(* of the integration, then of the rule, counts what is committed, and posts *)
(* one CREDIT, whose own locks are Ledger's.  Nothing it writes shows before *)
(* it commits.                                                               *)
(***************************************************************************)
EXTENDS Integers, FiniteSets, PointTotals

CONSTANTS
  Calls,          \* requests the API works on at once
  Nobody,         \* the holder of a free row lock
  Users,          \* recipients, by external_user_id or common_user_id
  Registered,     \* those who have an account to begin with
  Keys,           \* idempotency keys
  Requests,       \* what a call may ask for
  Settings,       \* what an administrator may set each route's rule to
  PerRequest,     \* service_integrations.per_request_amount_limit
  Daily,          \* service_integrations.daily_amount_limit
  MaxDay,         \* bound on the days that pass
  MaxMore         \* bound on the requests after the first of each call

(* The ways to a grant.  A service asks POST /rewards for a transaction type *)
(* and names the user by external_user_id:                                   *)
(*   JOURNEY    REGISTRATION_BONUS, LEARNING_JOURNEY_REWARD                   *)
(*   PURCHASE   AIART_ATTENDANCE, SENGOKU_EC_PURCHASE                         *)
(*   OTHER      a type without a rule, as the default EVENT_REWARD            *)
(*   AWARD      the agency's point award event                               *)
(*   EVENT      reward.granted, with no product_code                         *)
(*   MILESTONE  sign-up and profile completion                               *)
External == {"JOURNEY", "PURCHASE", "OTHER"}
ServiceRoutes == External \cup {"AWARD"}
Routes == ServiceRoutes \cup {"EVENT", "MILESTONE"}

(* Those with a reward rule, one each *)
Ruled == Routes \ {"OTHER"}

RequestType == [route : Routes, key : Keys, user : Users, event : Keys, amount : Nat \ {0}]

(* A rule's row: is it ACTIVE, the first and last day it is valid, its limits *)
(* per user, per event and per month on the number of grants, per month and  *)
(* in all on their amount.  A limit of 0 is none.                            *)
SettingType == [active : BOOLEAN, starts : Nat, ends : Nat, perUser : Nat, perEvent : Nat,
                monthlyCount : Nat, monthly : Nat, total : Nat]

ASSUME NobodyAssumption == Nobody \notin Calls
ASSUME RequestsAssumption == Requests \subseteq RequestType
(* Every route but POST /rewards puts a prefix of its own before the key. *)
ASSUME KeysAssumption ==
  \A r, s \in Requests :
    r.key = s.key => r.route = s.route \/ {r.route, s.route} \subseteq External
ASSUME SettingsAssumption == Settings \in [Ruled -> SUBSET SettingType]
ASSUME RegisteredAssumption == Registered \subseteq Users
ASSUME LimitsAssumption == PerRequest \in Nat /\ Daily \in Nat /\ MaxDay \in Nat
                           /\ MaxMore \in Nat

VARIABLES
  rule,           \* reward_rules, by the route it limits
  active,         \* is the service integration ACTIVE?
  accounts,       \* users who have an account and a wallet
  grants,         \* the CREDIT rows, by idempotency key
  day,            \* the date; a month begins with each
  req, pc,        \* what a call asks for, and how far it is
  more,           \* requests that came after the first ones
  serviceBy,      \* the row lock on the integration
  ruleBy,         \* the row locks on the rules
  now             \* the day a call's limits were checked

vars == <<rule, active, accounts, grants, day, req, pc, more, serviceBy, ruleBy, now>>

(* "over": answered with the transaction, or broken off without an answer *)
Ended == {"over", "refused"}
Phases == {"start", "service", "limits", "again", "rule", "caps", "credit"} \cup Ended

Init ==
  /\ rule \in {f \in [Ruled -> UNION {Settings[r] : r \in Ruled}] : \A r \in Ruled : f[r] \in Settings[r]}
  /\ active = TRUE
  /\ accounts = Registered
  /\ grants = [k \in {} |-> {}]
  /\ day = 0
  /\ req \in [Calls -> Requests]
  /\ pc = [c \in Calls |-> "start"]
  /\ more = 0
  /\ serviceBy = Nobody
  /\ ruleBy = [r \in Ruled |-> Nobody]
  /\ now = [c \in Calls |-> 0]

Route(c) == req[c].route
Posted(c) == req[c].key \in DOMAIN grants

Goto(c, phase) == pc' = [pc EXCEPT ![c] = phase]

(* A transaction ends: its row locks are free, what it knew is gone. *)
Unlock(c) ==
  /\ serviceBy' = IF serviceBy = c THEN Nobody ELSE serviceBy
  /\ ruleBy' = [r \in Ruled |-> IF ruleBy[r] = c THEN Nobody ELSE ruleBy[r]]
  /\ now' = [now EXCEPT ![c] = 0]

Leave(c, phase) == Goto(c, phase) /\ Unlock(c)

UnchangedRows == UNCHANGED <<rule, active, accounts, grants, day, req, more>>
UnchangedLocks == UNCHANGED <<serviceBy, ruleBy, now>>

-----------------------------------------------------------------------------
(* A request comes in, and looks for its key before any limit is asked.      *)
Begin(c, routes, admitted, next) ==
  /\ pc[c] = "start"
  /\ Route(c) \in routes
  /\ Goto(c, IF ~admitted THEN "refused" ELSE IF Posted(c) THEN "over" ELSE next)
  /\ UnchangedRows /\ UnchangedLocks

(* ExternalApiAuthGuard lets in the key of an ACTIVE integration only; it     *)
(* writes last_accessed_at, for which it waits while a grant has the row.    *)
ExternalRequest(c) == serviceBy = Nobody /\ Begin(c, External, active, "service")
AwardDelivered(c) == Begin(c, {"AWARD"}, req[c].user \in accounts, "service")
RewardGranted(c) == Begin(c, {"EVENT"}, req[c].user \in accounts, "again")
Milestone(c) == Begin(c, {"MILESTONE"}, req[c].user \in accounts /\ rule["MILESTONE"].active, "again")

\* Mutants: the lock is not taken; the key is not looked for again under it.
ServiceFreeUnlocked == TRUE
FoundUnderLockNever(c) == FALSE

ServiceFree == serviceBy = Nobody
StillActive == active
FoundUnderLock(c) == Posted(c)

(* lockById, then the integration and the key again *)
LockService(c) ==
  /\ pc[c] = "service"
  /\ ServiceFree
  /\ IF ~StillActive THEN Goto(c, "refused") /\ UnchangedLocks
     ELSE IF FoundUnderLock(c) THEN Goto(c, "over") /\ UnchangedLocks
     ELSE Goto(c, "limits") /\ serviceBy' = c /\ UNCHANGED <<ruleBy, now>>
  /\ UnchangedRows

Counts(keys) == {k \in keys : grants[k].status = "COMPLETED"}
Sum(keys) == Total([k \in DOMAIN grants |-> grants[k].amount], keys)

(* All that came from the service today, its reward.granted events too *)
GrantedToday ==
  Counts({k \in DOMAIN grants : grants[k].day = day /\ grants[k].route # "MILESTONE"})

WithinServiceLimits(c) ==
  /\ req[c].amount <= PerRequest
  /\ Sum(GrantedToday) + req[c].amount <= Daily

(* assertWithinServiceAmountLimits, then findOrCreateAccount: the account of  *)
(* a new external user shows when the grant commits.                         *)
CheckServiceLimits(c) ==
  /\ pc[c] = "limits"
  /\ IF WithinServiceLimits(c) THEN Goto(c, "again") /\ UnchangedLocks ELSE Leave(c, "refused")
  /\ UnchangedRows

(* executeInTransaction: the key once more, before it waits for the rule its  *)
(* type has; without one nothing is left to ask.                             *)
LookAgain(c) ==
  /\ pc[c] = "again"
  /\ IF Posted(c) THEN Leave(c, "over")
     ELSE Goto(c, IF Route(c) \in Ruled THEN "rule" ELSE "credit") /\ UnchangedLocks
  /\ UnchangedRows

\* Mutant: the rule is read without FOR UPDATE.
RuleFreeUnlocked(c) == TRUE

RuleFree(c) == ruleBy[Route(c)] = Nobody

LockRule(c) ==
  /\ pc[c] = "rule"
  /\ RuleFree(c)
  /\ ruleBy' = [ruleBy EXCEPT ![Route(c)] = c]
  /\ Goto(c, "caps")
  /\ UNCHANGED <<serviceBy, now>> /\ UnchangedRows

(* Grants a rule counts.  AWARD and EVENT share a transaction type: an award *)
(* is picked out by its point code, an event without product counts both.    *)
CountedRoutes(route) == IF route = "EVENT" THEN {"EVENT", "AWARD"} ELSE {route}
OfRule(route) == Counts({k \in DOMAIN grants : grants[k].route \in CountedRoutes(route)})
OfUser(keys, user) == {k \in keys : grants[k].user = user}
OfEvent(keys, event) == {k \in keys : grants[k].event = event}
OfMonth(keys) == {k \in keys : grants[k].day = day}

(* "if (rule.perUserLimit)": a limit of 0 is none, like one that is not set. *)
Below(count, limit) == limit = 0 \/ count < limit
UpTo(sum, limit) == limit = 0 \/ sum <= limit

(* A stopped rule refuses where one is required, and limits nothing elsewhere. *)
RuleRequired(route) == route \in {"JOURNEY", "EVENT"}

Permitted(c) ==
  LET r == rule[Route(c)]
      given == OfRule(Route(c))
      mine == OfUser(given, req[c].user)
  IN IF ~r.active THEN ~RuleRequired(Route(c))
     ELSE /\ r.starts <= day /\ day <= r.ends
          /\ Below(Cardinality(mine), r.perUser)
          /\ Below(Cardinality(OfEvent(mine, req[c].event)), r.perEvent)
          /\ Below(Cardinality(OfMonth(given)), r.monthlyCount)
          /\ UpTo(Sum(OfMonth(given)) + req[c].amount, r.monthly)
          /\ UpTo(Sum(given) + req[c].amount, r.total)

(* enforceRewardRuleLimits *)
CheckRuleLimits(c) ==
  /\ pc[c] = "caps"
  /\ IF Permitted(c)
     THEN Goto(c, "credit") /\ now' = [now EXCEPT ![c] = day] /\ UNCHANGED <<serviceBy, ruleBy>>
     ELSE Leave(c, "refused")
  /\ UnchangedRows

(* creditWalletInTransaction and the commit *)
Credit(c) ==
  /\ pc[c] = "credit"
  /\ ~Posted(c)
  /\ grants' = [k \in DOMAIN grants \cup {req[c].key} |->
                  IF k \in DOMAIN grants THEN grants[k]
                  ELSE [route |-> Route(c), user |-> req[c].user, event |-> req[c].event,
                        amount |-> req[c].amount, day |-> day, status |-> "COMPLETED"]]
  /\ accounts' = accounts \cup {req[c].user}
  /\ Leave(c, "over")
  /\ UNCHANGED <<rule, active, day, req, more>>

(* The INSERT meets the unique index on the key, so all is rolled back; the  *)
(* first one's row is read then, except on the agency's route.               *)
Duplicate(c) ==
  /\ pc[c] = "credit"
  /\ Posted(c)
  /\ Leave(c, IF Route(c) = "AWARD" THEN "refused" ELSE "over")
  /\ UnchangedRows

(* The process dies, the connection is lost, the transaction times out. *)
Abort(c) ==
  /\ pc[c] \notin Ended
  /\ Leave(c, "over")
  /\ UnchangedRows

(* The next request, or the same again: its sender had no answer or lost it. *)
Arrive(c) ==
  /\ pc[c] \in Ended
  /\ more < MaxMore
  /\ more' = more + 1
  /\ \E r \in Requests : req' = [req EXCEPT ![c] = r]
  /\ Goto(c, "start")
  /\ UNCHANGED <<rule, active, accounts, grants, day>> /\ UnchangedLocks

-----------------------------------------------------------------------------
(* reward.reversed: what was granted no longer counts. *)
Reverse(k) ==
  /\ grants[k].status = "COMPLETED"
  /\ grants' = [grants EXCEPT ![k].status = "REVERSED"]
  /\ UNCHANGED <<rule, active, accounts, day, req, pc, more, serviceBy, ruleBy, now>>

(* The administrator's UPDATE waits for the row like any other. *)
SetRule(route, setting) ==
  /\ ruleBy[route] = Nobody
  /\ rule' = [rule EXCEPT ![route] = setting]
  /\ UNCHANGED <<active, accounts, grants, day, req, pc, more, serviceBy, ruleBy, now>>

SetIntegration(status) ==
  /\ serviceBy = Nobody
  /\ active' = status
  /\ UNCHANGED <<rule, accounts, grants, day, req, pc, more, serviceBy, ruleBy, now>>

Midnight ==
  /\ day < MaxDay
  /\ day' = day + 1
  /\ UNCHANGED <<rule, active, accounts, grants, req, pc, more, serviceBy, ruleBy, now>>

Step(c) ==
  \/ ExternalRequest(c) \/ AwardDelivered(c) \/ RewardGranted(c) \/ Milestone(c)
  \/ LockService(c) \/ CheckServiceLimits(c) \/ LookAgain(c)
  \/ LockRule(c) \/ CheckRuleLimits(c) \/ Credit(c) \/ Duplicate(c)

Next ==
  \/ \E c \in Calls : Step(c) \/ Abort(c) \/ Arrive(c)
  \/ \E k \in DOMAIN grants : Reverse(k)
  \/ \E route \in Ruled : \E setting \in Settings[route] : SetRule(route, setting)
  \/ \E status \in BOOLEAN : SetIntegration(status)
  \/ Midnight

Spec == Init /\ [][Next]_vars

-----------------------------------------------------------------------------
(* Properties                                                               *)

TypeOK ==
  /\ rule \in [Ruled -> SettingType] /\ \A route \in Ruled : rule[route] \in Settings[route]
  /\ active \in BOOLEAN
  /\ accounts \subseteq Users
  /\ DOMAIN grants \subseteq Keys
  /\ grants \in [DOMAIN grants -> [route : Routes, user : Users, event : Keys, amount : Nat \ {0},
                                   day : 0..MaxDay, status : {"COMPLETED", "REVERSED"}]]
  /\ day \in 0..MaxDay /\ more \in 0..MaxMore
  /\ req \in [Calls -> Requests]
  /\ pc \in [Calls -> Phases]
  /\ serviceBy \in Calls \cup {Nobody}
  /\ ruleBy \in [Ruled -> Calls \cup {Nobody}]
  /\ now \in [Calls -> 0..MaxDay]

\* Call c posts its grant: no other call moves in that step.
Posts(c) == req[c].key \in DOMAIN grants' \ DOMAIN grants /\ pc'[c] # pc[c]
Own(c) == {k \in DOMAIN grants : grants[k].route = Route(c) /\ grants[k].status = "COMPLETED"}

\* A grant is only posted when it fits the rule in force at that moment, as to
\* the number and the amount of what the rule has given out by then: in all, this
\* month, to its user and for its event, however many requests run at once.  The
\* rule's dates, as they are then, cover the day the limits were checked.  Stopping
\* works at once too: nothing is posted for a suspended integration, nor
\* under a stopped rule where one is required, also by requests let in before.
\* (A stopped rule that is not required limits nothing, and OTHER has none.)
CapsRespected ==
  [][\A c \in Calls : Posts(c) =>
       /\ Route(c) \in ServiceRoutes => active
       /\ Route(c) \in Ruled =>
            LET r == rule[Route(c)]
                amount == req[c].amount
                mine == OfUser(Own(c), req[c].user)
            IN /\ RuleRequired(Route(c)) => r.active
               /\ r.active =>
                    /\ r.starts <= now[c] /\ now[c] <= r.ends
                    /\ r.total # 0 => Sum(Own(c)) + amount <= r.total
                    /\ r.monthly # 0 => Sum(OfMonth(Own(c))) + amount <= r.monthly
                    /\ r.monthlyCount # 0 => Cardinality(OfMonth(Own(c))) < r.monthlyCount
                    /\ r.perUser # 0 => Cardinality(mine) < r.perUser
                    /\ r.perEvent # 0 => Cardinality(OfEvent(mine, req[c].event)) < r.perEvent]_vars

\* On no day does a service give out more than its daily limit by the routes
\* that ask for it, midnight passing between the check and the credit included.
DailyLimitKept ==
  \A d \in 0..MaxDay :
    Sum(Counts({k \in DOMAIN grants : grants[k].day = d /\ grants[k].route \in ServiceRoutes})) <= Daily

\* A request whose grant is already posted is neither refused for the limits
\* the grant itself used up ("a retry is not a new request",
\* grant-reward.use-case.ts) nor turned away by the unique index, on the routes
\* that lock the integration.
RetryIsNotLimited ==
  [][\A c \in Calls :
       (Route(c) \in ServiceRoutes /\ pc[c] \in {"limits", "caps", "credit"} /\ pc'[c] = "refused")
         => ~Posted(c)]_vars

=============================================================================
