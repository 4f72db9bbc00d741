--------------------------- MODULE CommonUserLinks ---------------------------
(***************************************************************************)
(* Which account a common_user_id belongs to, and which agency an account:   *)
(* apps/api/src/accounts and the handlers of common_user.resolved,           *)
(* common_user.merged and customer.assignment_changed.  No unique index says *)
(* that an id has one account: advisory locks on the ids and a look under    *)
(* the lock do.  Calls run statement by statement under READ COMMITTED.      *)
(***************************************************************************)
EXTENDS Naturals, FiniteSets

CONSTANTS
  Accounts,
  Ids,           \* common_user_id values
  Rank,          \* their place in Array.sort's order
  Agencies,
  Calls,         \* calls under way at once
  None,          \* no id, no agency, no account; the holder of a free lock
  Given,         \* how the accounts may be linked to begin with
  MaxCalls       \* bound on the calls in all

ASSUME NoneAssumption == None \notin Accounts \cup Ids \cup Agencies \cup Calls
ASSUME RankAssumption ==
  /\ Rank \in [Ids -> Nat]
  /\ \A i, j \in Ids : Rank[i] = Rank[j] => i = j
ASSUME GivenAssumption ==
  /\ Given \subseteq [Accounts -> Ids \cup {None}]
  /\ \A f \in Given : \A a, b \in Accounts : f[a] = f[b] /\ f[a] # None => a = b
ASSUME MaxCallsAssumption == MaxCalls \in Nat

VARIABLES
  common,        \* ove_accounts.common_user_id
  assigned,      \* ove_accounts.assigned_agency_id
  referrer,      \* ove_accounts.registration_referrer_agency_id
  idBy,          \* the advisory locks on the ids
  rowBy,         \* the row locks on the accounts
  call,          \* what each call does and remembers
  requests,      \* merges asked of the administrators: source and target
  calls          \* calls so far

vars == <<common, assigned, referrer, idBy, rowBy, call, requests, calls>>

(* old and new: the ids a call is about; a link has no old one.  others:     *)
(* accounts a merge is still to be asked for.                                *)
Idle == [pc |-> "idle", account |-> None, old |-> None, new |-> None,
         assign |-> None, refer |-> None, others |-> {}]

LinkPhases == {"first", "second", "decide", "write"}
Phases == {"idle", "row", "set", "ask"} \cup LinkPhases

Init ==
  /\ common \in Given
  /\ assigned = [a \in Accounts |-> None]
  /\ referrer = [a \in Accounts |-> None]
  /\ idBy = [i \in Ids |-> None]
  /\ rowBy = [a \in Accounts |-> None]
  /\ call = [c \in Calls |-> Idle]
  /\ requests = {}
  /\ calls = 0

In(c, phase) == call[c].pc = phase
Goto(c, phase) == call' = [call EXCEPT ![c].pc = phase]

Start(c, work) ==
  /\ In(c, "idle") /\ calls < MaxCalls
  /\ calls' = calls + 1
  /\ call' = [call EXCEPT ![c] = work]

(* The transaction ends: the call answers and its locks are free. *)
End(c) ==
  /\ call' = [call EXCEPT ![c] = Idle]
  /\ idBy' = [i \in Ids |-> IF idBy[i] = c THEN None ELSE idBy[i]]
  /\ rowBy' = [a \in Accounts |-> IF rowBy[a] = c THEN None ELSE rowBy[a]]

WithId(ids) == {a \in Accounts : common[a] \in ids}

UnchangedAgencies == UNCHANGED <<assigned, referrer>>
UnchangedLocks == UNCHANGED <<idBy, rowBy>>

-----------------------------------------------------------------------------
(* Links                                                                    *)

(* link, of tryLinkCommonUser, an administrator or common_user.resolved *)
Link(c, a, i) ==
  /\ Start(c, [Idle EXCEPT !.pc = "first", !.account = a, !.new = i])
  /\ UNCHANGED <<common, requests>> /\ UnchangedAgencies /\ UnchangedLocks

(* common_user.merged: accounts of either id are read outside a transaction.  *)
(* One is moved to the new id; of more, a merge into the one with the new id *)
(* is asked for each.                                                        *)
Merged(c, old, new) ==
  LET some == WithId({old, new})
  IN /\ \/ \E a \in some :
             /\ some = {a} /\ common[a] # new
             /\ Start(c, [Idle EXCEPT !.pc = "first", !.account = a, !.old = old, !.new = new])
        \/ \E target \in some :
             /\ Cardinality(some) > 1
             /\ common[target] = new \/ new \notin {common[a] : a \in some}
             /\ Start(c, [Idle EXCEPT !.pc = "ask", !.account = target, !.others = some \ {target}])
     /\ UNCHANGED <<common, requests>> /\ UnchangedAgencies /\ UnchangedLocks

\* Mutant: the locks are taken in the order the event names the ids.
OrderAsNamed(c) == IF call[c].old = None THEN <<call[c].new>> ELSE <<call[c].old, call[c].new>>

(* The locks of a call, in the order it takes them *)
Order(c) ==
  LET old == call[c].old
      new == call[c].new
  IN IF old = None \/ old = new THEN <<new>>
     ELSE IF Rank[old] < Rank[new] THEN <<old, new>> ELSE <<new, old>>

IdFree(c, i) == idBy[i] \in {None, c}

LockFirst(c) ==
  /\ In(c, "first")
  /\ LET i == Order(c)[1]
     IN /\ IdFree(c, i)
        /\ idBy' = [idBy EXCEPT ![i] = c]
  /\ Goto(c, IF call[c].old = None \/ call[c].old = call[c].new THEN "decide" ELSE "second")
  /\ UNCHANGED <<common, requests, rowBy, calls>> /\ UnchangedAgencies

LockSecond(c) ==
  /\ In(c, "second")
  /\ LET i == Order(c)[2]
     IN /\ IdFree(c, i)
        /\ idBy' = [idBy EXCEPT ![i] = c]
  /\ Goto(c, "decide")
  /\ UNCHANGED <<common, requests, rowBy, calls>> /\ UnchangedAgencies

\* Mutant: an account that has the id is not looked for under the lock.
TakenUnasked(c) == FALSE

(* findConflictingCommonUserLinks *)
Taken(c) == WithId({call[c].new}) \ {call[c].account} # {}

(* What is there under the lock: a link wants no id, a move the old one *)
Expected(c) == common[call[c].account] = call[c].old /\ call[c].old # call[c].new

Decide(c) ==
  /\ In(c, "decide")
  /\ IF Expected(c) /\ ~Taken(c) THEN Goto(c, "write") /\ UnchangedLocks ELSE End(c)
  /\ UNCHANGED <<common, requests, calls>> /\ UnchangedAgencies

(* linkCommonUser, whose UPDATE waits for the row, and the commit *)
Write(c) ==
  LET a == call[c].account
  IN /\ In(c, "write")
     /\ rowBy[a] = None
     /\ common' = [common EXCEPT ![a] = call[c].new]
     /\ End(c)
     /\ UNCHANGED <<requests, calls>> /\ UnchangedAgencies

(* requestAccountMerge, a transaction for each *)
AskMerge(c) ==
  /\ In(c, "ask")
  /\ \E source \in call[c].others :
       /\ requests' = requests \cup {<<source, call[c].account>>}
       /\ IF call[c].others = {source} THEN call' = [call EXCEPT ![c] = Idle]
          ELSE call' = [call EXCEPT ![c].others = @ \ {source}]
  /\ UNCHANGED <<common, calls>> /\ UnchangedAgencies /\ UnchangedLocks

-----------------------------------------------------------------------------
(* customer.assignment_changed: the account is found by its id outside the   *)
(* transaction; two accounts of one id are left to a person.                 *)
AssignmentChanged(c, i, assign, refer) ==
  /\ assign # None \/ refer # None
  /\ \E a \in WithId({i}) :
       /\ WithId({i}) = {a}
       /\ Start(c, [Idle EXCEPT !.pc = "row", !.account = a, !.assign = assign, !.refer = refer])
  /\ UNCHANGED <<common, requests>> /\ UnchangedAgencies /\ UnchangedLocks

\* Mutant: the row is read without FOR UPDATE.
RowFreeUnlocked(a) == TRUE

RowFree(a) == rowBy[a] = None

(* lockById, and the row again: a referrer that is there stays *)
LockRow(c) ==
  LET a == call[c].account
  IN /\ In(c, "row")
     /\ RowFree(a)
     /\ rowBy' = [rowBy EXCEPT ![a] = c]
     /\ call' = [call EXCEPT ![c].pc = "set",
                             ![c].refer = IF referrer[a] = None THEN @ ELSE None]
     /\ UNCHANGED <<common, requests, idBy, calls>> /\ UnchangedAgencies

SetAgencies(c) ==
  LET a == call[c].account
      set(old, value) == IF value = None THEN old ELSE value
  IN /\ In(c, "set")
     /\ assigned' = [assigned EXCEPT ![a] = set(@, call[c].assign)]
     /\ referrer' = [referrer EXCEPT ![a] = set(@, call[c].refer)]
     /\ End(c)
     /\ UNCHANGED <<common, requests, calls>>

(* The process dies or its connection is lost before the commit. *)
Abort(c) ==
  /\ ~In(c, "idle")
  /\ End(c)
  /\ UNCHANGED <<common, requests, calls>> /\ UnchangedAgencies

-----------------------------------------------------------------------------
Step(c) ==
  \/ LockFirst(c) \/ LockSecond(c) \/ Decide(c) \/ Write(c) \/ AskMerge(c)
  \/ LockRow(c) \/ SetAgencies(c)

Next ==
  \E c \in Calls :
    \/ Step(c) \/ Abort(c)
    \/ \E a \in Accounts, i \in Ids : Link(c, a, i)
    \/ \E old, new \in Ids : Merged(c, old, new)
    \/ \E i \in Ids, assign, refer \in Agencies \cup {None} :
         AssignmentChanged(c, i, assign, refer)

Spec == Init /\ [][Next]_vars

(* A call that can go on does; the database keeps no free lock from one that *)
(* waits for it.                                                             *)
Fairness == \A c \in Calls : WF_vars(Step(c))
FairSpec == Spec /\ Fairness

-----------------------------------------------------------------------------
(* Properties                                                               *)

TypeOK ==
  /\ common \in [Accounts -> Ids \cup {None}]
  /\ assigned \in [Accounts -> Agencies \cup {None}]
  /\ referrer \in [Accounts -> Agencies \cup {None}]
  /\ idBy \in [Ids -> Calls \cup {None}]
  /\ rowBy \in [Accounts -> Calls \cup {None}]
  /\ call \in [Calls -> [pc : Phases, account : Accounts \cup {None}, old : Ids \cup {None},
                         new : Ids \cup {None}, assign : Agencies \cup {None},
                         refer : Agencies \cup {None}, others : SUBSET Accounts]]
  /\ requests \subseteq Accounts \X Accounts
  /\ calls \in 0..MaxCalls

\* An id that had one account at most never gets a second one, by links of
\* different accounts, moves after merges and all of them at once.
OneAccountPerId ==
  \A a, b \in Accounts : common[a] = common[b] /\ common[a] # None => a = b

\* The agency an account was registered through is set once, whatever events
\* say later or at the same moment (customer-assignment-changed.handler.ts).
ReferrerSetOnce ==
  [][\A a \in Accounts : referrer[a] # None => referrer'[a] = referrer[a]]_vars

\* Calls that wait for each other's ids, in whichever order events name them,
\* all come to an end.
EveryCallEnds == \A c \in Calls : ~In(c, "idle") ~> In(c, "idle")

\* A link never replaces the id an account has: only a merge moves it, from the
\* id it names (common-user-linking.use-case.ts).
LinkNeverOverwrites ==
  [][\A a \in Accounts :
       (common[a] # None /\ common'[a] # common[a])
         => \E c \in Calls : call[c].account = a /\ call[c].old = common[a]]_vars

=============================================================================
