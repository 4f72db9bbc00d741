--------------------------- MODULE Accounts_proofs ---------------------------
(***************************************************************************)
(* Theorems about who an account belongs to.  CommonUserLinks, for any        *)
(* accounts, ids, agencies and calls: the advisory locks and the looks under  *)
(* them do what a unique index would, and the row lock lets the referrer be   *)
(* set once.  AccountLifecycle, for any people, sign-ins, requests and        *)
(* administrators: one account per person, and a closed one kept out.         *)
(***************************************************************************)
EXTENDS CommonUserLinks, AccountLifecycle, TLAPS

\* A link or a move is about an account and an id, and a move has an old one.
LinksNamed ==
  \A c \in Calls : call[c].pc \in LinkPhases => call[c].account \in Accounts /\ call[c].new \in Ids

\* An assignment, and merges that are asked for, are about an account.
RowsNamed ==
  \A c \in Calls : call[c].pc \in {"row", "set", "ask"} => call[c].account \in Accounts

\* A call with one lock to take
Alone(c) == call[c].old = None \/ call[c].old = call[c].new

\* A call that is past a lock has it.
FirstHeld ==
  \A c \in Calls : call[c].pc = "second" => ~Alone(c) /\ idBy[Order(c)[1]] = c
NewHeld == \A c \in Calls : call[c].pc \in {"decide", "write"} => idBy[call[c].new] = c

\* What a call found under the lock is still so when it writes.
StillFree ==
  \A c \in Calls : call[c].pc = "write" =>
    \A a \in Accounts : common[a] = call[c].new => a = call[c].account

\* A call that is to set the agencies has the row, and what it read there of the
\* referrer is still so.
RowHeld ==
  \A c \in Calls : call[c].pc = "set" =>
    /\ rowBy[call[c].account] = c
    /\ call[c].refer # None => referrer[call[c].account] = None

(* The inductive invariant *)
IInv ==
  /\ TypeOK
  /\ LinksNamed
  /\ RowsNamed
  /\ FirstHeld
  /\ NewHeld
  /\ StillFree
  /\ RowHeld
  /\ OneAccountPerId

-----------------------------------------------------------------------------
LEMMA InitInv == Init => IInv
  <1> SUFFICES ASSUME Init PROVE IInv
    OBVIOUS
  <1>1. TypeOK
    BY GivenAssumption, MaxCallsAssumption DEF Init, TypeOK, Idle, Phases
  <1>2. \A c \in Calls : call[c].pc = "idle"
    BY DEF Init, Idle
  <1>3. LinksNamed /\ RowsNamed /\ FirstHeld /\ NewHeld /\ StillFree /\ RowHeld
    BY <1>2 DEF LinksNamed, RowsNamed, FirstHeld, NewHeld, StillFree, RowHeld, LinkPhases
  <1>4. OneAccountPerId
    BY GivenAssumption DEF Init, OneAccountPerId
  <1>5. QED
    BY <1>1, <1>3, <1>4 DEF IInv

(* The record of a call, and those an update leaves. *)
CallType == [pc : Phases, account : Accounts \cup {None}, old : Ids \cup {None},
             new : Ids \cup {None}, assign : Agencies \cup {None},
             refer : Agencies \cup {None}, others : SUBSET Accounts]

LEMMA IdleIsACall == Idle \in CallType /\ Idle.pc = "idle"
  BY DEF Idle, CallType, Phases

(* The locks of a link, taken in either order, are its old and its new id. *)
LEMMA OrderHasTheNewId ==
  ASSUME NEW c \in Calls, call \in [Calls -> CallType],
         call[c].pc \in LinkPhases, call[c].new \in Ids
  PROVE  /\ Order(c)[1] \in Ids
         /\ Alone(c) => Order(c)[1] = call[c].new
         /\ ~Alone(c) =>
              /\ Order(c)[2] \in Ids
              /\ Order(c)[1] # Order(c)[2]
              /\ call[c].new \in {Order(c)[1], Order(c)[2]}
  BY DEF Order, CallType, Alone

(* A call that ends leaves the others what they have. *)
LEMMA Ending ==
  ASSUME IInv, NEW c \in Calls, End(c)
  PROVE  /\ call' \in [Calls -> CallType]
         /\ idBy' \in [Ids -> Calls \cup {None}]
         /\ rowBy' \in [Accounts -> Calls \cup {None}]
         /\ \A d \in Calls : call'[d] = IF d = c THEN Idle ELSE call[d]
         /\ \A i \in Ids, d \in Calls : d # c /\ idBy[i] = d => idBy'[i] = d
         /\ \A a \in Accounts, d \in Calls : d # c /\ rowBy[a] = d => rowBy'[a] = d
  BY IdleIsACall, NoneAssumption DEF End, IInv, TypeOK, CallType

(* A call begins; nothing is locked yet. *)
LEMMA Beginning ==
  ASSUME IInv, NEW c \in Calls, NEW work \in CallType, Start(c, work),
         work.pc \in {"first", "row", "ask"},
         work.pc = "first" => work.account \in Accounts /\ work.new \in Ids,
         work.pc \in {"row", "ask"} => work.account \in Accounts,
         UNCHANGED <<common, requests>>, UnchangedAgencies, UnchangedLocks
  PROVE  IInv'
  <1> USE DEF Start, UnchangedAgencies, UnchangedLocks
  <1>1. call' \in [Calls -> CallType] /\ \A d \in Calls : call'[d] = IF d = c THEN work ELSE call[d]
    BY DEF IInv, TypeOK, CallType
  <1>2. calls' \in 0..MaxCalls
    BY MaxCallsAssumption DEF IInv, TypeOK
  <1>3. TypeOK'
    BY <1>1, <1>2 DEF IInv, TypeOK, CallType
  <1>4. LinksNamed' /\ RowsNamed'
    BY <1>1 DEF IInv, LinksNamed, RowsNamed, LinkPhases
  <1>5. FirstHeld'
    <2>1. \A d \in Calls : d # c => Order(d)' = Order(d) /\ Alone(d)' = Alone(d)
      BY <1>1 DEF Order, Alone
    <2>2. QED
      BY <1>1, <2>1 DEF IInv, FirstHeld
  <1>6. NewHeld' /\ StillFree' /\ RowHeld'
    BY <1>1 DEF IInv, NewHeld, StillFree, RowHeld
  <1>7. QED
    BY <1>3, <1>4, <1>5, <1>6 DEF IInv, OneAccountPerId

-----------------------------------------------------------------------------
(* Links and moves                                                           *)

(* A lock is taken, and nobody else loses one. *)
LEMMA Locking ==
  ASSUME IInv, NEW c \in Calls, NEW i \in Ids, NEW phase \in {"second", "decide"},
         IdFree(c, i), idBy' = [idBy EXCEPT ![i] = c], Goto(c, phase),
         call[c].pc \in {"first", "second"},
         phase = "second" => ~Alone(c) /\ i = Order(c)[1],
         phase = "decide" => idBy'[call[c].new] = c,
         UNCHANGED <<common, requests, rowBy, calls>>, UnchangedAgencies
  PROVE  IInv'
  <1>1. call \in [Calls -> CallType]
    BY DEF IInv, TypeOK, CallType
  <1>2. /\ call' \in [Calls -> CallType]
        /\ \A d \in Calls : d # c => call'[d] = call[d]
        /\ call'[c] = [call[c] EXCEPT !.pc = phase]
    <2>1. call[c] \in CallType /\ [call[c] EXCEPT !.pc = phase] \in CallType
      BY <1>1 DEF CallType, Phases, LinkPhases
    <2>2. QED
      BY <1>1, <2>1 DEF Goto
  <1>3. \A d \in Calls : Order(d)' = Order(d) /\ Alone(d)' = Alone(d)
    <2>1. \A d \in Calls : call'[d].old = call[d].old /\ call'[d].new = call[d].new
      BY <1>1, <1>2 DEF CallType
    <2>2. QED
      BY <2>1 DEF Order, Alone
  <1>4. /\ idBy' \in [Ids -> Calls \cup {None}] /\ idBy'[i] = c
        /\ \A j \in Ids, d \in Calls : idBy[j] = d /\ d # c => idBy'[j] = d
    BY NoneAssumption DEF IInv, TypeOK, IdFree
  <1>5. TypeOK'
    BY <1>2, <1>4 DEF IInv, TypeOK, CallType, UnchangedAgencies
  <1>6. LinksNamed' /\ RowsNamed'
    BY <1>1, <1>2 DEF IInv, LinksNamed, RowsNamed, LinkPhases, CallType
  <1>7. FirstHeld'
    <2> SUFFICES ASSUME NEW d \in Calls, call'[d].pc = "second"
                 PROVE  ~Alone(d)' /\ idBy'[Order(d)'[1]] = d
      BY DEF FirstHeld
    <2>1. CASE d = c
      BY <2>1, <1>1, <1>2, <1>3, <1>4 DEF CallType
    <2>2. CASE d # c
      <3>1. ~Alone(d) /\ Order(d)[1] \in Ids /\ idBy[Order(d)[1]] = d
        BY <2>2, <1>1, <1>2, OrderHasTheNewId DEF IInv, FirstHeld, LinksNamed, LinkPhases
      <3>2. QED
        BY <3>1, <2>2, <1>3, <1>4
    <2>3. QED
      BY <2>1, <2>2
  <1>8. NewHeld'
    <2> SUFFICES ASSUME NEW d \in Calls, call'[d].pc \in {"decide", "write"}
                 PROVE  idBy'[call'[d].new] = d
      BY DEF NewHeld
    <2>1. CASE d = c
      BY <2>1, <1>1, <1>2 DEF CallType
    <2>2. CASE d # c
      BY <2>2, <1>2, <1>4 DEF IInv, NewHeld, LinksNamed, LinkPhases
    <2>3. QED
      BY <2>1, <2>2
  <1>9. StillFree' /\ RowHeld' /\ OneAccountPerId'
    BY <1>1, <1>2 DEF IInv, StillFree, RowHeld, OneAccountPerId, CallType, UnchangedAgencies
  <1>10. QED
    BY <1>5, <1>6, <1>7, <1>8, <1>9 DEF IInv

LEMMA LockFirstPreserves == ASSUME IInv, NEW c \in Calls, LockFirst(c) PROVE IInv'
  <1> DEFINE i == Order(c)[1]
             phase == IF Alone(c) THEN "decide" ELSE "second"
  <1>1. /\ call \in [Calls -> CallType] /\ call[c].pc = "first" /\ call[c].new \in Ids
        /\ call[c].pc \in LinkPhases
    BY DEF IInv, TypeOK, CallType, LinksNamed, LinkPhases, LockFirst, In
  <1>2. i \in Ids /\ (Alone(c) => i = call[c].new)
    BY <1>1, OrderHasTheNewId
  <1>3. /\ IdFree(c, i) /\ idBy' = [idBy EXCEPT ![i] = c] /\ Goto(c, phase)
        /\ UNCHANGED <<common, requests, rowBy, calls>> /\ UnchangedAgencies
    BY DEF LockFirst, Alone
  <1>4. phase = "decide" => idBy'[call[c].new] = c
    BY <1>1, <1>2, <1>3 DEF IInv, TypeOK
  <1>5. phase \in {"second", "decide"} /\ (phase = "second" => ~Alone(c))
    OBVIOUS
  <1> HIDE DEF phase
  <1>6. QED
    BY <1>1, <1>2, <1>3, <1>4, <1>5, Locking

LEMMA LockSecondPreserves == ASSUME IInv, NEW c \in Calls, LockSecond(c) PROVE IInv'
  <1> DEFINE i == Order(c)[2]
  <1>1. /\ call \in [Calls -> CallType] /\ call[c].pc = "second" /\ call[c].new \in Ids
        /\ call[c].pc \in LinkPhases /\ ~Alone(c) /\ idBy[Order(c)[1]] = c
    BY DEF IInv, TypeOK, CallType, LinksNamed, LinkPhases, FirstHeld, LockSecond, In
  <1>2. i \in Ids /\ Order(c)[1] \in Ids /\ Order(c)[1] # i /\ call[c].new \in {Order(c)[1], i}
    BY <1>1, OrderHasTheNewId
  <1>3. /\ IdFree(c, i) /\ idBy' = [idBy EXCEPT ![i] = c] /\ Goto(c, "decide")
        /\ UNCHANGED <<common, requests, rowBy, calls>> /\ UnchangedAgencies
    BY DEF LockSecond
  <1>4. idBy'[call[c].new] = c
    BY <1>1, <1>2, <1>3 DEF IInv, TypeOK
  <1>5. QED
    BY <1>1, <1>2, <1>3, <1>4, Locking

(* A call ends, and what it wrote leaves the others what they rely on. *)
LEMMA EndingPreserves ==
  ASSUME IInv, NEW c \in Calls, End(c),
         common' \in [Accounts -> Ids \cup {None}],
         assigned' \in [Accounts -> Agencies \cup {None}],
         referrer' \in [Accounts -> Agencies \cup {None}],
         requests' = requests, calls' = calls,
         OneAccountPerId',
         \A d \in Calls, a \in Accounts :
           d # c /\ call[d].pc = "write" /\ common'[a] = call[d].new => a = call[d].account,
         \A d \in Calls :
           d # c /\ call[d].pc = "set" => referrer'[call[d].account] = referrer[call[d].account]
  PROVE  IInv'
  <1>1. /\ call \in [Calls -> CallType]
        /\ call' \in [Calls -> CallType]
        /\ idBy' \in [Ids -> Calls \cup {None}]
        /\ rowBy' \in [Accounts -> Calls \cup {None}]
        /\ \A d \in Calls : call'[d] = IF d = c THEN Idle ELSE call[d]
        /\ \A i \in Ids, d \in Calls : d # c /\ idBy[i] = d => idBy'[i] = d
        /\ \A a \in Accounts, d \in Calls : d # c /\ rowBy[a] = d => rowBy'[a] = d
    BY Ending DEF IInv, TypeOK, CallType
  <1>2. Idle.pc = "idle"
    BY IdleIsACall
  <1>3. TypeOK'
    BY <1>1 DEF IInv, TypeOK, CallType
  <1>4. LinksNamed' /\ RowsNamed'
    BY <1>1, <1>2 DEF IInv, LinksNamed, RowsNamed, LinkPhases
  <1>5. FirstHeld'
    <2> SUFFICES ASSUME NEW d \in Calls, call'[d].pc = "second"
                 PROVE  ~Alone(d)' /\ idBy'[Order(d)'[1]] = d
      BY DEF FirstHeld
    <2>1. d # c /\ call'[d] = call[d]
      BY <1>1, <1>2
    <2>2. ~Alone(d) /\ Order(d)[1] \in Ids /\ idBy[Order(d)[1]] = d
      BY <2>1, <1>1, OrderHasTheNewId DEF IInv, FirstHeld, LinksNamed, LinkPhases
    <2>3. Order(d)' = Order(d) /\ Alone(d)' = Alone(d)
      BY <2>1 DEF Order, Alone
    <2>4. QED
      BY <2>1, <2>2, <2>3, <1>1
  <1>6. NewHeld'
    BY <1>1, <1>2 DEF IInv, NewHeld, LinksNamed, LinkPhases
  <1>7. StillFree'
    BY <1>1, <1>2 DEF StillFree
  <1>8. RowHeld'
    BY <1>1, <1>2 DEF IInv, RowHeld, RowsNamed
  <1>9. QED
    BY <1>3, <1>4, <1>5, <1>6, <1>7, <1>8 DEF IInv

LEMMA AbortPreserves == ASSUME IInv, NEW c \in Calls, Abort(c) PROVE IInv'
  <1>1. End(c) /\ UNCHANGED <<common, requests, calls, assigned, referrer>>
    BY DEF Abort, UnchangedAgencies
  <1>2. OneAccountPerId'
    BY <1>1 DEF IInv, OneAccountPerId
  <1>3. QED
    BY <1>1, <1>2, EndingPreserves DEF IInv, TypeOK, StillFree

LEMMA DecidePreserves == ASSUME IInv, NEW c \in Calls, Decide(c) PROVE IInv'
  <1>1. CASE End(c)
    <2>1. UNCHANGED <<common, requests, calls, assigned, referrer>>
      BY DEF Decide, UnchangedAgencies
    <2>2. OneAccountPerId'
      BY <2>1 DEF IInv, OneAccountPerId
    <2>3. QED
      BY <1>1, <2>1, <2>2, EndingPreserves DEF IInv, TypeOK, StillFree
  <1>2. CASE ~Taken(c) /\ Goto(c, "write") /\ UnchangedLocks
    <2>1. /\ call \in [Calls -> CallType] /\ call[c].pc = "decide"
          /\ UNCHANGED <<common, requests, calls, assigned, referrer, idBy, rowBy>>
      BY <1>2 DEF Decide, In, UnchangedAgencies, UnchangedLocks, IInv, TypeOK, CallType
    <2>2. /\ call' \in [Calls -> CallType]
          /\ \A d \in Calls : d # c => call'[d] = call[d]
          /\ call'[c] = [call[c] EXCEPT !.pc = "write"]
      BY <1>2, <2>1 DEF CallType, Phases, LinkPhases, Goto
    <2>3. TypeOK' /\ OneAccountPerId'
      BY <2>1, <2>2 DEF IInv, TypeOK, CallType, OneAccountPerId
    <2>4. LinksNamed' /\ RowsNamed' /\ NewHeld' /\ RowHeld'
      BY <2>1, <2>2 DEF IInv, LinksNamed, RowsNamed, NewHeld, RowHeld, LinkPhases, CallType
    <2>5. FirstHeld'
      <3>1. \A d \in Calls : d # c => Order(d)' = Order(d) /\ Alone(d)' = Alone(d)
        BY <2>2 DEF Order, Alone
      <3>2. QED
        BY <3>1, <2>1, <2>2 DEF IInv, FirstHeld, CallType
    <2>6. StillFree'
      <3>1. \A a \in Accounts : common[a] = call[c].new => a = call[c].account
        BY <1>2, <2>1 DEF Taken, WithId
      <3>2. QED
        BY <3>1, <2>1, <2>2 DEF IInv, StillFree, CallType
    <2>7. QED
      BY <2>3, <2>4, <2>5, <2>6 DEF IInv
  <1>3. QED
    BY <1>1, <1>2 DEF Decide

(* Of two that write, each has its id to itself. *)
LEMMA WritePreserves == ASSUME IInv, NEW c \in Calls, Write(c) PROVE IInv'
  <1> DEFINE a == call[c].account
             i == call[c].new
  <1>1. /\ call[c].pc = "write" /\ End(c) /\ common' = [common EXCEPT ![a] = i]
        /\ UNCHANGED <<requests, calls, assigned, referrer>>
    BY DEF Write, In, UnchangedAgencies
  <1>2. /\ a \in Accounts /\ i \in Ids /\ idBy[i] = c
        /\ \A b \in Accounts : common[b] = i => b = a
    BY <1>1 DEF IInv, LinksNamed, LinkPhases, NewHeld, StillFree
  <1> HIDE DEF a, i
  <1>3. /\ common \in [Accounts -> Ids \cup {None}]
        /\ common' \in [Accounts -> Ids \cup {None}]
        /\ \A b \in Accounts : common'[b] = IF b = a THEN i ELSE common[b]
    BY <1>1, <1>2 DEF IInv, TypeOK
  <1>4. OneAccountPerId'
    BY <1>2, <1>3 DEF IInv, OneAccountPerId
  <1>5. \A d \in Calls, b \in Accounts :
          d # c /\ call[d].pc = "write" /\ common'[b] = call[d].new => b = call[d].account
    <2> SUFFICES ASSUME NEW d \in Calls, NEW b \in Accounts, d # c, call[d].pc = "write",
                        common'[b] = call[d].new
                 PROVE  b = call[d].account
      OBVIOUS
    <2>1. idBy[call[d].new] = d
      BY DEF IInv, NewHeld
    <2>2. call[d].new # i
      BY <2>1, <1>2
    <2>3. common[b] = call[d].new
      BY <2>2, <1>3
    <2>4. QED
      BY <2>3 DEF IInv, StillFree
  <1>6. QED
    BY <1>1, <1>3, <1>4, <1>5, EndingPreserves DEF IInv, TypeOK

LEMMA AskMergePreserves == ASSUME IInv, NEW c \in Calls, AskMerge(c) PROVE IInv'
  <1>1. PICK source \in call[c].others :
          /\ requests' = requests \cup {<<source, call[c].account>>}
          /\ IF call[c].others = {source} THEN call' = [call EXCEPT ![c] = Idle]
             ELSE call' = [call EXCEPT ![c].others = @ \ {source}]
    BY DEF AskMerge
  <1>2. /\ call \in [Calls -> CallType] /\ call[c].pc = "ask" /\ call[c].account \in Accounts
        /\ UNCHANGED <<common, calls, assigned, referrer, idBy, rowBy>>
    BY DEF AskMerge, In, IInv, TypeOK, CallType, UnchangedAgencies, UnchangedLocks, RowsNamed
  <1>3. source \in Accounts
    BY <1>1, <1>2 DEF CallType
  <1>4. /\ call' \in [Calls -> CallType]
        /\ \A d \in Calls : d # c => call'[d] = call[d]
        /\ call'[c].pc \in {"idle", "ask"}
        /\ call'[c].pc = "ask" => call'[c].account = call[c].account
    <2>1. CASE call[c].others = {source}
      BY <1>1, <1>2, <2>1, IdleIsACall
    <2>2. CASE call[c].others # {source}
      <3> DEFINE rest == [call[c] EXCEPT !.others = call[c].others \ {source}]
      <3>1. call' = [call EXCEPT ![c] = rest]
        BY <1>1, <2>2
      <3>2. call[c] \in CallType /\ call[c].others \ {source} \in SUBSET Accounts
        BY <1>2 DEF CallType
      <3>3. rest \in CallType /\ rest.pc = call[c].pc /\ rest.account = call[c].account
        BY <3>2 DEF CallType
      <3> HIDE DEF rest
      <3>4. QED
        BY <3>1, <3>3, <1>2
    <2>3. QED
      BY <2>1, <2>2
  <1>5. TypeOK'
    BY <1>1, <1>2, <1>3, <1>4 DEF IInv, TypeOK, CallType
  <1>6. LinksNamed' /\ RowsNamed' /\ NewHeld' /\ StillFree' /\ RowHeld' /\ OneAccountPerId'
    BY <1>2, <1>4
       DEF IInv, LinksNamed, RowsNamed, NewHeld, StillFree, RowHeld, OneAccountPerId, LinkPhases
  <1>7. FirstHeld'
    <2>1. \A d \in Calls : d # c => Order(d)' = Order(d) /\ Alone(d)' = Alone(d)
      BY <1>4 DEF Order, Alone
    <2>2. QED
      BY <1>2, <1>4, <2>1 DEF IInv, FirstHeld
  <1>8. QED
    BY <1>5, <1>6, <1>7 DEF IInv

-----------------------------------------------------------------------------
(* Assignments                                                               *)

LEMMA LockRowPreserves == ASSUME IInv, NEW c \in Calls, LockRow(c) PROVE IInv'
  <1> DEFINE a == call[c].account
             refer == IF referrer[a] = None THEN call[c].refer ELSE None
  <1>1. /\ call \in [Calls -> CallType] /\ call[c].pc = "row" /\ a \in Accounts
        /\ UNCHANGED <<common, calls, assigned, referrer, idBy, requests>>
        /\ rowBy[a] = None /\ rowBy' = [rowBy EXCEPT ![a] = c]
        /\ call' = [call EXCEPT ![c] = [@ EXCEPT !.pc = "set", !.refer = refer]]
    BY DEF LockRow, RowFree, In, IInv, TypeOK, CallType, UnchangedAgencies, RowsNamed
  <1>2. [call[c] EXCEPT !.pc = "set", !.refer = refer] \in CallType
    <2>1. call[c] \in CallType /\ refer \in Agencies \cup {None} /\ "set" \in Phases
      BY <1>1 DEF CallType, Phases
    <2> HIDE DEF refer
    <2>2. QED
      BY <2>1 DEF CallType
  <1>3. /\ call' \in [Calls -> CallType]
        /\ \A d \in Calls : d # c => call'[d] = call[d]
        /\ call'[c] = [call[c] EXCEPT !.pc = "set", !.refer = refer]
    BY <1>1, <1>2
  <1>4. call'[c].pc = "set" /\ call'[c].account = a /\ call'[c].refer = refer
    BY <1>1, <1>3 DEF CallType
  <1>5. referrer[a] # None => refer = None
    OBVIOUS
  <1> HIDE DEF a, refer
  <1>6. TypeOK'
    BY <1>1, <1>3 DEF IInv, TypeOK, CallType
  <1>7. LinksNamed' /\ RowsNamed' /\ NewHeld' /\ StillFree' /\ OneAccountPerId'
    BY <1>1, <1>3, <1>4
       DEF IInv, LinksNamed, RowsNamed, NewHeld, StillFree, OneAccountPerId, LinkPhases
  <1>8. FirstHeld'
    <2>1. \A d \in Calls : d # c => Order(d)' = Order(d) /\ Alone(d)' = Alone(d)
      BY <1>3 DEF Order, Alone
    <2>2. QED
      BY <1>1, <1>3, <1>4, <2>1 DEF IInv, FirstHeld
  <1>9. RowHeld'
    <2> SUFFICES ASSUME NEW d \in Calls, call'[d].pc = "set"
                 PROVE  /\ rowBy'[call'[d].account] = d
                        /\ call'[d].refer # None => referrer'[call'[d].account] = None
      BY DEF RowHeld
    <2>1. CASE d = c
      BY <2>1, <1>1, <1>4, <1>5 DEF IInv, TypeOK
    <2>2. CASE d # c
      <3>1. /\ rowBy[call[d].account] = d
            /\ call[d].refer # None => referrer[call[d].account] = None
        BY <2>2, <1>3 DEF IInv, RowHeld
      <3>2. call[d].account # a
        BY <3>1, <1>1, NoneAssumption
      <3>3. QED
        BY <2>2, <3>1, <3>2, <1>1, <1>3 DEF IInv, TypeOK, RowsNamed
    <2>3. QED
      BY <2>1, <2>2
  <1>10. QED
    BY <1>6, <1>7, <1>8, <1>9 DEF IInv

(* The call that sets an account's agencies is the one that has the row. *)
LEMMA SettingIsAlone ==
  ASSUME IInv, NEW c \in Calls, SetAgencies(c)
  PROVE  /\ call[c].account \in Accounts
         /\ \A d \in Calls : d # c /\ call[d].pc = "set" => call[d].account # call[c].account
         /\ assigned' \in [Accounts -> Agencies \cup {None}]
         /\ referrer' \in [Accounts -> Agencies \cup {None}]
         /\ \A b \in Accounts : b # call[c].account => referrer'[b] = referrer[b]
         /\ \A b \in Accounts : referrer[b] # None => referrer'[b] = referrer[b]
  <1> DEFINE a == call[c].account
             set(old, value) == IF value = None THEN old ELSE value
  <1>1. /\ a \in Accounts /\ call[c] \in CallType
        /\ rowBy[a] = c /\ (call[c].refer # None => referrer[a] = None)
    BY DEF IInv, TypeOK, CallType, RowsNamed, RowHeld, SetAgencies, In
  <1>2. \A d \in Calls : d # c /\ call[d].pc = "set" => call[d].account # a
    BY <1>1 DEF IInv, RowHeld
  <1>3. /\ assigned' = [assigned EXCEPT ![a] = set(@, call[c].assign)]
        /\ referrer' = [referrer EXCEPT ![a] = set(@, call[c].refer)]
    BY DEF SetAgencies
  <1>4. /\ set(assigned[a], call[c].assign) \in Agencies \cup {None}
        /\ set(referrer[a], call[c].refer) \in Agencies \cup {None}
        /\ referrer[a] # None => set(referrer[a], call[c].refer) = referrer[a]
    BY <1>1 DEF IInv, TypeOK, CallType
  <1> HIDE DEF a, set
  <1>5. /\ assigned' \in [Accounts -> Agencies \cup {None}]
        /\ referrer' \in [Accounts -> Agencies \cup {None}]
        /\ \A b \in Accounts : b # a => referrer'[b] = referrer[b]
        /\ \A b \in Accounts : referrer[b] # None => referrer'[b] = referrer[b]
    BY <1>1, <1>3, <1>4 DEF IInv, TypeOK
  <1>6. QED
    BY <1>1, <1>2, <1>5 DEF a

LEMMA SetAgenciesPreserves == ASSUME IInv, NEW c \in Calls, SetAgencies(c) PROVE IInv'
  <1>1. End(c) /\ UNCHANGED <<common, requests, calls>>
    BY DEF SetAgencies
  <1>2. OneAccountPerId'
    BY <1>1 DEF IInv, OneAccountPerId
  <1>3. \A d \in Calls :
          d # c /\ call[d].pc = "set" => referrer'[call[d].account] = referrer[call[d].account]
    BY SettingIsAlone DEF IInv, RowsNamed
  <1>4. QED
    BY <1>1, <1>2, <1>3, SettingIsAlone, EndingPreserves DEF IInv, TypeOK, StillFree

-----------------------------------------------------------------------------
(* Calls begin                                                               *)

LEMMA LinkPreserves ==
  ASSUME IInv, NEW c \in Calls, NEW a \in Accounts, NEW i \in Ids, Link(c, a, i)
  PROVE  IInv'
  <1> DEFINE work == [Idle EXCEPT !.pc = "first", !.account = a, !.new = i]
  <1>1. work \in CallType /\ work.pc = "first" /\ work.account = a /\ work.new = i
    BY DEF CallType, Idle, Phases, LinkPhases
  <1>2. /\ Start(c, work) /\ UNCHANGED <<common, requests>>
        /\ UnchangedAgencies /\ UnchangedLocks
    BY DEF Link
  <1> HIDE DEF work
  <1>3. QED
    BY <1>1, <1>2, Beginning

LEMMA MergedPreserves ==
  ASSUME IInv, NEW c \in Calls, NEW old \in Ids, NEW new \in Ids, Merged(c, old, new)
  PROVE  IInv'
  <1> DEFINE some == WithId({old, new})
             move(a) == [Idle EXCEPT !.pc = "first", !.account = a, !.old = old, !.new = new]
             ask(a) == [Idle EXCEPT !.pc = "ask", !.account = a, !.others = some \ {a}]
  <1>1. some \subseteq Accounts
    BY DEF WithId
  <1>2. UNCHANGED <<common, requests>> /\ UnchangedAgencies /\ UnchangedLocks
    BY DEF Merged
  <1>3. PICK a \in some : Start(c, move(a)) \/ Start(c, ask(a))
    BY DEF Merged
  <1>4. move(a) \in CallType /\ move(a).pc = "first" /\ move(a).account = a /\ move(a).new = new
    BY <1>1 DEF CallType, Idle, Phases, LinkPhases
  <1>5. ask(a) \in CallType /\ ask(a).pc = "ask" /\ ask(a).account = a
    BY <1>1 DEF CallType, Idle, Phases
  <1> HIDE DEF some, move, ask
  <1>6. CASE Start(c, move(a))
    BY <1>1, <1>2, <1>4, <1>6, Beginning
  <1>7. CASE Start(c, ask(a))
    BY <1>1, <1>2, <1>5, <1>7, Beginning
  <1>8. QED
    BY <1>3, <1>6, <1>7

LEMMA AssignmentChangedPreserves ==
  ASSUME IInv, NEW c \in Calls, NEW i \in Ids, NEW assign \in Agencies \cup {None},
         NEW refer \in Agencies \cup {None}, AssignmentChanged(c, i, assign, refer)
  PROVE  IInv'
  <1> DEFINE work(a) == [Idle EXCEPT !.pc = "row", !.account = a, !.assign = assign, !.refer = refer]
  <1>1. PICK a \in WithId({i}) : Start(c, work(a))
    BY DEF AssignmentChanged
  <1>2. a \in Accounts
    BY DEF WithId
  <1>3. work(a) \in CallType /\ work(a).pc = "row" /\ work(a).account = a
    BY <1>2 DEF CallType, Idle, Phases
  <1>4. UNCHANGED <<common, requests>> /\ UnchangedAgencies /\ UnchangedLocks
    BY DEF AssignmentChanged
  <1> HIDE DEF work
  <1>5. QED
    BY <1>1, <1>2, <1>3, <1>4, Beginning

-----------------------------------------------------------------------------
LEMMA NextPreserves == IInv /\ [Next]_vars => IInv'
  <1> SUFFICES ASSUME IInv, [Next]_vars PROVE IInv'
    OBVIOUS
  <1>1. CASE UNCHANGED vars
    <2>1. \A c \in Calls : Order(c)' = Order(c) /\ Alone(c)' = Alone(c)
      BY <1>1 DEF vars, Order, Alone
    <2>2. FirstHeld'
      BY <1>1, <2>1 DEF IInv, vars, FirstHeld
    <2>3. QED
      BY <1>1, <2>2
         DEF vars, IInv, TypeOK, LinksNamed, RowsNamed, NewHeld, StillFree, RowHeld, OneAccountPerId
  <1>2. CASE Next
    <2>1. PICK c \in Calls :
            \/ Step(c) \/ Abort(c)
            \/ \E a \in Accounts, i \in Ids : Link(c, a, i)
            \/ \E old, new \in Ids : Merged(c, old, new)
            \/ \E i \in Ids, assign, refer \in Agencies \cup {None} :
                 AssignmentChanged(c, i, assign, refer)
      BY <1>2 DEF Next
    <2>2. CASE Step(c)
      BY <2>2, LockFirstPreserves, LockSecondPreserves, DecidePreserves, WritePreserves,
         AskMergePreserves, LockRowPreserves, SetAgenciesPreserves DEF Step
    <2>3. CASE Abort(c)
      BY <2>3, AbortPreserves
    <2>4. CASE \E a \in Accounts, i \in Ids : Link(c, a, i)
      BY <2>4, LinkPreserves
    <2>5. CASE \E old, new \in Ids : Merged(c, old, new)
      BY <2>5, MergedPreserves
    <2>6. CASE \E i \in Ids, assign, refer \in Agencies \cup {None} :
                 AssignmentChanged(c, i, assign, refer)
      BY <2>6, AssignmentChangedPreserves
    <2>7. QED
      BY <2>1, <2>2, <2>3, <2>4, <2>5, <2>6
  <1>3. QED
    BY <1>1, <1>2

LEMMA Invariance == Spec => []IInv
  BY InitInv, NextPreserves, PTL DEF Spec

(* Every variable has its type; an idle call remembers nothing it could use. *)
THEOREM Typing == Spec => []TypeOK
  <1>1. IInv => TypeOK
    BY DEF IInv
  <1>2. QED
    BY <1>1, Invariance, PTL

(* Locking the ids and looking under the lock does what a unique index on    *)
(* common_user_id would do: no interleaving of links and moves gives an id    *)
(* to two accounts (common-user-linking.use-case.ts:48).                     *)
THEOREM Uniqueness == Spec => []OneAccountPerId
  <1>1. IInv => OneAccountPerId
    BY DEF IInv
  <1>2. QED
    BY <1>1, Invariance, PTL

(* With FOR UPDATE the agency an account was registered through is set once, *)
(* for any number of events at once (customer-assignment-changed.handler.ts). *)
THEOREM ReferrerIsFinal == Spec => ReferrerSetOnce
  <1> DEFINE Kept == \A a \in Accounts : referrer[a] # None => referrer'[a] = referrer[a]
  <1>1. IInv /\ [Next]_vars => [Kept]_vars
    <2> SUFFICES ASSUME IInv, Next PROVE Kept
      OBVIOUS
    <2>1. PICK c \in Calls :
            \/ Step(c) \/ Abort(c)
            \/ \E a \in Accounts, i \in Ids : Link(c, a, i)
            \/ \E old, new \in Ids : Merged(c, old, new)
            \/ \E i \in Ids, assign, refer \in Agencies \cup {None} :
                 AssignmentChanged(c, i, assign, refer)
      BY DEF Next
    <2>2. SetAgencies(c) \/ referrer' = referrer
      BY <2>1 DEF Step, Abort, Link, Merged, AssignmentChanged, LockFirst, LockSecond, Decide,
                  Write, AskMerge, LockRow, UnchangedAgencies
    <2>3. QED
      BY <2>2, SettingIsAlone
  <1> HIDE DEF Kept
  <1>2. Spec => [][Kept]_vars
    BY <1>1, Invariance, PTL DEF Spec
  <1>3. QED
    BY <1>2 DEF ReferrerSetOnce, Kept

-----------------------------------------------------------------------------
(* AccountLifecycle.  A sign-in that creates an account has found no row of  *)
(* its person, and the account that another creates meanwhile is too young    *)
(* for the anonymisation to touch its row.                                   *)

Statuses == {"none", "ACTIVE", "REVIEWING", "CLOSED"}
SignInPhases ==
  {"start", "raw", "hash", "create", "raw again", "hash again", "session", "over", "refused"}
RequestPhases ==
  {"idle", "guard", "guard account", "serve", "status", "wallet", "forfeit", "close"}

\* What the variables hold; no wallet falls below zero.
LifecycleTypeOK ==
  /\ status \in [AccountIds -> Statuses]
  /\ identities \subseteq [person : People, form : {"raw", "hash"}, account : AccountIds]
  /\ balance \in [AccountIds -> 0..MaxBalance]
  /\ forfeits \subseteq AccountIds \X (0..MaxBalance)
  /\ past \subseteq AccountIds
  /\ targets \subseteq AccountIds
  /\ session \in [Logins -> AccountIds \cup {Nobody}]
  /\ revoked \subseteq Logins
  /\ at \in [Logins -> SignInPhases]
  /\ who \in [Logins -> People \cup {Nobody}]
  /\ acct \in [Logins -> AccountIds \cup {Nobody}]
  /\ pc \in [Requests -> RequestPhases]
  /\ token \in [Requests -> Logins \cup {Nobody}]
  /\ sum \in [Requests -> 0..MaxBalance]
  /\ late \subseteq Requests
  /\ admin \in [Admins -> {"idle", "REVIEWING", "ACTIVE"}]
  /\ on \in [Admins -> AccountIds \cup {Nobody}]
  /\ reopened \subseteq AccountIds

\* Whatever names an account names one that has a row.
RowsExist ==
  /\ \A i \in identities : status[i.account] # "none"
  /\ \A a \in past \cup targets : status[a] # "none"
  /\ \A m \in Admins : admin[m] # "idle" => on[m] \in AccountIds /\ status[on[m]] # "none"
  /\ \A l \in Logins :
       at[l] = "session" => acct[l] \in AccountIds /\ status[acct[l]] # "none"
  /\ \A l \in Logins : session[l] # Nobody => at[l] = "over" /\ status[session[l]] # "none"

\* Without the key nothing is hashed, nor about to be.
HashedUnderKey ==
  /\ \A i \in identities : i.form = "hash" => HashKey
  /\ \A a \in targets : HashKey

Looking == {"hash", "create", "raw again", "hash again"}

\* A sign-in past its first look knows of no old account of its person.
LooksHold ==
  \A l \in Logins :
    /\ at[l] # "start" => who[l] \in People
    /\ at[l] \in Looking =>
         \A i \in Rows(who[l], "raw") : i.account \notin past \cup targets
    /\ at[l] = "create" => Rows(who[l], "hash") = {}
    /\ at[l] = "raw again" => Rows(who[l], "raw") # {}
    /\ at[l] # "hash again"

\* A request has a session, with an account.
TokensHold ==
  \A r \in Requests : pc[r] # "idle" => token[r] \in Logins /\ session[token[r]] # Nobody

\* A request that came too late waits for the guard, unless the account was reopened.
LateHeld ==
  \A r \in late :
    /\ pc[r] # "idle"
    /\ \/ Account(r) \in reopened
       \/ status[Account(r)] = "CLOSED" /\ pc[r] \in {"guard", "guard account"}

LifecycleInv ==
  /\ LifecycleTypeOK
  /\ RowsExist
  /\ HashedUnderKey
  /\ OneAccountPerPerson
  /\ LooksHold
  /\ TokensHold
  /\ LateHeld

LEMMA LifecycleInvInit == LifecycleInit => LifecycleInv
<1> SUFFICES ASSUME LifecycleInit
             PROVE  LifecycleInv
  OBVIOUS
<1> USE DEF LifecycleInit
<1>1. LifecycleTypeOK
  BY MaxBalanceAssumption DEF LifecycleTypeOK, Statuses, SignInPhases, RequestPhases
<1>2. RowsExist /\ HashedUnderKey /\ OneAccountPerPerson
  BY DEF RowsExist, HashedUnderKey, OneAccountPerPerson
<1>3. LooksHold
  BY DEF LooksHold, Looking
<1>4. TokensHold /\ LateHeld
  BY DEF TokensHold, LateHeld
<1> QED BY <1>1, <1>2, <1>3, <1>4 DEF LifecycleInv

-----------------------------------------------------------------------------
(* Requests.                                                                 *)

\* What no step of a request disturbs, the closure aside.
LEMMA RequestsAlone ==
  ASSUME LifecycleInv, LifecycleTypeOK', TokensHold', LateHeld',
         UNCHANGED <<status, identities, past, targets, reopened,
                     sessionVars, loginVars, adminVars>>
  PROVE  LifecycleInv'
<1> USE DEF LifecycleInv, sessionVars, loginVars, adminVars
<1>1. RowsExist'
  BY DEF RowsExist
<1>2. HashedUnderKey' /\ OneAccountPerPerson'
  BY DEF HashedUnderKey, OneAccountPerPerson
<1>3. LooksHold'
  BY DEF LooksHold, Rows
<1> QED BY <1>1, <1>2, <1>3

\* A request that goes on keeps its session, and if it came too late it is let on
\* only for a reopened account.
LEMMA GoingOn ==
  ASSUME LifecycleInv, NEW r \in Requests, NEW phase \in RequestPhases \ {"idle"},
         pc[r] # "idle", GoOn(r, phase),
         UNCHANGED <<token, late, session, status, reopened>>,
         r \in late => Account(r) \in reopened \/ phase = "guard account"
  PROVE  /\ pc' \in [Requests -> RequestPhases]
         /\ TokensHold'
         /\ LateHeld'
<1> USE DEF LifecycleInv, LifecycleTypeOK, GoOn
<1>1. pc' \in [Requests -> RequestPhases] /\ pc'[r] = phase /\ \A s \in Requests \ {r} : pc'[s] = pc[s]
  OBVIOUS
<1>2. TokensHold'
  BY <1>1 DEF TokensHold
<1>3. ASSUME NEW s \in late'
      PROVE  /\ pc'[s] # "idle"
             /\ \/ Account(s)' \in reopened'
                \/ status'[Account(s)'] = "CLOSED" /\ pc'[s] \in {"guard", "guard account"}
  <2>1. s \in late /\ s \in Requests
    BY <1>3
  <2>2. Account(s)' = Account(s)
    BY DEF Account
  <2>3. \/ Account(s) \in reopened
        \/ status[Account(s)] = "CLOSED" /\ pc[s] \in {"guard", "guard account"}
    BY <2>1 DEF LateHeld
  <2>4. pc[s] # "idle" /\ status' = status /\ reopened' = reopened
    BY <2>1 DEF LateHeld
  <2>5. CASE s = r
    <3>1. Account(r) \in reopened \/ pc'[r] = "guard account"
      BY <1>1, <2>1, <2>5
    <3> QED BY <1>1, <2>2, <2>3, <2>4, <2>5, <3>1
  <2>6. CASE s # r
    <3>1. pc'[s] = pc[s]
      BY <1>1, <2>1, <2>6
    <3> QED BY <2>2, <2>3, <2>4, <3>1
  <2> QED BY <2>5, <2>6
<1>4. LateHeld'
  BY <1>3 DEF LateHeld
<1> QED BY <1>1, <1>2, <1>4

\* A request that is over leaves the others as they were.
LEMMA BeingOver ==
  ASSUME LifecycleInv, NEW r \in Requests, Over(r),
         UNCHANGED <<session, status, reopened>>
  PROVE  /\ pc' \in [Requests -> RequestPhases]
         /\ token' \in [Requests -> Logins \cup {Nobody}]
         /\ sum' \in [Requests -> 0..MaxBalance]
         /\ late' \subseteq Requests
         /\ TokensHold'
         /\ LateHeld'
<1> USE DEF LifecycleInv, LifecycleTypeOK
<1>1. pc' \in [Requests -> RequestPhases] /\ pc'[r] = "idle" /\ \A s \in Requests \ {r} : pc'[s] = pc[s]
  BY DEF Over, GoOn, RequestPhases
<1>2. token' \in [Requests -> Logins \cup {Nobody}] /\ \A s \in Requests \ {r} : token'[s] = token[s]
  BY DEF Over
<1>3. sum' \in [Requests -> 0..MaxBalance]
  BY MaxBalanceAssumption DEF Over
<1>4. late' = late \ {r}
  BY DEF Over
<1>5. TokensHold'
  BY <1>1, <1>2 DEF TokensHold
<1>6. ASSUME NEW s \in late'
      PROVE  /\ pc'[s] # "idle"
             /\ \/ Account(s)' \in reopened'
                \/ status'[Account(s)'] = "CLOSED" /\ pc'[s] \in {"guard", "guard account"}
  <2>1. s \in late /\ s \in Requests \ {r}
    BY <1>4, <1>6
  <2>2. Account(s)' = Account(s)
    BY <1>2, <2>1 DEF Account
  <2>3. pc'[s] = pc[s] /\ status' = status /\ reopened' = reopened
    BY <1>1, <2>1
  <2>4. /\ pc[s] # "idle"
        /\ \/ Account(s) \in reopened
           \/ status[Account(s)] = "CLOSED" /\ pc[s] \in {"guard", "guard account"}
    BY <2>1 DEF LateHeld
  <2> QED BY <2>2, <2>3, <2>4
<1>7. LateHeld'
  BY <1>6 DEF LateHeld
<1> QED BY <1>1, <1>2, <1>3, <1>4, <1>5, <1>7

LEMMA CallKeeps ==
  ASSUME LifecycleInv, NEW r \in Requests, NEW l \in Logins, Call(r, l)
  PROVE  LifecycleInv'
<1> USE DEF LifecycleInv, LifecycleTypeOK
<1>1. UNCHANGED <<sum, accountVars, sessionVars, loginVars, adminVars>>
  BY DEF Call
<1>2. pc' \in [Requests -> RequestPhases] /\ pc'[r] = "guard" /\ \A s \in Requests \ {r} : pc'[s] = pc[s]
  BY DEF Call, GoOn, RequestPhases
<1>3. token' \in [Requests -> Logins \cup {Nobody}] /\ token'[r] = l /\ \A s \in Requests \ {r} : token'[s] = token[s]
  BY DEF Call
<1>4. pc[r] = "idle" /\ session[l] # Nobody
  BY DEF Call
<1>5. late' \in {late, late \cup {r}} /\ (r \in late' => r \in late \/ status[session[l]] = "CLOSED")
  BY DEF Call
<1>6. LifecycleTypeOK'
  BY <1>1, <1>2, <1>3, <1>5 DEF accountVars, sessionVars, loginVars, adminVars
<1>7. TokensHold'
  BY <1>1, <1>2, <1>3, <1>4 DEF TokensHold, sessionVars
<1>8. ASSUME NEW s \in late'
      PROVE  /\ pc'[s] # "idle"
             /\ \/ Account(s)' \in reopened'
                \/ status'[Account(s)'] = "CLOSED" /\ pc'[s] \in {"guard", "guard account"}
  <2>1. CASE s = r
    BY <1>1, <1>2, <1>3, <1>4, <1>5, <1>8, <2>1 DEF LateHeld, Account, accountVars, sessionVars
  <2>2. CASE s # r
    <3>1. s \in late /\ s \in Requests \ {r}
      BY <1>5, <1>8, <2>2
    <3>2. Account(s)' = Account(s)
      BY <1>1, <1>3, <3>1 DEF Account, sessionVars
    <3> QED BY <1>1, <1>2, <3>1, <3>2 DEF LateHeld, accountVars
  <2> QED BY <2>1, <2>2
<1>9. LateHeld'
  BY <1>8 DEF LateHeld
<1> QED BY <1>1, <1>6, <1>7, <1>9, RequestsAlone DEF accountVars

LEMMA GuardSessionKeeps ==
  ASSUME LifecycleInv, NEW r \in Requests, GuardSession(r)
  PROVE  LifecycleInv'
<1> USE DEF LifecycleInv, LifecycleTypeOK
<1>1. UNCHANGED <<accountVars, sessionVars, loginVars, adminVars>> /\ pc[r] = "guard"
  BY DEF GuardSession
<1>2. UNCHANGED <<session, status, reopened>>
  BY <1>1 DEF accountVars, sessionVars
<1>3. \/ Over(r)
      \/ GoOn(r, "guard account") /\ UNCHANGED <<token, sum, late>>
  BY DEF GuardSession
<1>4. "guard account" \in RequestPhases \ {"idle"}
  BY DEF RequestPhases
<1>5. LifecycleTypeOK' /\ TokensHold' /\ LateHeld'
  BY <1>1, <1>2, <1>3, <1>4, BeingOver, GoingOn DEF accountVars, sessionVars, loginVars, adminVars
<1> QED BY <1>1, <1>5, RequestsAlone DEF accountVars

LEMMA GuardAccountKeeps ==
  ASSUME LifecycleInv, NEW r \in Requests, GuardAccount(r)
  PROVE  LifecycleInv'
<1> USE DEF LifecycleInv, LifecycleTypeOK
<1>1. UNCHANGED <<accountVars, sessionVars, loginVars, adminVars>> /\ pc[r] = "guard account"
  BY DEF GuardAccount
<1>2. UNCHANGED <<session, status, reopened>>
  BY <1>1 DEF accountVars, sessionVars
<1>3. \/ Over(r)
      \/ /\ LetIn(r)
         /\ \E phase \in {"serve", "status"} : GoOn(r, phase)
         /\ UNCHANGED <<token, sum, late>>
  BY DEF GuardAccount
<1>4. LetIn(r) => (r \in late => Account(r) \in reopened)
  BY DEF LetIn, LateHeld
<1>5. {"serve", "status"} \subseteq RequestPhases \ {"idle"}
  BY DEF RequestPhases
<1>6. LifecycleTypeOK' /\ TokensHold' /\ LateHeld'
  BY <1>1, <1>2, <1>3, <1>4, <1>5, BeingOver, GoingOn DEF accountVars, sessionVars, loginVars, adminVars
<1> QED BY <1>1, <1>6, RequestsAlone DEF accountVars

\* Past the guard, a late request is one of a reopened account.
LEMMA LetOn ==
  ASSUME LifecycleInv, NEW r \in late, pc[r] \notin {"guard", "guard account"}
  PROVE  Account(r) \in reopened
BY DEF LifecycleInv, LateHeld

\* The account of a request's session
LEMMA AccountOfRequest ==
  ASSUME LifecycleInv, NEW r \in Requests, pc[r] # "idle"
  PROVE  /\ token[r] \in Logins
         /\ Account(r) \in AccountIds
         /\ status[Account(r)] # "none"
BY NobodyAssumption DEF LifecycleInv, LifecycleTypeOK, TokensHold, RowsExist, Account

LEMMA ServeKeeps ==
  ASSUME LifecycleInv, NEW r \in Requests, Serve(r)
  PROVE  LifecycleInv'
<1> USE DEF LifecycleInv, LifecycleTypeOK
<1>1. UNCHANGED <<status, identities, forfeits, past, targets, reopened,
                  sessionVars, loginVars, adminVars>>
  BY DEF Serve
<1>2. UNCHANGED <<session, status, reopened>> /\ Over(r)
  BY <1>1 DEF Serve, sessionVars
<1>3. balance' \in [AccountIds -> 0..MaxBalance]
  BY MaxBalanceAssumption, AccountOfRequest DEF Serve
<1>4. LifecycleTypeOK' /\ TokensHold' /\ LateHeld'
  BY <1>1, <1>2, <1>3, BeingOver DEF sessionVars, loginVars, adminVars
<1> QED BY <1>1, <1>4, RequestsAlone

LEMMA ReadStatusKeeps ==
  ASSUME LifecycleInv, NEW r \in Requests, ReadStatus(r)
  PROVE  LifecycleInv'
<1> USE DEF LifecycleInv, LifecycleTypeOK
<1>1. UNCHANGED <<accountVars, sessionVars, loginVars, adminVars>> /\ pc[r] = "status"
  BY DEF ReadStatus
<1>2. UNCHANGED <<session, status, reopened>>
  BY <1>1 DEF accountVars, sessionVars
<1>3. \/ Over(r)
      \/ GoOn(r, "wallet") /\ UNCHANGED <<token, sum, late>>
  BY DEF ReadStatus
<1>4. r \in late => Account(r) \in reopened
  BY <1>1, LetOn
<1>5. "wallet" \in RequestPhases \ {"idle"}
  BY DEF RequestPhases
<1>6. LifecycleTypeOK' /\ TokensHold' /\ LateHeld'
  BY <1>1, <1>2, <1>3, <1>4, <1>5, BeingOver, GoingOn DEF accountVars, sessionVars, loginVars, adminVars
<1> QED BY <1>1, <1>6, RequestsAlone DEF accountVars

LEMMA ReadWalletKeeps ==
  ASSUME LifecycleInv, NEW r \in Requests, ReadWallet(r)
  PROVE  LifecycleInv'
<1> USE DEF LifecycleInv, LifecycleTypeOK
<1>1. UNCHANGED <<token, late, accountVars, sessionVars, loginVars, adminVars>> /\ pc[r] = "wallet"
  BY DEF ReadWallet
<1>2. UNCHANGED <<token, late, session, status, reopened>>
  BY <1>1 DEF accountVars, sessionVars
<1>3. GoOn(r, "forfeit") \/ GoOn(r, "close")
  BY DEF ReadWallet
<1>4. r \in late => Account(r) \in reopened
  BY <1>1, LetOn
<1>5. {"forfeit", "close"} \subseteq RequestPhases \ {"idle"}
  BY DEF RequestPhases
<1>6. sum' \in [Requests -> 0..MaxBalance]
  BY <1>1, AccountOfRequest DEF ReadWallet
<1>7. LifecycleTypeOK' /\ TokensHold' /\ LateHeld'
  BY <1>1, <1>2, <1>3, <1>4, <1>5, <1>6, GoingOn DEF accountVars, sessionVars, loginVars, adminVars
<1> QED BY <1>1, <1>7, RequestsAlone DEF accountVars

LEMMA ForfeitKeeps ==
  ASSUME LifecycleInv, NEW r \in Requests, Forfeit(r)
  PROVE  LifecycleInv'
<1> USE DEF LifecycleInv, LifecycleTypeOK
<1>1. /\ UNCHANGED <<status, identities, past, targets, reopened, sessionVars, loginVars, adminVars>>
      /\ pc[r] = "forfeit"
  BY DEF Forfeit
<1>2. UNCHANGED <<session, status, reopened>>
  BY <1>1 DEF sessionVars
<1>3. \/ Over(r)
      \/ GoOn(r, "close") /\ UNCHANGED <<token, sum, late>>
  BY DEF Forfeit
<1>4. r \in late => Account(r) \in reopened
  BY <1>1, LetOn
<1>5. "close" \in RequestPhases \ {"idle"}
  BY DEF RequestPhases
<1>6. Account(r) \in AccountIds /\ sum[r] \in 0..MaxBalance /\ balance[Account(r)] \in 0..MaxBalance
  BY <1>1, AccountOfRequest
<1>7. forfeits' \subseteq AccountIds \X (0..MaxBalance)
  <2>1. forfeits' \in {forfeits, forfeits \cup {ForfeitKey(r)}}
    BY DEF Forfeit
  <2> QED BY <1>6, <2>1 DEF ForfeitKey
<1>8. balance' \in [AccountIds -> 0..MaxBalance]
  <2>1. CASE balance' = balance
    BY <2>1
  <2>2. CASE /\ balance[Account(r)] >= sum[r]
             /\ balance' = [balance EXCEPT ![Account(r)] = @ - sum[r]]
    <3>1. balance[Account(r)] - sum[r] \in 0..MaxBalance
      BY <1>6, <2>2, MaxBalanceAssumption
    <3> QED BY <2>2, <3>1
  <2> QED BY <2>1, <2>2 DEF Forfeit
<1>9. LifecycleTypeOK' /\ TokensHold' /\ LateHeld'
  BY <1>1, <1>2, <1>3, <1>4, <1>5, <1>7, <1>8, BeingOver, GoingOn DEF sessionVars, loginVars, adminVars
<1> QED BY <1>1, <1>9, RequestsAlone

LEMMA BreakOffKeeps ==
  ASSUME LifecycleInv, NEW r \in Requests, BreakOff(r)
  PROVE  LifecycleInv'
<1> USE DEF LifecycleInv, LifecycleTypeOK
<1>1. UNCHANGED <<accountVars, sessionVars, loginVars, adminVars>> /\ Over(r)
  BY DEF BreakOff
<1>2. LifecycleTypeOK' /\ TokensHold' /\ LateHeld'
  BY <1>1, BeingOver DEF accountVars, sessionVars, loginVars, adminVars
<1> QED BY <1>1, <1>2, RequestsAlone DEF accountVars

\* What the other steps do to the requests: nothing, as long as sessions stay and an
\* account that leaves "CLOSED" is on record as reopened.
LEMMA RequestsUndisturbed ==
  ASSUME LifecycleInv, UNCHANGED requestVars,
         \A l \in Logins : session[l] # Nobody => session'[l] = session[l],
         reopened \subseteq reopened',
         \A a \in AccountIds : status[a] = "CLOSED" => status'[a] = "CLOSED" \/ a \in reopened'
  PROVE  TokensHold' /\ LateHeld'
<1> USE DEF LifecycleInv, LifecycleTypeOK, requestVars
<1>1. TokensHold'
  BY DEF TokensHold
<1>2. ASSUME NEW s \in late'
      PROVE  /\ pc'[s] # "idle"
             /\ \/ Account(s)' \in reopened'
                \/ status'[Account(s)'] = "CLOSED" /\ pc'[s] \in {"guard", "guard account"}
  <2>1. s \in late /\ s \in Requests /\ pc[s] # "idle"
    BY <1>2 DEF LateHeld
  <2>2. Account(s)' = Account(s) /\ Account(s) \in AccountIds
    BY <2>1, AccountOfRequest DEF Account, TokensHold
  <2> QED BY <2>1, <2>2 DEF LateHeld
<1>3. LateHeld'
  BY <1>2 DEF LateHeld
<1> QED BY <1>1, <1>3

LEMMA CloseKeeps ==
  ASSUME LifecycleInv, NEW r \in Requests, Close(r)
  PROVE  LifecycleInv'
<1> USE DEF LifecycleInv, LifecycleTypeOK
<1>1. /\ UNCHANGED <<identities, balance, forfeits, targets, reopened, session, loginVars, adminVars>>
      /\ status' = [status EXCEPT ![Account(r)] = "CLOSED"]
      /\ revoked' = revoked \cup SessionsOf(Account(r))
      /\ past' = past \ {Account(r)}
      /\ pc[r] = "close"
      /\ Over(r)
  BY DEF Close
<1>2. Account(r) \in AccountIds
  BY <1>1, AccountOfRequest
<1>3. /\ status' \in [AccountIds -> Statuses]
      /\ status'[Account(r)] = "CLOSED"
      /\ \A a \in AccountIds \ {Account(r)} : status'[a] = status[a]
  BY <1>1, <1>2 DEF Statuses
<1>4. revoked' \subseteq Logins
  BY <1>1 DEF SessionsOf
<1>5. /\ pc' \in [Requests -> RequestPhases] /\ token' \in [Requests -> Logins \cup {Nobody}]
      /\ sum' \in [Requests -> 0..MaxBalance] /\ late' = late \ {r}
      /\ pc'[r] = "idle"
      /\ \A s \in Requests \ {r} : pc'[s] = pc[s] /\ token'[s] = token[s]
  <2>1. pc' \in [Requests -> RequestPhases] /\ pc'[r] = "idle" /\ \A s \in Requests \ {r} : pc'[s] = pc[s]
    BY <1>1 DEF Over, GoOn, RequestPhases
  <2>2. token' \in [Requests -> Logins \cup {Nobody}] /\ \A s \in Requests \ {r} : token'[s] = token[s]
    BY <1>1 DEF Over
  <2>3. sum' \in [Requests -> 0..MaxBalance] /\ late' = late \ {r}
    BY <1>1, MaxBalanceAssumption DEF Over
  <2> QED BY <2>1, <2>2, <2>3
<1>6. LifecycleTypeOK'
  BY <1>1, <1>3, <1>4, <1>5 DEF loginVars, adminVars
<1>7. RowsExist'
  <2>1. \A a \in AccountIds : status[a] # "none" => status'[a] # "none"
    BY <1>3
  <2> QED BY <1>1, <2>1, NobodyAssumption DEF RowsExist, loginVars, adminVars
<1>8. HashedUnderKey' /\ OneAccountPerPerson'
  BY <1>1 DEF HashedUnderKey, OneAccountPerPerson
<1>9. LooksHold'
  BY <1>1 DEF LooksHold, Rows, loginVars
<1>10. TokensHold'
  BY <1>1, <1>5 DEF TokensHold
<1>11. ASSUME NEW s \in late'
       PROVE  /\ pc'[s] # "idle"
              /\ \/ Account(s)' \in reopened'
                 \/ status'[Account(s)'] = "CLOSED" /\ pc'[s] \in {"guard", "guard account"}
  <2>1. s \in late /\ s \in Requests \ {r} /\ pc[s] # "idle"
    BY <1>5, <1>11 DEF LateHeld
  <2>2. Account(s)' = Account(s) /\ Account(s) \in AccountIds
    BY <1>1, <1>5, <2>1, AccountOfRequest DEF Account
  <2>3. pc'[s] = pc[s] /\ reopened' = reopened
    BY <1>1, <1>5, <2>1
  <2>4. status[Account(s)] = "CLOSED" => status'[Account(s)] = "CLOSED"
    BY <1>3, <2>2
  <2> QED BY <2>1, <2>2, <2>3, <2>4 DEF LateHeld
<1>12. LateHeld'
  BY <1>11 DEF LateHeld
<1> QED BY <1>6, <1>7, <1>8, <1>9, <1>10, <1>12

\* What a sign-in of p knows when it is at a place
Looked(place, p) ==
  /\ place # "start" => p \in People
  /\ place \in Looking => \A i \in Rows(p, "raw") : i.account \notin past \cup targets
  /\ place = "create" => Rows(p, "hash") = {}
  /\ place = "raw again" => Rows(p, "raw") # {}
  /\ place # "hash again"

LEMMA LookedIs == LooksHold <=> \A l \in Logins : Looked(at[l], who[l])
  BY DEF LooksHold, Looked

\* It stays so while the rows do.
LEMMA LooksStay ==
  ASSUME UNCHANGED accountVars, \A l \in Logins : Looked(at'[l], who'[l])
  PROVE  LooksHold'
<1> SUFFICES ASSUME NEW l \in Logins
             PROVE  /\ at'[l] # "start" => who'[l] \in People
                    /\ at'[l] \in Looking =>
                         \A i \in Rows(who[l], "raw")' : i.account \notin past' \cup targets'
                    /\ at'[l] = "create" => Rows(who[l], "hash")' = {}
                    /\ at'[l] = "raw again" => Rows(who[l], "raw")' # {}
                    /\ at'[l] # "hash again"
  BY DEF LooksHold
<1>1. /\ Rows(who[l], "raw")' = Rows(who'[l], "raw")
      /\ Rows(who[l], "hash")' = Rows(who'[l], "hash")
      /\ past' = past /\ targets' = targets
  BY DEF Rows, accountVars
<1> QED BY <1>1 DEF Looked

-----------------------------------------------------------------------------
(* Sessions and administrators.                                              *)

LEMMA RevokeKeeps ==
  ASSUME LifecycleInv, NEW l \in Logins, Revoke(l)
  PROVE  LifecycleInv'
<1> USE DEF LifecycleInv, Revoke, accountVars, loginVars, requestVars, adminVars
<1>1. LifecycleTypeOK'
  BY DEF LifecycleTypeOK
<1>2. RowsExist'
  BY DEF RowsExist
<1>3. HashedUnderKey' /\ OneAccountPerPerson'
  BY DEF HashedUnderKey, OneAccountPerPerson
<1>4. LooksHold'
  BY DEF LooksHold, Rows
<1>5. TokensHold' /\ LateHeld'
  BY DEF TokensHold, LateHeld, Account
<1> QED BY <1>1, <1>2, <1>3, <1>4, <1>5

LEMMA ReadForReviewKeeps ==
  ASSUME LifecycleInv, NEW m \in Admins, NEW a \in AccountIds, ReadForReview(m, a)
  PROVE  LifecycleInv'
<1> USE DEF LifecycleInv, LifecycleTypeOK
<1>1. /\ UNCHANGED <<accountVars, sessionVars, loginVars, requestVars>>
      /\ status[a] # "none"
      /\ on' = [on EXCEPT ![m] = a]
      /\ \/ admin' = [admin EXCEPT ![m] = "REVIEWING"]
         \/ admin' = [admin EXCEPT ![m] = "ACTIVE"]
  BY DEF ReadForReview
<1>2. LifecycleTypeOK'
  BY <1>1 DEF accountVars, sessionVars, loginVars, requestVars
<1>3. \A n \in Admins : admin'[n] # "idle" => on'[n] \in AccountIds /\ status[on'[n]] # "none"
  BY <1>1 DEF RowsExist
<1>4. RowsExist'
  BY <1>1, <1>3 DEF RowsExist, accountVars, sessionVars, loginVars
<1>5. HashedUnderKey' /\ OneAccountPerPerson'
  BY <1>1 DEF HashedUnderKey, OneAccountPerPerson, accountVars
<1>6. LooksHold'
  <2>1. at' = at /\ who' = who
    BY <1>1 DEF loginVars
  <2> QED BY <1>1, <2>1, LookedIs, LooksStay
<1>7. TokensHold' /\ LateHeld'
  BY <1>1 DEF TokensHold, LateHeld, Account, accountVars, sessionVars, requestVars
<1> QED BY <1>2, <1>4, <1>5, <1>6, <1>7

LEMMA updateStatusKeeps ==
  ASSUME LifecycleInv, NEW m \in Admins, updateStatus(m)
  PROVE  LifecycleInv'
<1> USE DEF LifecycleInv, LifecycleTypeOK
<1>1. /\ UNCHANGED <<identities, balance, forfeits, targets, sessionVars, loginVars, requestVars>>
      /\ status' = [status EXCEPT ![on[m]] = admin[m]]
      /\ past' = past \ {on[m]}
      /\ admin' = [admin EXCEPT ![m] = "idle"]
      /\ on' = [on EXCEPT ![m] = Nobody]
      /\ admin[m] \in {"REVIEWING", "ACTIVE"}
  BY DEF updateStatus
<1>2. on[m] \in AccountIds
  BY <1>1 DEF RowsExist
<1>3. reopened' \in {reopened, reopened \cup {on[m]}} /\ (status[on[m]] = "CLOSED" => on[m] \in reopened')
  BY DEF updateStatus
<1>4. /\ status' \in [AccountIds -> Statuses]
      /\ status'[on[m]] # "none"
      /\ \A a \in AccountIds \ {on[m]} : status'[a] = status[a]
  BY <1>1, <1>2 DEF Statuses
<1>5. LifecycleTypeOK'
  BY <1>1, <1>2, <1>3, <1>4 DEF sessionVars, loginVars, requestVars
<1>6. RowsExist'
  <2>1. \A a \in AccountIds : status[a] # "none" => status'[a] # "none"
    BY <1>4
  <2>2. \A n \in Admins : admin'[n] # "idle" => n # m /\ on'[n] = on[n] /\ admin'[n] = admin[n]
    BY <1>1
  <2> QED BY <1>1, <2>1, <2>2, NobodyAssumption DEF RowsExist, loginVars, sessionVars
<1>7. HashedUnderKey' /\ OneAccountPerPerson'
  BY <1>1 DEF HashedUnderKey, OneAccountPerPerson
<1>8. LooksHold'
  BY <1>1 DEF LooksHold, Rows, loginVars
<1>9. TokensHold' /\ LateHeld'
  BY <1>1, <1>3, <1>4, RequestsUndisturbed DEF sessionVars
<1> QED BY <1>5, <1>6, <1>7, <1>8, <1>9

-----------------------------------------------------------------------------
(* Anonymisation.                                                            *)

LEMMA GraceEndsKeeps ==
  ASSUME LifecycleInv, NEW a \in AccountIds, GraceEnds(a)
  PROVE  LifecycleInv'
<1> USE DEF LifecycleInv, GraceEnds, sessionVars, loginVars, requestVars, adminVars
<1>1. LifecycleTypeOK'
  BY DEF LifecycleTypeOK
<1>2. RowsExist'
  BY DEF RowsExist
<1>3. HashedUnderKey' /\ OneAccountPerPerson'
  BY DEF HashedUnderKey, OneAccountPerPerson
<1>4. LooksHold'
  BY DEF LooksHold, Looking, Rows, Waited
<1>5. TokensHold' /\ LateHeld'
  BY DEF TokensHold, LateHeld, Account
<1> QED BY <1>1, <1>2, <1>3, <1>4, <1>5

LEMMA ListTargetsKeeps == ASSUME LifecycleInv, ListTargets PROVE LifecycleInv'
<1> USE DEF LifecycleInv, ListTargets, sessionVars, loginVars, requestVars, adminVars
<1>1. eligible \subseteq past
  BY DEF eligible
<1>2. LifecycleTypeOK'
  BY <1>1 DEF LifecycleTypeOK
<1>3. RowsExist'
  BY <1>1 DEF RowsExist
<1>4. HashedUnderKey' /\ OneAccountPerPerson'
  BY DEF HashedUnderKey, OneAccountPerPerson
<1>5. LooksHold'
  BY <1>1 DEF LooksHold, Rows
<1>6. TokensHold' /\ LateHeld'
  BY DEF TokensHold, LateHeld, Account
<1> QED BY <1>2, <1>3, <1>4, <1>5, <1>6

\* Anonymising hashes rows of the account and touches no other.
LEMMA Hashing ==
  ASSUME LifecycleInv, NEW a \in AccountIds, Anonymize(a)
  PROVE  /\ \A j \in identities' :
              /\ j \in [person : People, form : {"raw", "hash"}, account : AccountIds]
              /\ \E i \in identities : i.person = j.person /\ i.account = j.account
              /\ j.account = a => j.form = "hash"
              /\ j.account # a => j \in identities
         /\ \A i \in identities : i.account # a => i \in identities'
<1> USE DEF LifecycleInv, LifecycleTypeOK
<1> DEFINE Hashed(i) == IF i.account = a THEN [i EXCEPT !.form = "hash"] ELSE i
<1>1. identities' = {Hashed(i) : i \in identities}
  BY DEF Anonymize
<1>2. ASSUME NEW i \in identities
      PROVE  /\ Hashed(i) \in [person : People, form : {"raw", "hash"}, account : AccountIds]
             /\ Hashed(i).person = i.person /\ Hashed(i).account = i.account
             /\ i.account = a => Hashed(i).form = "hash"
             /\ i.account # a => Hashed(i) = i
  OBVIOUS
<1> HIDE DEF Hashed
<1> QED BY <1>1, <1>2

LEMMA AnonymizeKeeps ==
  ASSUME LifecycleInv, NEW a \in AccountIds, Anonymize(a)
  PROVE  LifecycleInv'
<1> USE DEF LifecycleInv
<1>1. /\ UNCHANGED <<status, balance, forfeits, past, reopened,
                     sessionVars, loginVars, requestVars, adminVars>>
      /\ a \in targets
      /\ targets' = targets \ {a}
  BY DEF Anonymize
<1>2. LifecycleTypeOK'
  BY <1>1, Hashing DEF LifecycleTypeOK, sessionVars, loginVars, requestVars, adminVars
<1>3. RowsExist'
  <2>1. \A j \in identities' : status[j.account] # "none"
    BY Hashing DEF RowsExist
  <2> QED BY <1>1, <2>1 DEF RowsExist, sessionVars, loginVars, adminVars
<1>4. HashedUnderKey'
  BY <1>1, Hashing DEF HashedUnderKey
<1>5. OneAccountPerPerson'
  BY Hashing DEF OneAccountPerPerson
<1>6. LooksHold'
  <2> SUFFICES ASSUME NEW l \in Logins
               PROVE  /\ at[l] # "start" => who[l] \in People
                      /\ at[l] \in Looking =>
                           \A i \in Rows(who[l], "raw")' : i.account \notin past \cup targets'
                      /\ at[l] = "create" => Rows(who[l], "hash")' = {}
                      /\ at[l] = "raw again" => Rows(who[l], "raw")' # {}
                      /\ at[l] # "hash again"
    BY <1>1 DEF LooksHold, Rows, loginVars
  <2>1. Rows(who[l], "raw")' \subseteq Rows(who[l], "raw")
    BY <1>1, Hashing DEF Rows, loginVars
  <2>2. at[l] \in Looking => Rows(who[l], "raw")' = Rows(who[l], "raw")
    <3>1. at[l] \in Looking => \A i \in Rows(who[l], "raw") : i.account # a
      BY <1>1 DEF LooksHold
    <3> QED BY <1>1, <2>1, <3>1, Hashing DEF Rows, loginVars
  <2>3. at[l] = "create" => Rows(who[l], "hash")' = {}
    <3> SUFFICES ASSUME at[l] = "create", NEW j \in Rows(who[l], "hash")'
                 PROVE  FALSE
      OBVIOUS
    <3>1. j \in identities' /\ j.person = who[l] /\ j.form = "hash"
      BY <1>1 DEF Rows, loginVars
    <3>2. j \notin identities
      BY <3>1 DEF LooksHold, Rows
    <3>3. PICK i \in identities : i.person = who[l] /\ i.account = a
      BY <3>1, <3>2, Hashing
    <3>4. i.form \in {"raw", "hash"}
      BY DEF LifecycleTypeOK
    <3>5. i \in Rows(who[l], "raw")
      BY <3>3, <3>4 DEF LooksHold, Rows
    <3> QED BY <1>1, <3>3, <3>5 DEF LooksHold, Looking
  <2> QED BY <1>1, <2>1, <2>2, <2>3 DEF LooksHold, Looking
<1>7. TokensHold' /\ LateHeld'
  BY <1>1 DEF TokensHold, LateHeld, Account, sessionVars, requestVars
<1> QED BY <1>2, <1>3, <1>4, <1>5, <1>6, <1>7

-----------------------------------------------------------------------------
(* Sign-ins.                                                                 *)

\* What a sign-in reads disturbs no row, session or request.
LEMMA SignInsAlone ==
  ASSUME LifecycleInv, NEW l \in Logins, NEW phase \in SignInPhases,
         at[l] \notin {"start", "over"}, Login(l, phase), phase # "start", phase # "hash again",
         acct' \in [Logins -> AccountIds \cup {Nobody}],
         \A k \in Logins \ {l} : acct'[k] = acct[k],
         phase = "session" => acct'[l] \in AccountIds /\ status[acct'[l]] # "none",
         phase \in Looking => \A i \in Rows(who[l], "raw") : i.account \notin past \cup targets,
         phase = "create" => Rows(who[l], "hash") = {},
         phase = "raw again" => Rows(who[l], "raw") # {},
         UNCHANGED <<who, accountVars, sessionVars, requestVars, adminVars>>
  PROVE  LifecycleInv'
<1> USE DEF LifecycleInv
<1>1. at' \in [Logins -> SignInPhases] /\ at'[l] = phase /\ \A k \in Logins \ {l} : at'[k] = at[k]
  BY DEF LifecycleTypeOK, Login
<1>2. LifecycleTypeOK'
  BY <1>1 DEF LifecycleTypeOK, accountVars, sessionVars, requestVars, adminVars
<1>3. RowsExist'
  <2>1. session[l] = Nobody
    BY DEF RowsExist
  <2>2. \A k \in Logins : at'[k] = "session" => acct'[k] \in AccountIds /\ status[acct'[k]] # "none"
    BY <1>1 DEF RowsExist
  <2>3. \A k \in Logins : session[k] # Nobody => at'[k] = "over" /\ status[session[k]] # "none"
    BY <1>1, <2>1 DEF RowsExist
  <2> QED BY <2>2, <2>3 DEF RowsExist, accountVars, sessionVars, adminVars
<1>4. HashedUnderKey' /\ OneAccountPerPerson'
  BY DEF HashedUnderKey, OneAccountPerPerson, accountVars
<1>5. LooksHold'
  <2>1. Looked(phase, who[l])
    BY LookedIs DEF Looked, LooksHold
  <2>2. \A k \in Logins : Looked(at'[k], who[k])
    BY <1>1, <2>1, LookedIs
  <2> QED BY <2>2, LooksStay
<1>6. TokensHold' /\ LateHeld'
  BY DEF TokensHold, LateHeld, Account, accountVars, sessionVars, requestVars
<1> QED BY <1>2, <1>3, <1>4, <1>5, <1>6

LEMMA ArriveKeeps ==
  ASSUME LifecycleInv, NEW l \in Logins, NEW p \in People, Arrive(l, p)
  PROVE  LifecycleInv'
<1> USE DEF LifecycleInv
<1>1. /\ at[l] = "start" /\ who' = [who EXCEPT ![l] = p]
      /\ UNCHANGED <<acct, accountVars, sessionVars, requestVars, adminVars>>
  BY DEF Arrive
<1>2. at' \in [Logins -> SignInPhases] /\ at'[l] = "raw" /\ \A k \in Logins \ {l} : at'[k] = at[k]
  BY DEF LifecycleTypeOK, Arrive, Login, SignInPhases
<1>3. /\ who' \in [Logins -> People \cup {Nobody}] /\ who'[l] = p
      /\ \A k \in Logins \ {l} : who'[k] = who[k]
  BY <1>1 DEF LifecycleTypeOK
<1>4. LifecycleTypeOK'
  BY <1>1, <1>2, <1>3 DEF LifecycleTypeOK, accountVars, sessionVars, requestVars, adminVars
<1>5. RowsExist'
  BY <1>1, <1>2 DEF RowsExist, accountVars, sessionVars, adminVars
<1>6. HashedUnderKey' /\ OneAccountPerPerson'
  BY <1>1 DEF HashedUnderKey, OneAccountPerPerson, accountVars
<1>7. LooksHold'
  <2>1. Looked("raw", p)
    BY DEF Looked, Looking
  <2>2. \A k \in Logins : Looked(at'[k], who'[k])
    BY <1>2, <1>3, <2>1, LookedIs
  <2> QED BY <1>1, <2>2, LooksStay
<1>8. TokensHold' /\ LateHeld'
  BY <1>1 DEF TokensHold, LateHeld, Account, accountVars, sessionVars, requestVars
<1> QED BY <1>4, <1>5, <1>6, <1>7, <1>8

\* A sign-in that finds a row of its person is let in or refused.
LEMMA FoundKeeps ==
  ASSUME LifecycleInv, NEW l \in Logins, NEW form, Found(l, form), at[l] \notin {"start", "over"},
         UNCHANGED <<who, accountVars, sessionVars, requestVars, adminVars>>
  PROVE  LifecycleInv'
<1> USE DEF LifecycleInv
<1>1. PICK i \in Rows(who[l], form) :
        IF status[i.account] = "CLOSED" THEN Login(l, "refused") /\ UNCHANGED acct
        ELSE Login(l, "session") /\ acct' = [acct EXCEPT ![l] = i.account]
  BY DEF Found
<1>2. i.account \in AccountIds /\ status[i.account] # "none"
  BY DEF Rows, LifecycleTypeOK, RowsExist
<1>3. {"refused", "session"} \subseteq SignInPhases /\ {"refused", "session"} \cap Looking = {}
  BY DEF SignInPhases, Looking
<1>4. CASE Login(l, "refused") /\ UNCHANGED acct
  BY <1>3, <1>4, SignInsAlone DEF LifecycleTypeOK
<1>5. CASE Login(l, "session") /\ acct' = [acct EXCEPT ![l] = i.account]
  <2>1. /\ acct' \in [Logins -> AccountIds \cup {Nobody}] /\ acct'[l] = i.account
        /\ \A k \in Logins \ {l} : acct'[k] = acct[k]
    BY <1>2, <1>5 DEF LifecycleTypeOK
  <2> QED BY <1>2, <1>3, <1>5, <2>1, SignInsAlone
<1> QED BY <1>1, <1>4, <1>5

LEMMA FindRawKeeps ==
  ASSUME LifecycleInv, NEW l \in Logins, FindRaw(l)
  PROVE  LifecycleInv'
<1> USE DEF LifecycleInv
<1>1. /\ at[l] \in {"raw", "raw again"}
      /\ UNCHANGED <<who, accountVars, sessionVars, requestVars, adminVars>>
  BY DEF FindRaw
<1>2. CASE Found(l, "raw")
  BY <1>1, <1>2, FoundKeeps
<1>3. CASE Rows(who[l], "raw") = {} /\ Login(l, "hash") /\ UNCHANGED acct
  <2>1. "hash" \in SignInPhases
    BY DEF SignInPhases
  <2> QED BY <1>1, <1>3, <2>1, SignInsAlone DEF LifecycleTypeOK
<1>4. Found(l, "raw") \/ (Rows(who[l], "raw") = {} /\ Login(l, "hash") /\ UNCHANGED acct)
  BY DEF FindRaw, LooksHold
<1> QED BY <1>2, <1>3, <1>4

LEMMA FindHashKeeps ==
  ASSUME LifecycleInv, NEW l \in Logins, FindHash(l)
  PROVE  LifecycleInv'
<1> USE DEF LifecycleInv
<1>1. /\ at[l] = "hash"
      /\ UNCHANGED <<who, accountVars, sessionVars, requestVars, adminVars>>
  BY DEF FindHash, LooksHold
<1>2. CASE Found(l, "hash")
  BY <1>1, <1>2, FoundKeeps
<1>3. CASE (HashKey => Rows(who[l], "hash") = {}) /\ Login(l, "create") /\ UNCHANGED acct
  <2>1. "create" \in SignInPhases
    BY DEF SignInPhases
  <2>2. Rows(who[l], "hash") = {}
    BY <1>3 DEF Rows, HashedUnderKey
  <2>3. \A i \in Rows(who[l], "raw") : i.account \notin past \cup targets
    BY <1>1 DEF LooksHold, Looking
  <2> QED BY <1>1, <1>3, <2>1, <2>2, <2>3, SignInsAlone DEF LifecycleTypeOK
<1> QED BY <1>1, <1>2, <1>3 DEF FindHash

LEMMA CreateLostKeeps ==
  ASSUME LifecycleInv, NEW l \in Logins, CreateLost(l)
  PROVE  LifecycleInv'
<1> USE DEF LifecycleInv, CreateLost
<1>1. "raw again" \in SignInPhases
  BY DEF SignInPhases
<1>2. \A i \in Rows(who[l], "raw") : i.account \notin past \cup targets
  BY DEF LooksHold, Looking
<1> QED BY <1>1, <1>2, SignInsAlone DEF LifecycleTypeOK

LEMMA CreateKeeps ==
  ASSUME LifecycleInv, NEW l \in Logins, Create(l)
  PROVE  LifecycleInv'
<1> USE DEF LifecycleInv
<1>1. PICK a \in AccountIds :
        /\ status[a] = "none"
        /\ status' = [status EXCEPT ![a] = "ACTIVE"]
        /\ identities' = identities \cup {[person |-> who[l], form |-> "raw", account |-> a]}
        /\ acct' = [acct EXCEPT ![l] = a]
  BY DEF Create
<1>2. /\ at[l] = "create"
      /\ Rows(who[l], "raw") = {}
      /\ UNCHANGED <<who, balance, forfeits, past, targets, reopened, sessionVars, requestVars, adminVars>>
  BY DEF Create
<1>3. at' \in [Logins -> SignInPhases] /\ at'[l] = "session" /\ \A k \in Logins \ {l} : at'[k] = at[k]
  BY DEF LifecycleTypeOK, Create, Login, SignInPhases
<1>4. /\ status' \in [AccountIds -> Statuses] /\ status'[a] = "ACTIVE"
      /\ \A b \in AccountIds \ {a} : status'[b] = status[b]
  BY <1>1 DEF LifecycleTypeOK, Statuses
<1>5. /\ acct' \in [Logins -> AccountIds \cup {Nobody}] /\ acct'[l] = a
      /\ \A k \in Logins \ {l} : acct'[k] = acct[k]
  BY <1>1 DEF LifecycleTypeOK
<1>6. who[l] \in People
  BY <1>2 DEF LooksHold
<1> DEFINE row == [person |-> who[l], form |-> "raw", account |-> a]
<1>7. /\ row \in [person : People, form : {"raw", "hash"}, account : AccountIds]
      /\ row.person = who[l] /\ row.form = "raw" /\ row.account = a
  BY <1>6
<1>8. identities' = identities \cup {row}
  BY <1>1
<1> HIDE DEF row
<1>9. \A i \in identities : i.person # who[l] /\ i.form \in {"raw", "hash"}
  BY <1>2 DEF LooksHold, Rows, LifecycleTypeOK
<1>10. LifecycleTypeOK'
  BY <1>2, <1>3, <1>4, <1>5, <1>7, <1>8 DEF LifecycleTypeOK, sessionVars, requestVars, adminVars
<1>11. RowsExist'
  <2>1. \A b \in AccountIds : status[b] # "none" => status'[b] # "none"
    BY <1>4
  <2>2. \A i \in identities' : status'[i.account] # "none"
    BY <1>4, <1>7, <1>8, <2>1 DEF RowsExist, LifecycleTypeOK
  <2>3. \A k \in Logins : at'[k] = "session" => acct'[k] \in AccountIds /\ status'[acct'[k]] # "none"
    BY <1>3, <1>4, <1>5, <2>1 DEF RowsExist
  <2>4. \A k \in Logins : session[k] # Nobody => at'[k] = "over" /\ status'[session[k]] # "none"
    BY <1>2, <1>3, <2>1 DEF RowsExist, LifecycleTypeOK
  <2>5. \A b \in past \cup targets : status'[b] # "none"
    BY <2>1 DEF RowsExist, LifecycleTypeOK
  <2> QED BY <1>2, <2>1, <2>2, <2>3, <2>4, <2>5 DEF RowsExist, sessionVars, adminVars
<1>12. HashedUnderKey'
  BY <1>2, <1>7, <1>8 DEF HashedUnderKey
<1>13. OneAccountPerPerson'
  BY <1>7, <1>8, <1>9 DEF OneAccountPerPerson
<1>14. LooksHold'
  <2> SUFFICES ASSUME NEW k \in Logins
               PROVE  /\ at'[k] # "start" => who[k] \in People
                      /\ at'[k] \in Looking =>
                           \A i \in Rows(who[k], "raw")' : i.account \notin past \cup targets
                      /\ at'[k] = "create" => Rows(who[k], "hash")' = {}
                      /\ at'[k] = "raw again" => Rows(who[k], "raw")' # {}
                      /\ at'[k] # "hash again"
    BY <1>2 DEF LooksHold, Rows
  <2>1. a \notin past \cup targets
    BY <1>1 DEF RowsExist
  <2>2. \A p : Rows(p, "raw")' \subseteq Rows(p, "raw") \cup {row} /\ Rows(p, "raw") \subseteq Rows(p, "raw")'
    BY <1>8 DEF Rows
  <2>3. Rows(who[k], "hash")' = Rows(who[k], "hash")
    BY <1>2, <1>7, <1>8 DEF Rows
  <2>4. Rows(who[k], "raw")' \subseteq Rows(who[k], "raw") \cup {row} /\ Rows(who[k], "raw") \subseteq Rows(who[k], "raw")'
    BY <1>2, <1>8 DEF Rows
  <2>5. CASE k = l
    BY <1>3, <1>6, <2>5 DEF Looking
  <2>6. CASE k # l
    BY <1>3, <1>7, <2>1, <2>3, <2>4, <2>6 DEF LooksHold
  <2> QED BY <2>5, <2>6
<1>15. TokensHold' /\ LateHeld'
  BY <1>1, <1>2, <1>4, RequestsUndisturbed DEF sessionVars
<1> QED BY <1>10, <1>11, <1>12, <1>13, <1>14, <1>15

LEMMA createSessionKeeps ==
  ASSUME LifecycleInv, NEW l \in Logins, createSession(l)
  PROVE  LifecycleInv'
<1> USE DEF LifecycleInv
<1>1. /\ at[l] = "session" /\ session' = [session EXCEPT ![l] = acct[l]]
      /\ UNCHANGED <<who, acct, revoked, accountVars, requestVars, adminVars>>
  BY DEF createSession
<1>2. at' \in [Logins -> SignInPhases] /\ at'[l] = "over" /\ \A k \in Logins \ {l} : at'[k] = at[k]
  BY DEF LifecycleTypeOK, createSession, Login, SignInPhases
<1>3. acct[l] \in AccountIds /\ status[acct[l]] # "none" /\ session[l] = Nobody
  BY <1>1 DEF RowsExist
<1>4. /\ session' \in [Logins -> AccountIds \cup {Nobody}] /\ session'[l] = acct[l]
      /\ \A k \in Logins \ {l} : session'[k] = session[k]
  BY <1>1, <1>3 DEF LifecycleTypeOK
<1>5. LifecycleTypeOK'
  BY <1>1, <1>2, <1>4 DEF LifecycleTypeOK, accountVars, requestVars, adminVars
<1>6. RowsExist'
  BY <1>1, <1>2, <1>3, <1>4 DEF RowsExist, accountVars, adminVars
<1>7. HashedUnderKey' /\ OneAccountPerPerson'
  BY <1>1 DEF HashedUnderKey, OneAccountPerPerson, accountVars
<1>8. LooksHold'
  BY <1>1, <1>2 DEF LooksHold, Looking, Rows, accountVars
<1>9. TokensHold' /\ LateHeld'
  BY <1>1, <1>3, <1>4, RequestsUndisturbed DEF accountVars
<1> QED BY <1>5, <1>6, <1>7, <1>8, <1>9

LEMMA LifecycleNextKeeps == LifecycleInv /\ [LifecycleNext]_lifecycleVars => LifecycleInv'
<1> SUFFICES ASSUME LifecycleInv, [LifecycleNext]_lifecycleVars
             PROVE  LifecycleInv'
  OBVIOUS
<1>1. ASSUME NEW l \in Logins, SignIn(l)
      PROVE  LifecycleInv'
  BY <1>1, ArriveKeeps, FindRawKeeps, FindHashKeeps, CreateKeeps, CreateLostKeeps,
     createSessionKeeps DEF SignIn
<1>2. ASSUME NEW r \in Requests, Handle(r)
      PROVE  LifecycleInv'
  BY <1>2, CallKeeps, GuardSessionKeeps, GuardAccountKeeps, ServeKeeps, ReadStatusKeeps,
     ReadWalletKeeps, ForfeitKeeps, CloseKeeps, BreakOffKeeps DEF Handle
<1>3. CASE UNCHANGED lifecycleVars
  <2> USE <1>3 DEF LifecycleInv, lifecycleVars, accountVars, sessionVars, loginVars, requestVars, adminVars
  <2>1. LifecycleTypeOK'
    BY DEF LifecycleTypeOK
  <2>2. RowsExist' /\ HashedUnderKey' /\ OneAccountPerPerson'
    BY DEF RowsExist, HashedUnderKey, OneAccountPerPerson
  <2>3. LooksHold'
    BY DEF LooksHold, Rows
  <2>4. TokensHold' /\ LateHeld'
    BY DEF TokensHold, LateHeld, Account
  <2> QED BY <2>1, <2>2, <2>3, <2>4
<1> QED
  BY <1>1, <1>2, <1>3, RevokeKeeps, updateStatusKeeps, ReadForReviewKeeps, GraceEndsKeeps,
     AnonymizeKeeps, ListTargetsKeeps DEF LifecycleNext

LEMMA LifecycleInvariance == LifecycleSpec => []LifecycleInv
BY LifecycleInvInit, LifecycleNextKeeps, PTL DEF LifecycleSpec

\* Every variable holds what it is meant to, and no closure takes a wallet below zero
\* (requestClosure's debitWallet).
THEOREM LifecycleTyping == LifecycleSpec => []LifecycleTypeOK
<1>1. LifecycleInv => LifecycleTypeOK
  BY DEF LifecycleInv
<1> QED BY <1>1, LifecycleInvariance, PTL

\* However many sign in at once, under a raw or a hashed identity, nobody gets a second
\* account (findOrCreateByIdentity).
THEOREM OneAccount == LifecycleSpec => []OneAccountPerPerson
<1>1. LifecycleInv => OneAccountPerPerson
  BY DEF LifecycleInv
<1> QED BY <1>1, LifecycleInvariance, PTL

\* The guard keeps every request of a closed account out, revoked session or not
\* (canActivate).
THEOREM ClosedOut == LifecycleSpec => []ClosedStaysOut
<1>1. LifecycleInv => ClosedStaysOut
  BY DEF LifecycleInv, LateHeld, ClosedStaysOut
<1> QED BY <1>1, LifecycleInvariance, PTL

\* Losing the race to create an account never turns a person away (the look that
\* follows P2002).
THEOREM RefusedForCause == LifecycleSpec => RefusedOnlyIfClosed
<1> DEFINE Refusal(l) ==
      at[l] # "refused" /\ at'[l] = "refused" =>
        \E i \in identities : i.person = who[l] /\ status[i.account] = "CLOSED"
<1>1. ASSUME LifecycleInv, [LifecycleNext]_lifecycleVars, NEW l \in Logins
      PROVE  Refusal(l)
  <2> SUFFICES ASSUME at[l] # "refused", at'[l] = "refused"
               PROVE  \E i \in identities : i.person = who[l] /\ status[i.account] = "CLOSED"
    OBVIOUS
  <2> USE <1>1 DEF LifecycleInv
  <2>1. at' # at
    OBVIOUS
  <2>2. PICK k \in Logins : SignIn(k)
    BY <2>1 DEF LifecycleNext, lifecycleVars, Handle, Call, GuardSession, GuardAccount, Serve,
       ReadStatus, ReadWallet, Forfeit, Close, BreakOff, Revoke, updateStatus, ReadForReview,
       GraceEnds, Anonymize, ListTargets, loginVars
  <2>3. ASSUME NEW phase, Login(k, phase), phase # "refused"
        PROVE  FALSE
    BY <2>3 DEF Login, LifecycleTypeOK
  <2>4. ASSUME NEW phase, Login(k, phase)
        PROVE  k = l
    BY <2>4 DEF Login, LifecycleTypeOK
  <2>5. ASSUME NEW form, Found(k, form)
        PROVE  \E i \in identities : i.person = who[l] /\ status[i.account] = "CLOSED"
    BY <2>3, <2>4, <2>5 DEF Found, Rows
  <2>6. CASE FindRaw(k)
    BY <2>3, <2>5, <2>6 DEF FindRaw
  <2>7. CASE FindHash(k)
    BY <2>3, <2>5, <2>7 DEF FindHash, LooksHold
  <2> QED BY <2>2, <2>3, <2>6, <2>7 DEF SignIn, Arrive, Create, CreateLost, createSession
<1>2. LifecycleInv /\ [LifecycleNext]_lifecycleVars =>
        [\A l \in Logins :
           at[l] # "refused" /\ at'[l] = "refused" =>
             \E i \in identities : i.person = who[l] /\ status[i.account] = "CLOSED"]_lifecycleVars
  BY <1>1
<1> QED BY <1>2, LifecycleInvariance, PTL DEF LifecycleSpec, RefusedOnlyIfClosed

=============================================================================
