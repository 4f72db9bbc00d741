--------------------------- MODULE LedgerRequests ---------------------------
(***************************************************************************)
(* The operations of packages/ledger as concurrent calls.  A call first      *)
(* looks for a transaction with its idempotency key, outside any             *)
(* transaction; then it opens one, locks the rows of its wallets, decides,   *)
(* takes a transaction code (which locks the counter's row until the end),   *)
(* inserts and commits.  Other calls may run between any two of these steps, *)
(* the connection may be lost at any of them, and the calls share wallets,   *)
(* holds, transactions and keys.  Isolation is READ COMMITTED: a call reads  *)
(* what is committed at that moment, and what it writes shows when it        *)
(* commits.  Credit lots are left to Ledger.                                 *)
(***************************************************************************)
EXTENDS Integers, Sequences, FiniteSets

CONSTANTS
  Calls,        \* calls under way: API requests, batches, admin actions
  Nobody,       \* the holder of a row lock that is free
  Wallets,      \* wallet ids, with the order sort() gives them
  Keys,         \* idempotency keys a caller may choose
  Requests,     \* what a call may ask for
  Wallet0,      \* the ledger the calls find
  Journal0,
  Hold0

(* GRANT and USE stand for creditWallet and debitWallet. *)
RequestType ==
  [op : {"GRANT", "USE", "HOLD"}, wallet : Wallets, key : Keys, amount : Nat \ {0}]
    \cup [op : {"RELEASE", "REVERSE"}, id : Wallets \X (Nat \ {0}), key : Keys]
    \cup [op : {"MERGE"}, wallet : Wallets, target : Wallets, key : Keys]

ASSUME NobodyAssumption == Nobody \notin Calls \cup Wallets
ASSUME WalletsAssumption == Wallets \subseteq Int
ASSUME RequestsAssumption == Requests \subseteq RequestType

VARIABLES
  wallet, journal, hold,   \* the committed rows, as in Ledger
  mergedInto,   \* ove_accounts.merged_into_account_id, by wallet
  req,          \* what each call asks for
  pc,           \* how far it is
  lockedBy,     \* the row locks on wallets
  counterBy,    \* the row lock on the transaction code counter
  snap,         \* the wallet rows a call read when it had its locks
  reply         \* the transaction, or hold, it was answered with, if any

ledger == <<wallet, journal, hold>>
vars == <<wallet, journal, hold, mergedInto, req, pc, lockedBy, counterBy, snap, reply>>

(* The two keys of a merge: `${key}:OUT` and `${key}:IN` *)
KeyOut(key) == <<key, "OUT">>
KeyIn(key) == <<key, "IN">>
AllKeys == Keys \cup (Keys \X {"OUT", "IN"})

L == INSTANCE Ledger WITH
       Keys <- AllKeys,
       Amounts <- {r.amount : r \in {s \in Requests : s.op \in {"GRANT", "USE", "HOLD"}}},
       ExpiryDays <- {0}, MaxTime <- 0, lot <- [id \in {} |-> {}], now <- 0

(* The ledger the calls find is a ledger. *)
ASSUME LedgerAssumption ==
  /\ Wallet0 \in [Wallets -> [status : {"ACTIVE", "MERGED"}, available : Int,
                              held : Int, credited : Nat, debited : Nat]]
  /\ Journal0 \in [Wallets -> Seq(L!EntryType)]
  /\ \A id \in DOMAIN Hold0 :
       id \in Wallets \X (Nat \ {0}) /\ id[2] \in DOMAIN Journal0[id[1]]
  /\ Hold0 \in [DOMAIN Hold0 -> [amount : Nat \ {0}, status : {"HELD", "RELEASED"}]]

(* No account was merged yet, keys are unique (the index on ove_transactions), *)
(* and a RELEASE names its hold.                                             *)
ASSUME HistoryAssumption ==
  /\ \A w \in Wallets :
       /\ Wallet0[w].status = "ACTIVE"
       /\ \A i \in DOMAIN Journal0[w] :
            /\ Journal0[w][i].type # "ACCOUNT_MERGE_OUT"
            /\ Journal0[w][i].type = "RELEASE" =>
                 \E id \in DOMAIN Hold0 : Journal0[w][i].refs = {id}
  /\ \A v, w \in Wallets : \A i \in DOMAIN Journal0[v], j \in DOMAIN Journal0[w] :
       Journal0[v][i].key = Journal0[w][j].key => <<v, i>> = <<w, j>>

Phases == {"start", "find", "lock", "check", "counter", "write", "reread",
           "answered", "failed"}
Inside == {"find", "lock", "check", "counter", "write"}
Ended(c) == pc[c] \in {"answered", "failed"}

Init ==
  /\ wallet = Wallet0 /\ journal = Journal0 /\ hold = Hold0
  /\ mergedInto = [w \in Wallets |-> Nobody]
  /\ req \in [Calls -> Requests]
  /\ pc = [c \in Calls |-> "start"]
  /\ lockedBy = [w \in Wallets |-> Nobody]
  /\ counterBy = Nobody
  /\ snap = [c \in Calls |-> Wallet0]
  /\ reply = [c \in Calls |-> {}]

Op(c) == req[c].op
Key(c) == req[c].key
Subject(c) == req[c].id       \* the hold to release, the transaction to reverse
Source(c) == IF Op(c) \in {"RELEASE", "REVERSE"} THEN Subject(c)[1] ELSE req[c].wallet

(* What a call finds under its key.  holdBalance answers with a hold, which  *)
(* it takes from metadata.walletHoldId: HOLD and RELEASE rows have it.       *)
HoldOf(id) ==
  IF L!Txn(id).type = "HOLD" THEN {id}
  ELSE IF L!Txn(id).type = "RELEASE" THEN L!Txn(id).refs ELSE {}

\* Mutant: what was done to the same hold or transaction is taken for a
\* duplicate, whoever asked for it.
FoundBySubject(c) ==
  IF Op(c) \in {"RELEASE", "REVERSE"}
  THEN {id \in L!TxnIds : Subject(c) \in L!Txn(id).refs} ELSE {}

Found(c) ==
  LET rows == {id \in L!TxnIds : L!Txn(id).key = Key(c)}
  IN IF Op(c) = "HOLD" THEN UNION {HoldOf(id) : id \in rows} ELSE rows

Answer(c, id) ==
  /\ pc' = [pc EXCEPT ![c] = "answered"]
  /\ reply' = [reply EXCEPT ![c] = {id}]

Goto(c, phase) ==
  /\ pc' = [pc EXCEPT ![c] = phase]
  /\ UNCHANGED reply

(* A transaction ends: every row lock it has is free again. *)
Unlock(c) ==
  /\ lockedBy' = [w \in Wallets |-> IF lockedBy[w] = c THEN Nobody ELSE lockedBy[w]]
  /\ counterBy' = IF counterBy = c THEN Nobody ELSE counterBy

-----------------------------------------------------------------------------
(* The look-up before the transaction. *)
Start(c) ==
  /\ pc[c] = "start"
  /\ Op(c) # "MERGE"
  /\ \/ \E answer \in Found(c) : Answer(c, answer)
     \/ /\ Found(c) = {}
        /\ Goto(c, IF Op(c) \in {"RELEASE", "REVERSE"} THEN "find" ELSE "lock")
  /\ UNCHANGED <<wallet, journal, hold, mergedInto, req, lockedBy, counterBy, snap>>

(* mergeAccounts looks at the source account instead. *)
StartMerge(c) ==
  /\ pc[c] = "start"
  /\ Op(c) = "MERGE"
  /\ IF req[c].target = Source(c) THEN Goto(c, "failed")
     ELSE IF mergedInto[Source(c)] = Nobody THEN Goto(c, "lock")
     ELSE Goto(c, IF mergedInto[Source(c)] = req[c].target THEN "answered" ELSE "failed")
  /\ UNCHANGED <<wallet, journal, hold, mergedInto, req, lockedBy, counterBy, snap>>

(* releaseHold, reverseTransaction: the read that says which wallet to lock *)
Find(c) ==
  /\ pc[c] = "find"
  /\ IF Subject(c) \in IF Op(c) = "RELEASE" THEN DOMAIN hold ELSE L!TxnIds
     THEN Goto(c, "lock") ELSE Goto(c, "failed")
  /\ UNCHANGED <<wallet, journal, hold, mergedInto, req, lockedBy, counterBy, snap>>

\* Mutant: a merge locks the source first, whatever the ids.
LockOrderUnsorted(c) ==
  IF Op(c) = "MERGE" THEN <<Source(c), req[c].target>> ELSE <<Source(c)>>

LockOrder(c) ==
  IF Op(c) # "MERGE" THEN <<Source(c)>>
  ELSE IF Source(c) < req[c].target THEN <<Source(c), req[c].target>>
       ELSE <<req[c].target, Source(c)>>

Free(w) == lockedBy[w] = Nobody

Holds(c, w) == lockedBy[w] = c

(* SELECT ... FOR UPDATE, one wallet after the other *)
Lock(c) ==
  /\ pc[c] = "lock"
  /\ \E i \in DOMAIN LockOrder(c) :
       LET w == LockOrder(c)[i]
       IN /\ \A j \in 1..(i - 1) : Holds(c, LockOrder(c)[j])
          /\ ~Holds(c, w)
          /\ Free(w)
          /\ lockedBy' = [lockedBy EXCEPT ![w] = c]
          /\ IF i = Len(LockOrder(c))
             THEN /\ Goto(c, "check")
                  /\ snap' = [snap EXCEPT ![c] = wallet]
             ELSE UNCHANGED <<pc, reply, snap>>
  /\ UNCHANGED <<wallet, journal, hold, mergedInto, req, counterBy>>

\* Mutants: what was read before the lock is not read again.
HoldStillHeldStale(c) == TRUE
BothActiveStale(c) == TRUE

HoldStillHeld(c) == hold[Subject(c)].status = "HELD"
StillReversible(c) == L!Reversible(Subject(c))

BothActive(c) == {snap[c][Source(c)].status, snap[c][req[c].target].status} = {"ACTIVE"}

Row(c) == snap[c][Source(c)]

(* The decision: on the wallet rows read with the locks, and on the hold or  *)
(* the transaction, read again.                                              *)
Permitted(c) ==
  CASE Op(c) = "GRANT" -> Row(c).status = "ACTIVE"
    [] Op(c) \in {"USE", "HOLD"} -> /\ Row(c).status = "ACTIVE"
                                    /\ Row(c).available >= req[c].amount
    [] Op(c) = "RELEASE" -> HoldStillHeld(c)
    [] Op(c) = "REVERSE" -> /\ StillReversible(c)
                            /\ L!Txn(Subject(c)).dir = "CREDIT"
                                 => Row(c).available >= L!Txn(Subject(c)).amount
    [] Op(c) = "MERGE" -> BothActive(c)

Check(c) ==
  /\ pc[c] = "check"
  /\ IF Permitted(c)
     THEN /\ Goto(c, IF Op(c) = "MERGE" /\ Row(c).available = 0 THEN "write" ELSE "counter")
          /\ UNCHANGED <<lockedBy, counterBy>>
     ELSE Goto(c, "failed") /\ Unlock(c)
  /\ UNCHANGED <<wallet, journal, hold, mergedInto, req, snap>>

(* nextDisplayCode *)
Counter(c) ==
  /\ pc[c] = "counter"
  /\ counterBy = Nobody
  /\ counterBy' = c
  /\ Goto(c, "write")
  /\ UNCHANGED <<wallet, journal, hold, mergedInto, req, lockedBy, snap>>

(* The keys it is about to insert: none, when a merge has nothing to move. *)
KeysOf(c) == IF Op(c) = "MERGE" THEN {KeyOut(Key(c)), KeyIn(Key(c))} ELSE {Key(c)}
Inserted(c) == IF Op(c) = "MERGE" /\ Row(c).available = 0 THEN {} ELSE KeysOf(c)

Taken(c) == Inserted(c) \cap L!UsedKeys

(* The INSERT meets the unique index: the transaction is rolled back.  The   *)
(* counter's lock keeps every other insert out until the end, so the index   *)
(* only ever holds committed keys.  mergeAccounts does not look again.       *)
Conflict(c) ==
  /\ pc[c] = "write"
  /\ Taken(c) # {}
  /\ IF Op(c) = "MERGE" THEN Goto(c, "failed") ELSE Goto(c, "reread")
  /\ Unlock(c)
  /\ UNCHANGED <<wallet, journal, hold, mergedInto, req, snap>>

Reread(c) ==
  /\ pc[c] = "reread"
  /\ \/ \E answer \in Found(c) : Answer(c, answer)
     \/ Found(c) = {} /\ Goto(c, "failed")
  /\ UNCHANGED <<wallet, journal, hold, mergedInto, req, lockedBy, counterBy, snap>>

-----------------------------------------------------------------------------
(* The writes, and the commit that makes them visible and frees the locks.   *)
(* A balance is written as computed from the row read with the lock; held    *)
(* and lifetime balances, and a merge's target, are incremented in place.    *)
NextId(w) == <<w, Len(journal[w]) + 1>>

Append1(c, type, dir, status, amount, refs) ==
  Append(journal[Source(c)],
         L!Entry(Key(c), type, dir, status, amount, Row(c).available, refs))

Write(c, op) ==
  /\ pc[c] = "write"
  /\ Op(c) = op
  /\ Taken(c) = {}
  /\ Unlock(c)
  /\ UNCHANGED <<req, snap>>

WriteGrant(c) ==
  LET w == Source(c)
      amount == req[c].amount
  IN /\ Write(c, "GRANT")
     /\ journal' = [journal EXCEPT ![w] =
                      Append1(c, "GRANT", "CREDIT", "COMPLETED", amount, {})]
     /\ wallet' = [wallet EXCEPT ![w].available = Row(c).available + amount,
                                 ![w].credited = @ + amount]
     /\ Answer(c, NextId(w))
     /\ UNCHANGED <<hold, mergedInto>>

WriteUse(c) ==
  LET w == Source(c)
      amount == req[c].amount
  IN /\ Write(c, "USE")
     /\ journal' = [journal EXCEPT ![w] =
                      Append1(c, "USE", "DEBIT", "COMPLETED", amount, {})]
     /\ wallet' = [wallet EXCEPT ![w].available = Row(c).available - amount,
                                 ![w].debited = @ + amount]
     /\ Answer(c, NextId(w))
     /\ UNCHANGED <<hold, mergedInto>>

WriteHold(c) ==
  LET w == Source(c)
      amount == req[c].amount
  IN /\ Write(c, "HOLD")
     /\ journal' = [journal EXCEPT ![w] =
                      Append1(c, "HOLD", "DEBIT", "HELD", amount, {})]
     /\ wallet' = [wallet EXCEPT ![w].available = Row(c).available - amount,
                                 ![w].held = @ + amount]
     /\ hold' = [id \in DOMAIN hold \cup {NextId(w)} |->
                   IF id \in DOMAIN hold THEN hold[id]
                   ELSE [amount |-> amount, status |-> "HELD"]]
     /\ Answer(c, NextId(w))
     /\ UNCHANGED mergedInto

WriteRelease(c) ==
  LET w == Source(c)
      amount == hold[Subject(c)].amount
  IN /\ Write(c, "RELEASE")
     /\ journal' = [journal EXCEPT ![w] =
                      Append1(c, "RELEASE", "CREDIT", "COMPLETED", amount, {Subject(c)})]
     /\ hold' = [hold EXCEPT ![Subject(c)].status = "RELEASED"]
     /\ wallet' = [wallet EXCEPT ![w].available = Row(c).available + amount,
                                 ![w].held = @ - amount]
     /\ Answer(c, NextId(w))
     /\ UNCHANGED mergedInto

WriteReverse(c) ==
  LET w == Source(c)
      original == L!Txn(Subject(c))
      dir == L!Opposite(original.dir)
      marked == [journal[w] EXCEPT ![Subject(c)[2]] = L!ReversedMark(original)]
  IN /\ Write(c, "REVERSE")
     /\ journal' = [journal EXCEPT ![w] =
                      Append(marked, L!Entry(Key(c), "REVERSAL", dir, "COMPLETED",
                                             original.amount, Row(c).available, {Subject(c)}))]
     /\ wallet' = IF dir = "CREDIT"
                  THEN [wallet EXCEPT ![w].available = Row(c).available + original.amount,
                                      ![w].credited = @ + original.amount]
                  ELSE [wallet EXCEPT ![w].available = Row(c).available - original.amount,
                                      ![w].debited = @ + original.amount]
     /\ Answer(c, NextId(w))
     /\ UNCHANGED <<hold, mergedInto>>

WriteMerge(c) ==
  LET source == Source(c)
      target == req[c].target
      amount == Row(c).available
  IN /\ Write(c, "MERGE")
     /\ IF amount > 0
        THEN /\ journal' = [journal EXCEPT
                  ![source] = Append(journal[source],
                                L!Entry(KeyOut(Key(c)), "ACCOUNT_MERGE_OUT", "DEBIT",
                                        "COMPLETED", amount, amount, {})),
                  ![target] = Append(journal[target],
                                L!Entry(KeyIn(Key(c)), "ACCOUNT_MERGE_IN", "CREDIT",
                                        "COMPLETED", amount, snap[c][target].available, {}))]
             /\ wallet' = [wallet EXCEPT
                  ![source] = [wallet[source] EXCEPT !.available = 0, !.debited = @ + amount,
                                                     !.status = "MERGED"],
                  ![target] = [wallet[target] EXCEPT !.available = @ + amount,
                                                     !.credited = @ + amount]]
        ELSE /\ wallet' = [wallet EXCEPT ![source].status = "MERGED"]
             /\ UNCHANGED journal
     /\ mergedInto' = [mergedInto EXCEPT ![source] = target]
     /\ Goto(c, "answered")
     /\ UNCHANGED hold

(* The process dies, the connection is lost, or Prisma's transaction timeout *)
(* expires: the database rolls back, and the caller has no answer.           *)
Abort(c) ==
  /\ pc[c] \in Inside
  /\ Goto(c, "failed")
  /\ Unlock(c)
  /\ UNCHANGED <<wallet, journal, hold, mergedInto, req, snap>>

Step(c) ==
  \/ Start(c) \/ StartMerge(c) \/ Find(c) \/ Lock(c) \/ Check(c) \/ Counter(c)
  \/ Conflict(c) \/ Reread(c)
  \/ WriteGrant(c) \/ WriteUse(c) \/ WriteHold(c)
  \/ WriteRelease(c) \/ WriteReverse(c) \/ WriteMerge(c)

Next == \E c \in Calls : Step(c) \/ Abort(c)

Spec == Init /\ [][Next]_vars

(* A statement that can run does run: PostgreSQL grants a free row lock to   *)
(* its waiters, and node runs the continuation of an answered query.         *)
FairSpec == Spec /\ \A c \in Calls : WF_vars(Step(c))

-----------------------------------------------------------------------------
(* Properties                                                               *)

\* Type invariant.
TypeOK ==
  /\ L!TypeOK
  /\ mergedInto \in [Wallets -> Wallets \cup {Nobody}]
  /\ req \in [Calls -> Requests]
  /\ pc \in [Calls -> Phases]
  /\ lockedBy \in [Wallets -> Calls \cup {Nobody}]
  /\ counterBy \in Calls \cup {Nobody}
  /\ reply \in [Calls -> SUBSET L!TxnIds]

(* The operation of Ledger that a call asks for. *)
Performed(c) ==
  CASE Op(c) = "GRANT" -> L!Credit(Source(c), Key(c), req[c].amount, 0)
    [] Op(c) = "USE" -> L!Debit(Source(c), Key(c), req[c].amount)
    [] Op(c) = "HOLD" -> L!Hold(Source(c), Key(c), req[c].amount)
    [] Op(c) = "RELEASE" -> L!Release(Subject(c), Key(c))
    [] Op(c) = "REVERSE" -> L!Reverse(Subject(c), Key(c))
    [] Op(c) = "MERGE" -> L!Merge(Source(c), req[c].target, KeyOut(Key(c)), KeyIn(Key(c)))

\* Whatever the interleaving, the database only ever moves by whole operations
\* of Ledger, each one what the call that is answered by that step had asked
\* for, decided on balances, holds and transactions still as they were read.
LedgerSteps ==
  [][\E c \in Calls : /\ ~Ended(c) /\ pc'[c] = "answered"
                      /\ Performed(c)]_ledger

\* A call that is answered with a transaction is answered with the one that
\* did what it asked, once every caller that may use its key asked for the same
\* (a merge uses the two keys it makes, not the one it was given).
AnsweredAsAsked ==
  \A c \in Calls : \A id \in reply[c] :
    (/\ \A d \in Calls : Key(c) \in KeysOf(d) => req[d] = req[c]
     /\ \A w \in Wallets : \A i \in DOMAIN Journal0[w] : Journal0[w][i].key # Key(c))
      => LET row == L!Txn(id)
         IN /\ row.key = Key(c)
            /\ id[1] = Source(c)
            /\ CASE Op(c) \in {"GRANT", "USE", "HOLD"} -> /\ row.type = Op(c)
                                                          /\ row.amount = req[c].amount
                 [] Op(c) = "RELEASE" -> row.type = "RELEASE" /\ row.refs = {Subject(c)}
                 [] Op(c) = "REVERSE" -> row.type = "REVERSAL" /\ row.refs = {Subject(c)}
                 [] OTHER -> FALSE

\* Calls that share a key and are both answered are answered alike: a retry,
\* or a duplicate that raced the original, gets the original's transaction.
\* (holdBalance answers with a hold, so it is compared with itself.)
DuplicatesAnsweredAlike ==
  \A c, d \in Calls :
    (/\ Key(c) = Key(d)
     /\ (Op(c) = "HOLD") <=> (Op(d) = "HOLD")
     /\ {} \notin {reply[c], reply[d]})
      => reply[c] = reply[d]

\* A retry, or a duplicate that raced the original, gets the original's
\* transaction, and that transaction did what both had asked for.
AnsweredOnceAsAsked == AnsweredAsAsked /\ DuplicatesAnsweredAlike

\* An account is marked as merged into another exactly when its wallet is
\* closed, and the balance it moved is in that other's journal.
MergeFollowsBalance ==
  \A w \in Wallets :
    /\ mergedInto[w] # Nobody <=> wallet[w].status = "MERGED"
    /\ \A i \in DOMAIN journal[w] :
         journal[w][i].type = "ACCOUNT_MERGE_OUT" =>
           \E j \in DOMAIN journal[mergedInto[w]] :
             /\ journal[mergedInto[w]][j].type = "ACCOUNT_MERGE_IN"
             /\ journal[mergedInto[w]][j].key[1] = journal[w][i].key[1]
             /\ journal[mergedInto[w]][j].amount = journal[w][i].amount

\* Every call comes to an end: no set of calls waits for each other's locks.
EveryCallEnds == <>(\A c \in Calls : Ended(c))

=============================================================================
