------------------------ MODULE LedgerRequests_proofs ------------------------
(* The interleaved calls of LedgerRequests only ever perform operations of   *)
(* Ledger, and are answered with what they asked for, for every set of       *)
(* calls, wallets, keys and requests.                                        *)
EXTENDS LedgerRequests, FiniteSetTheorems, TLAPS

USE NobodyAssumption, RequestsAssumption

AskedAmounts == {r.amount : r \in {s \in Requests : s.op \in {"GRANT", "USE", "HOLD"}}}

LP == INSTANCE Ledger_proofs WITH
       Keys <- AllKeys, Amounts <- AskedAmounts,
       ExpiryDays <- {0}, MaxTime <- 0, lot <- [id \in {} |-> {}], now <- 0

-----------------------------------------------------------------------------
(* The definitions of Ledger, as this module's proofs use them               *)

LEMMA TypeInvIs == L!TypeOK <=> LP!TypeInv
  BY DEF L!TypeOK, LP!TypeInv, L!EntryType, LP!EntryType, L!TxnIds, LP!TxnIds,
         LP!WalletType, LP!HoldType, LP!LotType, L!TxnTypes, LP!TxnTypes

LEMMA Assumptions == AskedAmounts \subseteq Nat \ {0} /\ {0} \subseteq Nat /\ 0 \in Nat
  BY DEF AskedAmounts, RequestType

\* What a request has, by its operation.
LEMMA Asked ==
  ASSUME NEW r \in Requests
  PROVE  /\ r.op \in {"GRANT", "USE", "HOLD", "RELEASE", "REVERSE", "MERGE"}
         /\ r.key \in Keys
         /\ r.op \in {"GRANT", "USE", "HOLD"} => r.wallet \in Wallets /\ r.amount \in AskedAmounts
         /\ r.op \in {"RELEASE", "REVERSE"} => r.id \in Wallets \X (Nat \ {0})
         /\ r.op = "MERGE" => r.wallet \in Wallets /\ r.target \in Wallets
<1>1. r \in RequestType
  OBVIOUS
<1>2. CASE r \in [op : {"GRANT", "USE", "HOLD"}, wallet : Wallets, key : Keys, amount : Nat \ {0}]
  BY <1>2 DEF AskedAmounts
<1>3. CASE r \in [op : {"RELEASE", "REVERSE"}, id : Wallets \X (Nat \ {0}), key : Keys]
  BY <1>3
<1>4. CASE r \in [op : {"MERGE"}, wallet : Wallets, target : Wallets, key : Keys]
  BY <1>4
<1> QED BY <1>1, <1>2, <1>3, <1>4 DEF RequestType

-----------------------------------------------------------------------------
(* The inductive invariant                                                   *)

Deciding == {"check", "counter", "write"}

Locks(c) == {Source(c)} \cup (IF Op(c) = "MERGE" THEN {req[c].target} ELSE {})

\* What a call has asked for exists, from when it looks for locks.
Named(c) ==
  /\ pc[c] = "find" => Op(c) # "MERGE"
  /\ pc[c] \in Deciding \cup {"lock"} =>
       /\ Op(c) = "MERGE" => Source(c) # req[c].target
       /\ Op(c) = "RELEASE" => Subject(c) \in DOMAIN hold
       /\ Op(c) = "REVERSE" => Subject(c) \in L!TxnIds

\* From its check to its commit a call has the locks of the wallets it
\* touches, and what it read of them is still so.
Locked(c) ==
  pc[c] \in Deciding =>
    \A w \in Locks(c) : lockedBy[w] = c /\ snap[c][w] = wallet[w]

\* What it decided is still right when it writes.
Decided(c) == pc[c] \in {"counter", "write"} => Permitted(c)

Safe(c) == Named(c) /\ Locked(c) /\ Decided(c)

CallsTyped ==
  /\ req \in [Calls -> Requests]
  /\ pc \in [Calls -> Phases]
  /\ lockedBy \in [Wallets -> Calls \cup {Nobody}]
  /\ snap \in [Calls -> [Wallets -> LP!WalletType]]

IInv == L!TypeOK /\ CallsTyped /\ \A c \in Calls : Safe(c)

\* What a step of c leaves alone: every row that c has no lock on.
LeavesAlone(c) ==
  /\ \A w \in Wallets : lockedBy[w] # c => wallet'[w] = wallet[w]
  /\ L!TxnIds \subseteq L!TxnIds'
  /\ \A id \in L!TxnIds : lockedBy[id[1]] # c => L!Txn(id)' = L!Txn(id)
  /\ DOMAIN hold \subseteq DOMAIN hold'
  /\ \A id \in DOMAIN hold : lockedBy[id[1]] # c => hold'[id] = hold[id]
  /\ \A id \in L!TxnIds : lockedBy[id[1]] # c => (L!AlreadyReversed(id)' => L!AlreadyReversed(id))

LEMMA Typed ==
  ASSUME CallsTyped, NEW c \in Calls
  PROVE  /\ req[c] \in Requests
         /\ Op(c) \in {"GRANT", "USE", "HOLD", "RELEASE", "REVERSE", "MERGE"}
         /\ Key(c) \in Keys
         /\ Source(c) \in Wallets /\ Locks(c) \subseteq Wallets
         /\ Op(c) \in {"GRANT", "USE", "HOLD"} => req[c].amount \in AskedAmounts
         /\ Op(c) \in {"RELEASE", "REVERSE"} => Subject(c)[1] = Source(c)
         /\ Op(c) = "MERGE" => req[c].target \in Wallets
<1>1. req[c] \in Requests
  BY DEF CallsTyped
<1>2. Source(c) \in Wallets
  BY <1>1, Asked DEF Source, Op, Subject
<1> QED BY <1>1, <1>2, Asked DEF Op, Key, Source, Subject, Locks

-----------------------------------------------------------------------------
\* A step of another call does not disturb what a call has read and decided.
LEMMA Undisturbed ==
  ASSUME IInv, NEW c \in Calls, NEW d \in Calls, c # d, LeavesAlone(c),
         req' = req, pc'[d] = pc[d], snap'[d] = snap[d],
         \A w \in Wallets : lockedBy[w] = d => lockedBy'[w] = d
  PROVE  Safe(d)'
<1>0. CallsTyped /\ Safe(d)
  BY DEF IInv
<1>1. /\ Op(d)' = Op(d) /\ Subject(d)' = Subject(d) /\ Source(d)' = Source(d)
      /\ Locks(d)' = Locks(d) /\ Locks(d) \subseteq Wallets
  BY <1>0, Typed DEF Op, Subject, Source, Locks
<1>2. Named(d)'
  BY <1>0, <1>1 DEF Named, Safe, LeavesAlone
<1>3. Locked(d)'
  BY <1>0, <1>1 DEF Locked, Safe, LeavesAlone
<1>4. ASSUME pc[d] \in {"counter", "write"} PROVE Permitted(d)'
  <2>1. Permitted(d) /\ Named(d) /\ Locked(d) /\ pc[d] \in Deciding
    BY <1>0, <1>4 DEF Safe, Decided, Deciding
  <2>2. lockedBy[Source(d)] # c /\ Source(d) \in Wallets
    BY <2>1, <1>0, Typed DEF Locked, Locks
  <2>3. Row(d)' = Row(d)
    BY <1>1 DEF Row
  <2>4. CASE Op(d) \in {"GRANT", "USE", "HOLD"}
    BY <2>1, <2>3, <2>4, <1>1 DEF Permitted
  <2>5. CASE Op(d) = "RELEASE"
    <3>1. Subject(d) \in DOMAIN hold /\ Subject(d)[1] = Source(d)
      BY <2>1, <2>5, <1>0, Typed DEF Named, Deciding
    <3>2. hold'[Subject(d)] = hold[Subject(d)]
      BY <3>1, <2>2 DEF LeavesAlone
    <3> QED BY <2>1, <2>5, <3>2, <1>1 DEF Permitted, HoldStillHeld
  <2>6. CASE Op(d) = "REVERSE"
    <3>1. Subject(d) \in L!TxnIds /\ Subject(d)[1] = Source(d)
      BY <2>1, <2>6, <1>0, Typed DEF Named, Deciding
    <3>2. PICK id : id = Subject(d)
      OBVIOUS
    <3>3. L!Txn(id)' = L!Txn(id) /\ (L!AlreadyReversed(id)' => L!AlreadyReversed(id))
      BY <3>1, <3>2, <2>2 DEF LeavesAlone
    <3>4. StillReversible(d) /\ (L!Txn(id).dir = "CREDIT" => Row(d).available >= L!Txn(id).amount)
      BY <2>1, <2>6, <3>2 DEF Permitted
    <3>5. L!Reversible(id)'
      BY <3>2, <3>3, <3>4 DEF StillReversible, L!Reversible
    <3>6. Subject(d)' = id /\ Op(d)' = "REVERSE"
      BY <1>1, <3>2, <2>6
    <3> QED BY <3>3, <3>4, <3>5, <3>6, <2>3 DEF Permitted, StillReversible
  <2>7. CASE Op(d) = "MERGE"
    BY <2>1, <2>7, <1>1 DEF Permitted, BothActive, Op, Source
  <2> QED BY <2>4, <2>5, <2>6, <2>7, <1>0, Typed
<1> QED BY <1>2, <1>3, <1>4 DEF Safe, Decided

-----------------------------------------------------------------------------
(* What an operation of Ledger does to the rows the calls see                *)

\* LP and L are the same ledger.
LEMMA SameLedger ==
  /\ L!TxnIds = LP!TxnIds /\ L!UsedKeys = LP!UsedKeys
  /\ \A id : L!Txn(id) = LP!Txn(id)
  /\ \A id : L!AlreadyReversed(id) <=> LP!AlreadyReversed(id)
  BY DEF L!TxnIds, LP!TxnIds, L!UsedKeys, LP!UsedKeys, L!Txn, LP!Txn,
         L!AlreadyReversed, LP!AlreadyReversed

LEMMA SameLedgerNext ==
  /\ L!TxnIds' = LP!TxnIds'
  /\ \A id : L!Txn(id)' = LP!Txn(id)'
  /\ \A id : L!AlreadyReversed(id)' <=> LP!AlreadyReversed(id)'
  BY DEF L!TxnIds, LP!TxnIds, L!Txn, LP!Txn, L!AlreadyReversed, LP!AlreadyReversed

\* An operation on wallets that c has locked leaves alone what it must.
LEMMA LocalLeavesAlone ==
  ASSUME NEW c, NEW ws, \A w \in ws : lockedBy[w] = c, LP!OnlyRowsOf(ws),
         DOMAIN hold \subseteq L!TxnIds
  PROVE  LeavesAlone(c)
  BY SameLedger, SameLedgerNext DEF LeavesAlone, LP!OnlyRowsOf

\* The operations of the two instances are the same.
LEMMA SameCredit ==
  ASSUME NEW w, NEW key, NEW amount
  PROVE  L!Credit(w, key, amount, 0) => LP!Credit(w, key, amount, 0)
  BY DEF L!Credit, LP!Credit, L!Posted, LP!Posted, L!Entry, LP!Entry, L!Deposited,
         LP!Deposited, L!UsedKeys, LP!UsedKeys, L!TxnIds, LP!TxnIds, L!Txn, LP!Txn,
         L!Active, LP!Active

\* Sets have the same size in both.
LEMMA SameSizes ==
  ASSUME NEW S
  PROVE  L!Cardinality(S) = Cardinality(S) /\ LP!Cardinality(S) = Cardinality(S)
  BY DEF L!Cardinality, LP!Cardinality, Cardinality

\* The calls have no lots to draw on.
LEMMA NoLots ==
  ASSUME NEW w, NEW amount \in Nat
  PROVE  L!ConsumeLots(w, amount) /\ LP!ConsumeLots(w, amount)
<1>1. \A f : L!Total(f, {}) = 0 /\ LP!Total(f, {}) = 0
  <2>1. \A f : L!Points(f, {}) = {} /\ LP!Points(f, {}) = {}
    BY DEF L!Points, LP!Points
  <2>2. Cardinality({}) = 0
    BY FS_EmptySet
  <2> QED BY <2>1, <2>2, SameSizes DEF L!Total, LP!Total
<1>2. L!Spendable(w) = {} /\ LP!Spendable(w) = {}
  BY DEF L!Spendable, LP!Spendable
<1>3. L!Smaller(amount, 0) = 0 /\ LP!Smaller(amount, 0) = 0
  BY DEF L!Smaller, LP!Smaller
<1>4. PICK taken : taken \in [{} -> 0..amount]
  <2>1. [x \in {} |-> 0] \in [{} -> 0..amount]
    OBVIOUS
  <2> QED BY <2>1
<1>5. L!FifoConsumption(taken, {}, amount) /\ LP!FifoConsumption(taken, {}, amount)
  BY <1>1, <1>3 DEF L!FifoConsumption, LP!FifoConsumption
<1>6. L!ConsumeLots(w, amount)
  BY <1>2, <1>4, <1>5 DEF L!ConsumeLots
<1>7. LP!ConsumeLots(w, amount)
  BY <1>2, <1>4, <1>5 DEF LP!ConsumeLots
<1> QED BY <1>6, <1>7

LEMMA SameDebit ==
  ASSUME NEW w, NEW key, NEW amount \in Nat
  PROVE  L!Debit(w, key, amount) => LP!Debit(w, key, amount)
  BY NoLots
     DEF L!Debit, LP!Debit, L!Posted, LP!Posted, L!Entry, LP!Entry, L!Withdrawn,
         LP!Withdrawn, L!UsedKeys, LP!UsedKeys, L!TxnIds, LP!TxnIds, L!Txn, LP!Txn,
         L!Active, LP!Active, L!Covers, LP!Covers

LEMMA SameHold ==
  ASSUME NEW w, NEW key, NEW amount
  PROVE  L!Hold(w, key, amount) => LP!Hold(w, key, amount)
  BY DEF L!Hold, LP!Hold, L!Posted, LP!Posted, L!Entry, LP!Entry, L!UsedKeys,
         LP!UsedKeys, L!TxnIds, LP!TxnIds, L!Txn, LP!Txn, L!Active, LP!Active,
         L!Covers, LP!Covers

LEMMA SameRelease ==
  ASSUME NEW id, NEW key
  PROVE  L!Release(id, key) => LP!Release(id, key)
  BY DEF L!Release, LP!Release, L!Posted, LP!Posted, L!Entry, LP!Entry, L!UsedKeys,
         LP!UsedKeys, L!TxnIds, LP!TxnIds, L!Txn, LP!Txn, L!Releasable, LP!Releasable

LEMMA SameReverse ==
  ASSUME NEW id, NEW key
  PROVE  L!Reverse(id, key) => LP!Reverse(id, key)
  BY DEF L!Reverse, LP!Reverse, L!Entry, LP!Entry, L!UsedKeys, LP!UsedKeys, L!TxnIds,
         LP!TxnIds, L!Txn, LP!Txn, L!Reversible, LP!Reversible, L!AlreadyReversed,
         LP!AlreadyReversed, L!Covers, LP!Covers, L!ReversedMark, LP!ReversedMark,
         L!Opposite, LP!Opposite, L!Deposited, LP!Deposited, L!Withdrawn, LP!Withdrawn,
         L!VoidedLots, LP!VoidedLots

LEMMA SameMerge ==
  ASSUME NEW source, NEW target, NEW keyOut, NEW keyIn
  PROVE  L!Merge(source, target, keyOut, keyIn) => LP!Merge(source, target, keyOut, keyIn)
  BY DEF L!Merge, LP!Merge, L!Posted, LP!Posted, L!Entry, LP!Entry, L!UsedKeys,
         LP!UsedKeys, L!TxnIds, LP!TxnIds, L!Txn, LP!Txn, L!Active, LP!Active

\* A call that performs what it asked for, on wallets it has locked, leaves a
\* ledger, and leaves alone what the other calls have locked.
LEMMA PerformedSafely ==
  ASSUME IInv, NEW c \in Calls, Performed(c), pc[c] = "write"
  PROVE  L!TypeOK' /\ LeavesAlone(c)
<1>1. /\ LP!TypeInv /\ CallsTyped /\ Named(c) /\ DOMAIN hold \subseteq L!TxnIds
      /\ \A w \in Locks(c) : lockedBy[w] = c
  BY TypeInvIs DEF IInv, Safe, Locked, Deciding, LP!TypeInv, L!TypeOK
<1>2. /\ Source(c) \in Wallets /\ Key(c) \in AllKeys
      /\ KeyOut(Key(c)) \in AllKeys /\ KeyIn(Key(c)) \in AllKeys
      /\ Source(c) \in Locks(c)
  BY <1>1, Typed DEF AllKeys, KeyOut, KeyIn, Locks
<1>3. ASSUME NEW ws, LP!TypeInv', LP!OnlyRowsOf(ws), ws \subseteq Locks(c)
      PROVE  L!TypeOK' /\ LeavesAlone(c)
  <2>1. \A w \in ws : lockedBy[w] = c
    BY <1>1, <1>3
  <2>2. LeavesAlone(c)
    BY <1>1, <1>3, <2>1, LocalLeavesAlone
  <2>3. L!TypeOK'
    BY <1>3, TypeInvIs, PTL
  <2> QED BY <2>2, <2>3
<1>4. CASE Op(c) = "GRANT"
  <2>1. req[c].amount \in AskedAmounts /\ 0 \in {0}
    BY <1>1, <1>4, Typed
  <2>2. LP!Credit(Source(c), Key(c), req[c].amount, 0)
    BY <1>4, SameCredit DEF Performed
  <2>3. LP!TypeInv'
    BY <1>1, <1>2, <2>1, <2>2, Assumptions, LP!CreditTyped
  <2>4. LP!OnlyRowsOf({Source(c)})
    BY <1>1, <1>2, <2>1, <2>2, Assumptions, LP!CreditLocal
  <2> QED BY <1>2, <1>3, <2>3, <2>4
<1>5. CASE Op(c) = "USE"
  <2>1. req[c].amount \in AskedAmounts /\ req[c].amount \in Nat
    BY <1>1, <1>5, Typed, Assumptions
  <2>2. LP!Debit(Source(c), Key(c), req[c].amount)
    BY <1>5, <2>1, SameDebit DEF Performed
  <2>3. LP!TypeInv'
    BY <1>1, <1>2, <2>1, <2>2, Assumptions, LP!DebitTyped
  <2>4. LP!OnlyRowsOf({Source(c)})
    BY <1>1, <1>2, <2>1, <2>2, Assumptions, LP!DebitLocal
  <2> QED BY <1>2, <1>3, <2>3, <2>4
<1>6. CASE Op(c) = "HOLD"
  <2>1. req[c].amount \in AskedAmounts
    BY <1>1, <1>6, Typed
  <2>2. LP!Hold(Source(c), Key(c), req[c].amount)
    BY <1>6, SameHold DEF Performed
  <2>3. LP!TypeInv'
    BY <1>1, <1>2, <2>1, <2>2, Assumptions, LP!HoldTyped
  <2>4. LP!OnlyRowsOf({Source(c)})
    BY <1>1, <1>2, <2>1, <2>2, Assumptions, LP!HoldLocal
  <2> QED BY <1>2, <1>3, <2>3, <2>4
<1>7. CASE Op(c) = "RELEASE"
  <2>1. Subject(c) \in DOMAIN hold /\ Subject(c)[1] = Source(c)
    BY <1>1, <1>7, Typed DEF Named, Deciding
  <2>2. LP!Release(Subject(c), Key(c))
    BY <1>7, SameRelease DEF Performed
  <2>3. LP!TypeInv'
    BY <1>1, <1>2, <2>1, <2>2, Assumptions, LP!ReleaseTyped
  <2>4. LP!OnlyRowsOf({Subject(c)[1]})
    BY <1>1, <1>2, <2>1, <2>2, Assumptions, LP!ReleaseLocal
  <2> QED BY <1>2, <1>3, <2>1, <2>3, <2>4
<1>8. CASE Op(c) = "REVERSE"
  <2>1. Subject(c) \in LP!TxnIds /\ Subject(c)[1] = Source(c)
    BY <1>1, <1>8, Typed, SameLedger DEF Named, Deciding
  <2>2. LP!Reverse(Subject(c), Key(c))
    BY <1>8, SameReverse DEF Performed
  <2>3. LP!TypeInv'
    BY <1>1, <1>2, <2>1, <2>2, Assumptions, LP!ReverseTyped
  <2>4. LP!OnlyRowsOf({Subject(c)[1]})
    BY <1>1, <1>2, <2>1, <2>2, Assumptions, LP!ReverseLocal
  <2> QED BY <1>2, <1>3, <2>1, <2>3, <2>4
<1>9. CASE Op(c) = "MERGE"
  <2>1. req[c].target \in Wallets /\ req[c].target \in Locks(c)
    BY <1>1, <1>9, Typed DEF Locks
  <2>2. LP!Merge(Source(c), req[c].target, KeyOut(Key(c)), KeyIn(Key(c)))
    BY <1>9, SameMerge DEF Performed
  <2>3. LP!TypeInv'
    BY <1>1, <1>2, <2>1, <2>2, Assumptions, LP!MergeTyped
  <2>4. LP!OnlyRowsOf({Source(c), req[c].target})
    BY <1>1, <1>2, <2>1, <2>2, Assumptions, LP!MergeLocal
  <2> QED BY <1>2, <1>3, <2>1, <2>3, <2>4
<1> QED BY <1>1, <1>4, <1>5, <1>6, <1>7, <1>8, <1>9, Typed

-----------------------------------------------------------------------------
(* Each write performs the operation of Ledger that the call asked for       *)

LEMMA AtWrite ==
  ASSUME IInv, NEW c \in Calls, pc[c] = "write", Taken(c) = {}
  PROVE  /\ Permitted(c) /\ Named(c) /\ CallsTyped
         /\ \A w \in Locks(c) : snap[c][w] = wallet[w]
         /\ Row(c) = wallet[Source(c)]
         /\ Op(c) # "MERGE" => Key(c) \notin L!UsedKeys
  BY DEF IInv, Safe, Decided, Locked, Deciding, Locks, Row, Taken, Inserted, KeysOf

LEMMA GrantPerformed ==
  ASSUME IInv, NEW c \in Calls, WriteGrant(c) PROVE Performed(c)
<1>1. Op(c) = "GRANT" /\ pc[c] = "write" /\ Taken(c) = {}
  BY DEF WriteGrant, Write
<1>2. PICK w, amount : w = Source(c) /\ amount = req[c].amount
  OBVIOUS
<1>3. Row(c) = wallet[w] /\ wallet[w].status = "ACTIVE" /\ Key(c) \notin L!UsedKeys
  BY <1>1, <1>2, AtWrite DEF Permitted
<1>4. journal' = [journal EXCEPT ![w] = L!Posted(w, Key(c), "GRANT", "CREDIT", "COMPLETED", amount, {})]
  BY <1>2, <1>3 DEF WriteGrant, Append1, L!Posted
<1>5. wallet' = L!Deposited(w, amount)
  BY <1>2, <1>3 DEF WriteGrant, L!Deposited
<1>6. hold' = hold
  BY DEF WriteGrant
<1>7. L!Credit(w, Key(c), amount, 0)
  BY <1>3, <1>4, <1>5, <1>6 DEF L!Credit, L!Active
<1> QED BY <1>1, <1>2, <1>7 DEF Performed

LEMMA UsePerformed ==
  ASSUME IInv, NEW c \in Calls, WriteUse(c) PROVE Performed(c)
<1>1. Op(c) = "USE" /\ pc[c] = "write" /\ Taken(c) = {}
  BY DEF WriteUse, Write
<1>2. PICK w, amount : w = Source(c) /\ amount = req[c].amount
  OBVIOUS
<1>3. /\ Row(c) = wallet[w] /\ wallet[w].status = "ACTIVE" /\ Key(c) \notin L!UsedKeys
      /\ wallet[w].available >= amount /\ amount \in Nat
  BY <1>1, <1>2, AtWrite, Typed, Assumptions DEF Permitted
<1>4. journal' = [journal EXCEPT ![w] = L!Posted(w, Key(c), "USE", "DEBIT", "COMPLETED", amount, {})]
  BY <1>2, <1>3 DEF WriteUse, Append1, L!Posted
<1>5. wallet' = L!Withdrawn(w, amount)
  BY <1>2, <1>3 DEF WriteUse, L!Withdrawn
<1>6. hold' = hold
  BY DEF WriteUse
<1>7. L!Debit(w, Key(c), amount)
  BY <1>3, <1>4, <1>5, <1>6, NoLots DEF L!Debit, L!Active, L!Covers
<1> QED BY <1>1, <1>2, <1>7 DEF Performed

LEMMA HoldPerformed ==
  ASSUME IInv, NEW c \in Calls, WriteHold(c) PROVE Performed(c)
<1>1. Op(c) = "HOLD" /\ pc[c] = "write" /\ Taken(c) = {}
  BY DEF WriteHold, Write
<1>2. PICK w, amount : w = Source(c) /\ amount = req[c].amount
  OBVIOUS
<1>3. /\ Row(c) = wallet[w] /\ wallet[w].status = "ACTIVE" /\ Key(c) \notin L!UsedKeys
      /\ wallet[w].available >= amount
  BY <1>1, <1>2, AtWrite DEF Permitted
<1>4. journal' = [journal EXCEPT ![w] = L!Posted(w, Key(c), "HOLD", "DEBIT", "HELD", amount, {})]
  BY <1>2, <1>3 DEF WriteHold, Append1, L!Posted
<1>5. wallet' = [wallet EXCEPT ![w].available = @ - amount, ![w].held = @ + amount]
  BY <1>2, <1>3 DEF WriteHold
<1>6. hold' = [id \in DOMAIN hold \cup {<<w, Len(journal[w]) + 1>>} |->
                IF id \in DOMAIN hold THEN hold[id]
                ELSE [amount |-> amount, status |-> "HELD"]]
  BY <1>2 DEF WriteHold, NextId
<1>7. L!Hold(w, Key(c), amount)
  BY <1>3, <1>4, <1>5, <1>6 DEF L!Hold, L!Active, L!Covers
<1> QED BY <1>1, <1>2, <1>7 DEF Performed

LEMMA ReleasePerformed ==
  ASSUME IInv, NEW c \in Calls, WriteRelease(c) PROVE Performed(c)
<1>1. Op(c) = "RELEASE" /\ pc[c] = "write" /\ Taken(c) = {}
  BY DEF WriteRelease, Write
<1>2. PICK id, w, amount : id = Subject(c) /\ w = Source(c) /\ amount = hold[id].amount
  OBVIOUS
<1>3. Row(c) = wallet[w] /\ hold[id].status = "HELD" /\ Key(c) \notin L!UsedKeys /\ w = id[1]
  BY <1>1, <1>2, AtWrite, Typed DEF Permitted, HoldStillHeld
<1>4. journal' = [journal EXCEPT ![w] = L!Posted(w, Key(c), "RELEASE", "CREDIT", "COMPLETED", amount, {id})]
  BY <1>2, <1>3 DEF WriteRelease, Append1, L!Posted
<1>5. wallet' = [wallet EXCEPT ![w].available = @ + amount, ![w].held = @ - amount]
  BY <1>2, <1>3 DEF WriteRelease
<1>6. hold' = [hold EXCEPT ![id].status = "RELEASED"]
  BY <1>2 DEF WriteRelease
<1>7. L!Release(id, Key(c))
  BY <1>2, <1>3, <1>4, <1>5, <1>6 DEF L!Release, L!Releasable
<1> QED BY <1>1, <1>2, <1>7 DEF Performed

LEMMA ReversePerformed ==
  ASSUME IInv, NEW c \in Calls, WriteReverse(c) PROVE Performed(c)
<1>1. Op(c) = "REVERSE" /\ pc[c] = "write" /\ Taken(c) = {}
  BY DEF WriteReverse, Write
<1>2. PICK id, w, original : id = Subject(c) /\ w = Source(c) /\ original = L!Txn(id)
  OBVIOUS
<1>3. /\ Row(c) = wallet[w] /\ L!Reversible(id) /\ Key(c) \notin L!UsedKeys /\ w = id[1]
      /\ original.dir = "CREDIT" => wallet[w].available >= original.amount
  BY <1>1, <1>2, AtWrite, Typed DEF Permitted, StillReversible
<1>4. journal' = [journal EXCEPT ![w] =
                    Append([journal[w] EXCEPT ![id[2]] = L!ReversedMark(original)],
                           L!Entry(Key(c), "REVERSAL", L!Opposite(original.dir), "COMPLETED",
                                   original.amount, wallet[w].available, {id}))]
  BY <1>2, <1>3 DEF WriteReverse
<1>5. wallet' = IF L!Opposite(original.dir) = "CREDIT"
                THEN L!Deposited(w, original.amount) ELSE L!Withdrawn(w, original.amount)
  BY <1>2, <1>3 DEF WriteReverse, L!Deposited, L!Withdrawn
<1>6. hold' = hold
  BY DEF WriteReverse
<1>7. L!Opposite(original.dir) = "DEBIT" => wallet[w].available >= original.amount
  BY <1>3 DEF L!Opposite
<1>8. L!Reverse(id, Key(c))
  BY <1>2, <1>3, <1>4, <1>5, <1>6, <1>7 DEF L!Reverse, L!Covers, L!VoidedLots
<1> QED BY <1>1, <1>2, <1>8 DEF Performed

LEMMA MergePerformed ==
  ASSUME IInv, NEW c \in Calls, WriteMerge(c) PROVE Performed(c)
<1>1. Op(c) = "MERGE" /\ pc[c] = "write" /\ Taken(c) = {}
  BY DEF WriteMerge, Write
<1>2. PICK source, target, amount :
        source = Source(c) /\ target = req[c].target /\ amount = Row(c).available
  OBVIOUS
<1>3. /\ Row(c) = wallet[source] /\ snap[c][target] = wallet[target]
      /\ source # target /\ BothActive(c)
  BY <1>1, <1>2, AtWrite DEF Permitted, Named, Deciding, Locks
<1>4. wallet[source].status = "ACTIVE" /\ wallet[target].status = "ACTIVE"
  BY <1>2, <1>3 DEF BothActive, Row
<1>5. hold' = hold
  BY DEF WriteMerge
<1>6. amount = wallet[source].available /\ amount \in Int
  <2>1. CallsTyped /\ LP!TypeInv /\ source \in Wallets
    BY <1>2, TypeInvIs, Typed DEF IInv
  <2> QED BY <1>2, <1>3, <2>1 DEF LP!TypeInv, LP!WalletType
<1>7. ASSUME amount > 0
      PROVE  /\ {KeyOut(Key(c)), KeyIn(Key(c))} \cap L!UsedKeys = {}
             /\ KeyOut(Key(c)) # KeyIn(Key(c))
             /\ journal' = [journal EXCEPT
                  ![source] = L!Posted(source, KeyOut(Key(c)), "ACCOUNT_MERGE_OUT", "DEBIT",
                                       "COMPLETED", amount, {}),
                  ![target] = L!Posted(target, KeyIn(Key(c)), "ACCOUNT_MERGE_IN", "CREDIT",
                                       "COMPLETED", amount, {})]
             /\ wallet' = [wallet EXCEPT
                  ![source] = [wallet[source] EXCEPT !.available = 0, !.debited = @ + amount,
                                                     !.status = "MERGED"],
                  ![target] = [wallet[target] EXCEPT !.available = @ + amount,
                                                     !.credited = @ + amount]]
  <2>1. {KeyOut(Key(c)), KeyIn(Key(c))} \cap L!UsedKeys = {}
    BY <1>1, <1>2, <1>6, <1>7 DEF Taken, Inserted, KeysOf
  <2>2. KeyOut(Key(c)) # KeyIn(Key(c))
    BY DEF KeyOut, KeyIn
  <2>3. journal' = [journal EXCEPT
                  ![source] = L!Posted(source, KeyOut(Key(c)), "ACCOUNT_MERGE_OUT", "DEBIT",
                                       "COMPLETED", amount, {}),
                  ![target] = L!Posted(target, KeyIn(Key(c)), "ACCOUNT_MERGE_IN", "CREDIT",
                                       "COMPLETED", amount, {})]
    BY <1>2, <1>3, <1>6, <1>7 DEF WriteMerge, L!Posted
  <2>4. wallet' = [wallet EXCEPT
                  ![source] = [wallet[source] EXCEPT !.available = 0, !.debited = @ + amount,
                                                     !.status = "MERGED"],
                  ![target] = [wallet[target] EXCEPT !.available = @ + amount,
                                                     !.credited = @ + amount]]
    BY <1>2, <1>7 DEF WriteMerge
  <2> QED BY <2>1, <2>2, <2>3, <2>4
<1>8. ASSUME ~(amount > 0)
      PROVE  wallet' = [wallet EXCEPT ![source].status = "MERGED"] /\ journal' = journal
  BY <1>2, <1>8 DEF WriteMerge
<1>9. L!Merge(source, target, KeyOut(Key(c)), KeyIn(Key(c)))
  BY <1>3, <1>4, <1>5, <1>6, <1>7, <1>8 DEF L!Merge, L!Active
<1> QED BY <1>1, <1>2, <1>9 DEF Performed

-----------------------------------------------------------------------------
(* Every step keeps the invariant                                            *)

\* What one step of c may change of the calls and their locks.
Alone(c) ==
  /\ req' = req
  /\ \A d \in Calls \ {c} : pc'[d] = pc[d] /\ snap'[d] = snap[d]
  /\ \A d \in Calls \ {c} : \A w \in Wallets : lockedBy[w] = d => lockedBy'[w] = d

LEMMA StepKeeps ==
  ASSUME IInv, NEW c \in Calls, Alone(c), LeavesAlone(c), L!TypeOK', CallsTyped', Safe(c)'
  PROVE  IInv'
<1>1. ASSUME NEW d \in Calls, d # c PROVE Safe(d)'
  BY <1>1, Undisturbed DEF Alone
<1> QED BY <1>1 DEF IInv

LEMMA LedgerUnchanged ==
  ASSUME IInv, UNCHANGED ledger PROVE L!TypeOK' /\ \A c : LeavesAlone(c)
<1>1. wallet' = wallet /\ journal' = journal /\ hold' = hold
  BY DEF ledger
<1>2. L!TxnIds' = L!TxnIds
  BY <1>1 DEF L!TxnIds
<1>3. L!TypeOK'
  BY <1>1, <1>2 DEF IInv, L!TypeOK
<1>4. \A c : LeavesAlone(c)
  BY <1>1 DEF LeavesAlone, L!TxnIds, L!Txn, L!AlreadyReversed
<1> QED BY <1>3, <1>4

\* A call that is not past its look for locks has nothing to keep.
LEMMA NothingToKeep ==
  ASSUME NEW c \in Calls, pc'[c] \in Phases \ (Deciding \cup {"find", "lock"}) PROVE Safe(c)'
  BY DEF Safe, Named, Locked, Decided, Deciding

\* Where Goto and Answer go, and what Unlock frees.
LEMMA Moved ==
  ASSUME CallsTyped, NEW c \in Calls, NEW phase \in Phases, Goto(c, phase)
  PROVE  /\ pc' \in [Calls -> Phases] /\ pc'[c] = phase
         /\ \A d \in Calls \ {c} : pc'[d] = pc[d]
  BY DEF CallsTyped, Goto

LEMMA Answered ==
  ASSUME CallsTyped, NEW c \in Calls, NEW id, Answer(c, id)
  PROVE  /\ pc' \in [Calls -> Phases] /\ pc'[c] = "answered"
         /\ \A d \in Calls \ {c} : pc'[d] = pc[d]
  BY DEF CallsTyped, Answer, Phases

LEMMA Unlocked ==
  ASSUME CallsTyped, NEW c \in Calls, Unlock(c)
  PROVE  /\ lockedBy' \in [Wallets -> Calls \cup {Nobody}]
         /\ \A d \in Calls \ {c} : \A w \in Wallets : lockedBy[w] = d => lockedBy'[w] = d
  BY DEF CallsTyped, Unlock

\* A step that leaves the ledger and the locks alone.
LEMMA Moving ==
  ASSUME IInv, NEW c \in Calls, UNCHANGED <<ledger, req, lockedBy, snap>>,
         pc' \in [Calls -> Phases], \A d \in Calls \ {c} : pc'[d] = pc[d], Safe(c)'
  PROVE  IInv'
<1>1. CallsTyped' /\ Alone(c)
  BY DEF IInv, CallsTyped, Alone
<1> QED BY <1>1, LedgerUnchanged, StepKeeps

\* A step that gives up the transaction: the ledger is as it was.
LEMMA Leaving ==
  ASSUME IInv, NEW c \in Calls, UNCHANGED <<ledger, req, snap>>, Unlock(c),
         NEW phase \in {"failed", "reread"}, Goto(c, phase)
  PROVE  IInv'
<1>1. CallsTyped /\ phase \in Phases
  BY DEF IInv, Phases
<1>2. CallsTyped' /\ Alone(c)
  BY <1>1, Moved, Unlocked DEF CallsTyped, Alone
<1>3. Safe(c)'
  BY <1>1, Moved, NothingToKeep DEF Deciding
<1> QED BY <1>2, <1>3, LedgerUnchanged, StepKeeps

LEMMA StartKeeps == ASSUME IInv, NEW c \in Calls, Start(c) PROVE IInv'
<1>1. CallsTyped /\ UNCHANGED <<ledger, req, lockedBy, snap>> /\ Op(c) # "MERGE"
  BY DEF Start, IInv, ledger
<1>2. CASE \E answer \in Found(c) : Answer(c, answer)
  BY <1>1, <1>2, Answered, NothingToKeep, Moving DEF Deciding, Phases
<1>3. CASE Op(c) \in {"RELEASE", "REVERSE"} /\ Goto(c, "find")
  <2>1. pc' \in [Calls -> Phases] /\ pc'[c] = "find" /\ \A d \in Calls \ {c} : pc'[d] = pc[d]
    BY <1>1, <1>3, Moved DEF Phases
  <2>2. Safe(c)'
    BY <1>1, <1>3, <2>1 DEF Safe, Named, Locked, Decided, Deciding, Op
  <2> QED BY <1>1, <2>1, <2>2, Moving
<1>4. CASE Op(c) \notin {"RELEASE", "REVERSE"} /\ Goto(c, "lock")
  <2>1. pc' \in [Calls -> Phases] /\ pc'[c] = "lock" /\ \A d \in Calls \ {c} : pc'[d] = pc[d]
    BY <1>1, <1>4, Moved DEF Phases
  <2>2. Safe(c)'
    BY <1>1, <1>4, <2>1 DEF Safe, Named, Locked, Decided, Deciding, Op
  <2> QED BY <1>1, <2>1, <2>2, Moving
<1> QED BY <1>2, <1>3, <1>4 DEF Start

LEMMA StartMergeKeeps == ASSUME IInv, NEW c \in Calls, StartMerge(c) PROVE IInv'
<1>1. CallsTyped /\ UNCHANGED <<ledger, req, lockedBy, snap>> /\ Op(c) = "MERGE"
  BY DEF StartMerge, IInv, ledger
<1>2. CASE Goto(c, "failed") \/ Goto(c, "answered")
  BY <1>1, <1>2, Moved, NothingToKeep, Moving DEF Deciding, Phases
<1>3. CASE req[c].target # Source(c) /\ Goto(c, "lock")
  <2>1. pc' \in [Calls -> Phases] /\ pc'[c] = "lock" /\ \A d \in Calls \ {c} : pc'[d] = pc[d]
    BY <1>1, <1>3, Moved DEF Phases
  <2>2. Safe(c)'
    BY <1>1, <1>3, <2>1 DEF Safe, Named, Locked, Decided, Deciding, Op, Source
  <2> QED BY <1>1, <2>1, <2>2, Moving
<1> QED BY <1>2, <1>3 DEF StartMerge

LEMMA FindKeeps == ASSUME IInv, NEW c \in Calls, Find(c) PROVE IInv'
<1>1. CallsTyped /\ UNCHANGED <<ledger, req, lockedBy, snap>>
  BY DEF Find, IInv, ledger
<1>2. CASE Goto(c, "failed")
  BY <1>1, <1>2, Moved, NothingToKeep, Moving DEF Deciding, Phases
<1>3. CASE /\ Goto(c, "lock")
           /\ Subject(c) \in IF Op(c) = "RELEASE" THEN DOMAIN hold ELSE L!TxnIds
  <2>1. pc' \in [Calls -> Phases] /\ pc'[c] = "lock" /\ \A d \in Calls \ {c} : pc'[d] = pc[d]
    BY <1>1, <1>3, Moved DEF Phases
  <2>2. Op(c) # "MERGE"
    BY DEF Find, IInv, Safe, Named
  <2>3. Safe(c)'
    BY <1>1, <1>3, <2>1, <2>2 DEF Safe, Named, Locked, Decided, Deciding, Op, Subject,
                                  ledger, L!TxnIds
  <2> QED BY <1>1, <2>1, <2>3, Moving
<1> QED BY <1>2, <1>3 DEF Find

\* One lock at a time, and what it protects is read with the last.
LEMMA LockKeeps == ASSUME IInv, NEW c \in Calls, Lock(c) PROVE IInv'
<1>1. CallsTyped /\ UNCHANGED <<ledger, req>> /\ pc[c] = "lock" /\ Safe(c)
  BY DEF Lock, IInv, ledger
<1>2. PICK i \in DOMAIN LockOrder(c) :
        /\ \A j \in 1..(i - 1) : Holds(c, LockOrder(c)[j])
        /\ Free(LockOrder(c)[i])
        /\ lockedBy' = [lockedBy EXCEPT ![LockOrder(c)[i]] = c]
        /\ IF i = Len(LockOrder(c))
           THEN /\ Goto(c, "check")
                /\ snap' = [snap EXCEPT ![c] = wallet]
           ELSE UNCHANGED <<pc, reply, snap>>
  BY DEF Lock
<1>3. PICK last : last = LockOrder(c)[i]
  OBVIOUS
<1>4. /\ i \in {1, 2} /\ (Op(c) # "MERGE" => i = 1)
      /\ last \in Locks(c)
      /\ i = Len(LockOrder(c)) => Locks(c) = {last} \cup {LockOrder(c)[j] : j \in 1..(i - 1)}
  <2>1. CASE Op(c) # "MERGE"
    BY <1>3, <2>1 DEF LockOrder, Locks
  <2>2. CASE Op(c) = "MERGE"
    <3>1. PICK a, b : LockOrder(c) = <<a, b>> /\ {a, b} = Locks(c)
      BY <2>2 DEF LockOrder, Locks
    <3>2. i \in {1, 2} /\ Len(LockOrder(c)) = 2
      BY <3>1
    <3>3. CASE i = 1
      BY <1>3, <2>2, <3>1, <3>2, <3>3
    <3>4. CASE i = 2
      <4>1. {LockOrder(c)[j] : j \in 1..(i - 1)} = {a} /\ last = b
        BY <1>3, <3>1, <3>4
      <4> QED BY <2>2, <3>1, <3>2, <3>4, <4>1
    <3> QED BY <3>2, <3>3, <3>4
  <2> QED BY <2>1, <2>2
<1>5. last \in Wallets /\ lockedBy[last] = Nobody /\ lockedBy' = [lockedBy EXCEPT ![last] = c]
  BY <1>1, <1>2, <1>3, <1>4, Typed DEF Free
<1>6. /\ lockedBy' \in [Wallets -> Calls \cup {Nobody}] /\ lockedBy'[last] = c
      /\ \A w \in Wallets : lockedBy[w] # Nobody => lockedBy'[w] = lockedBy[w]
  BY <1>1, <1>5 DEF CallsTyped
<1>7. wallet \in [Wallets -> LP!WalletType]
  BY TypeInvIs DEF IInv, LP!TypeInv
<1>8. CASE i = Len(LockOrder(c))
  <2>1. /\ pc' \in [Calls -> Phases] /\ pc'[c] = "check" /\ \A d \in Calls \ {c} : pc'[d] = pc[d]
        /\ snap' = [snap EXCEPT ![c] = wallet]
    BY <1>1, <1>2, <1>8, Moved DEF Phases
  <2>2. CallsTyped' /\ Alone(c)
    BY <1>1, <1>6, <1>7, <2>1 DEF CallsTyped, Alone
  <2>3. \A w \in Locks(c) : lockedBy'[w] = c
    BY <1>1, <1>2, <1>4, <1>6, <1>8, Typed DEF Holds
  <2>4. Named(c)'
    BY <1>1, <2>1 DEF Safe, Named, Deciding, Op, Source, Subject, ledger, L!TxnIds
  <2>5. Locked(c)'
    BY <1>1, <2>1, <2>3 DEF Locked, Locks, Op, Source, Subject, ledger, CallsTyped
  <2>6. Safe(c)'
    BY <2>1, <2>4, <2>5 DEF Safe, Decided
  <2> QED BY <1>1, <2>2, <2>6, LedgerUnchanged, StepKeeps
<1>9. CASE i # Len(LockOrder(c))
  <2>1. UNCHANGED <<pc, snap>>
    BY <1>2, <1>9
  <2>2. CallsTyped' /\ Alone(c)
    BY <1>1, <1>6, <2>1 DEF CallsTyped, Alone
  <2>3. Safe(c)'
    BY <1>1, <2>1 DEF Safe, Named, Locked, Decided, Deciding, Op, Source, Subject,
                      ledger, L!TxnIds
  <2> QED BY <1>1, <2>2, <2>3, LedgerUnchanged, StepKeeps
<1> QED BY <1>8, <1>9

\* A decision depends on the rows, and on what the call read and asked for.
LEMMA PermittedStays ==
  ASSUME UNCHANGED <<ledger, req, snap>>, NEW c \in Calls PROVE Permitted(c)' = Permitted(c)
<1>1. wallet' = wallet /\ journal' = journal /\ hold' = hold /\ req' = req /\ snap' = snap
  BY DEF ledger
<1> QED BY <1>1 DEF Permitted, HoldStillHeld, StillReversible, BothActive, Row, Op, Source,
              Subject, L!Reversible, L!AlreadyReversed, L!TxnIds, L!Txn

\* What a call has decided stays decided while it takes its code.
LEMMA StillDecided ==
  ASSUME IInv, NEW c \in Calls, UNCHANGED <<ledger, req, lockedBy, snap>>,
         pc[c] \in {"check", "counter"}, Permitted(c), pc'[c] \in {"counter", "write"}
  PROVE  Safe(c)'
<1>1. Safe(c) /\ wallet' = wallet /\ journal' = journal /\ hold' = hold
      /\ req' = req /\ lockedBy' = lockedBy /\ snap' = snap
  BY DEF IInv, ledger
<1>2. Named(c)' /\ Locked(c)'
  BY <1>1 DEF Safe, Named, Locked, Locks, Deciding, Op, Source, Subject, L!TxnIds
<1>3. Permitted(c)' = Permitted(c)
  BY PermittedStays
<1> QED BY <1>2, <1>3 DEF Safe, Decided

LEMMA CheckKeeps == ASSUME IInv, NEW c \in Calls, Check(c) PROVE IInv'
<1>1. CallsTyped /\ UNCHANGED <<ledger, req, snap>> /\ pc[c] = "check"
  BY DEF Check, IInv, ledger
<1>2. CASE Permitted(c)
  <2>1. PICK phase \in {"counter", "write"} : Goto(c, phase)
    BY <1>2 DEF Check
  <2>2. UNCHANGED lockedBy
    BY <1>2 DEF Check
  <2>3. /\ pc' \in [Calls -> Phases] /\ pc'[c] \in {"counter", "write"}
        /\ \A d \in Calls \ {c} : pc'[d] = pc[d]
    BY <1>1, <2>1, Moved DEF Phases
  <2>4. Safe(c)'
    BY <1>1, <1>2, <2>2, <2>3, StillDecided
  <2> QED BY <1>1, <2>2, <2>3, <2>4, Moving
<1>3. CASE ~Permitted(c)
  <2>1. Goto(c, "failed") /\ Unlock(c)
    BY <1>3 DEF Check
  <2> QED BY <1>1, <2>1, Leaving
<1> QED BY <1>2, <1>3

LEMMA CounterKeeps == ASSUME IInv, NEW c \in Calls, Counter(c) PROVE IInv'
<1>1. CallsTyped /\ UNCHANGED <<ledger, req, lockedBy, snap>> /\ pc[c] = "counter" /\ Permitted(c)
  BY DEF Counter, IInv, ledger, Safe, Decided
<1>2. pc' \in [Calls -> Phases] /\ pc'[c] = "write" /\ \A d \in Calls \ {c} : pc'[d] = pc[d]
  BY <1>1, Moved DEF Counter, Phases
<1>3. Safe(c)'
  BY <1>1, <1>2, StillDecided
<1> QED BY <1>1, <1>2, <1>3, Moving

LEMMA ConflictKeeps == ASSUME IInv, NEW c \in Calls, Conflict(c) PROVE IInv'
<1>1. UNCHANGED <<ledger, req, snap>> /\ Unlock(c) /\ (Goto(c, "failed") \/ Goto(c, "reread"))
  BY DEF Conflict, ledger
<1> QED BY <1>1, Leaving

LEMMA RereadKeeps == ASSUME IInv, NEW c \in Calls, Reread(c) PROVE IInv'
<1>1. CallsTyped /\ UNCHANGED <<ledger, req, lockedBy, snap>>
  BY DEF Reread, IInv, ledger
<1>2. CASE \E answer \in Found(c) : Answer(c, answer)
  BY <1>1, <1>2, Answered, NothingToKeep, Moving DEF Deciding, Phases
<1>3. CASE Goto(c, "failed")
  BY <1>1, <1>3, Moved, NothingToKeep, Moving DEF Deciding, Phases
<1> QED BY <1>2, <1>3 DEF Reread

LEMMA AbortKeeps == ASSUME IInv, NEW c \in Calls, Abort(c) PROVE IInv'
<1>1. UNCHANGED <<ledger, req, snap>> /\ Unlock(c) /\ Goto(c, "failed")
  BY DEF Abort, ledger
<1> QED BY <1>1, Leaving

Writes(c) ==
  \/ WriteGrant(c) \/ WriteUse(c) \/ WriteHold(c)
  \/ WriteRelease(c) \/ WriteReverse(c) \/ WriteMerge(c)

\* The write of a call is the operation it asked for.
LEMMA WritesPerform ==
  ASSUME IInv, NEW c \in Calls, Writes(c)
  PROVE  Performed(c) /\ pc[c] = "write" /\ pc'[c] = "answered" /\ IInv'
<1>1. Performed(c)
  BY GrantPerformed, UsePerformed, HoldPerformed, ReleasePerformed, ReversePerformed,
     MergePerformed DEF Writes
<1>2. pc[c] = "write" /\ UNCHANGED <<req, snap>> /\ Unlock(c) /\ CallsTyped
  BY DEF Writes, WriteGrant, WriteUse, WriteHold, WriteRelease, WriteReverse, WriteMerge,
         Write, IInv
<1>3. (\E id : Answer(c, id)) \/ Goto(c, "answered")
  BY DEF Writes, WriteGrant, WriteUse, WriteHold, WriteRelease, WriteReverse, WriteMerge
<1>4. pc' \in [Calls -> Phases] /\ pc'[c] = "answered" /\ \A d \in Calls \ {c} : pc'[d] = pc[d]
  BY <1>2, <1>3, Moved, Answered DEF Phases
<1>5. CallsTyped' /\ Alone(c)
  BY <1>2, <1>4, Unlocked DEF CallsTyped, Alone
<1>6. Safe(c)'
  BY <1>4, NothingToKeep DEF Deciding, Phases
<1>7. L!TypeOK' /\ LeavesAlone(c)
  BY <1>1, <1>2, PerformedSafely
<1> QED BY <1>1, <1>2, <1>4, <1>5, <1>6, <1>7, StepKeeps

\* A step keeps the invariant, and moves the ledger only by such a write.
LEMMA NextKeeps ==
  ASSUME IInv, [Next]_vars
  PROVE  IInv' /\ [\E c \in Calls : /\ ~Ended(c) /\ pc'[c] = "answered"
                                   /\ Performed(c)]_ledger
<1>1. CASE UNCHANGED vars
  <2>1. UNCHANGED ledger /\ UNCHANGED <<req, pc, lockedBy, snap>>
    BY <1>1 DEF vars, ledger
  <2>2. L!TypeOK' /\ CallsTyped'
    BY <2>1, LedgerUnchanged DEF IInv, CallsTyped
  <2>3. ASSUME NEW c \in Calls PROVE Safe(c)'
    <3>1. Safe(c) /\ wallet' = wallet /\ journal' = journal /\ hold' = hold
          /\ req' = req /\ pc' = pc /\ lockedBy' = lockedBy /\ snap' = snap
      BY <2>1 DEF IInv, ledger
    <3>2. Named(c)' /\ Locked(c)'
      BY <3>1 DEF Safe, Named, Locked, Locks, Deciding, Op, Source, Subject, L!TxnIds
    <3>3. Permitted(c)' = Permitted(c)
      BY <2>1, PermittedStays
    <3> QED BY <3>1, <3>2, <3>3 DEF Safe, Decided
  <2> QED BY <2>1, <2>2, <2>3 DEF IInv
<1>2. CASE Next
  <2>1. PICK c \in Calls : Step(c) \/ Abort(c)
    BY <1>2 DEF Next
  <2>2. CASE Writes(c)
    BY <2>2, WritesPerform DEF Ended
  <2>3. CASE \/ Start(c) \/ StartMerge(c) \/ Find(c) \/ Lock(c) \/ Check(c)
             \/ Counter(c) \/ Conflict(c) \/ Reread(c) \/ Abort(c)
    <3>1. UNCHANGED ledger
      BY <2>3 DEF Start, StartMerge, Find, Lock, Check, Counter, Conflict, Reread, Abort, ledger
    <3>2. IInv'
      BY <2>3, StartKeeps, StartMergeKeeps, FindKeeps, LockKeeps, CheckKeeps, CounterKeeps,
         ConflictKeeps, RereadKeeps, AbortKeeps
    <3> QED BY <3>1, <3>2
  <2> QED BY <2>1, <2>2, <2>3 DEF Step, Writes
<1> QED BY <1>1, <1>2

LEMMA InitSafe == Init => IInv
<1> SUFFICES ASSUME Init PROVE IInv
  OBVIOUS
<1>1. wallet = Wallet0 /\ journal = Journal0 /\ hold = Hold0
  BY DEF Init
<1>2. Wallet0 \in [Wallets -> LP!WalletType]
  BY LedgerAssumption DEF LP!WalletType
<1>3. CallsTyped
  BY <1>2 DEF Init, CallsTyped, Phases
<1>4. \A c \in Calls : Safe(c)
  BY DEF Init, Safe, Named, Locked, Decided, Deciding
<1>5. DOMAIN hold \subseteq L!TxnIds
  <2>1. ASSUME NEW id \in DOMAIN hold PROVE id \in L!TxnIds
    <3>1. id \in Wallets \X (Nat \ {0}) /\ id[2] \in DOMAIN journal[id[1]]
      BY <1>1, LedgerAssumption
    <3>2. id = <<id[1], id[2]>> /\ id[1] \in Wallets
      BY <3>1
    <3> QED BY <3>1, <3>2 DEF L!TxnIds
  <2> QED BY <2>1
<1>6. L!TypeOK
  BY <1>1, <1>5, LedgerAssumption DEF L!TypeOK
<1> QED BY <1>3, <1>4, <1>6 DEF IInv

\* Whatever the calls and their requests, and wherever they are interleaved or
\* cut off, the database only ever moves by whole operations of Ledger: the
\* row locks of the wallets are enough (packages/ledger, ledger-rules.md).
THEOREM Atomicity == Spec => LedgerSteps
<1>1. IInv /\ [Next]_vars => IInv'
  BY NextKeeps
<1>2. IInv /\ [Next]_vars => [\E c \in Calls : /\ ~Ended(c) /\ pc'[c] = "answered"
                                               /\ Performed(c)]_ledger
  BY NextKeeps
<1> QED BY <1>1, <1>2, InitSafe, PTL DEF Spec, LedgerSteps

-----------------------------------------------------------------------------
(* Whose row it is, and who is answered with it                              *)

\* The rows the calls found.
Ids0 == UNION {{<<w, i>> : i \in DOMAIN Journal0[w]} : w \in Wallets}

\* That row, on wallet w, is what d asked for.
Did(d, w, row) ==
  /\ row.key \in KeysOf(d)
  /\ Op(d) # "MERGE" => w = Source(d)
  /\ Op(d) \in {"GRANT", "USE", "HOLD"} => row.type = Op(d) /\ row.amount = req[d].amount
  /\ Op(d) = "RELEASE" => row.type = "RELEASE" /\ row.refs = {Subject(d)}
  /\ Op(d) = "REVERSE" => row.type = "REVERSAL" /\ row.refs = {Subject(d)}
  /\ Op(d) = "MERGE" => row.type \in {"ACCOUNT_MERGE_OUT", "ACCOUNT_MERGE_IN"}

\* Every row the calls did not find is one that some call asked for.
RowsAsked ==
  \A id \in L!TxnIds : id \in Ids0 \/ \E d \in Calls : Did(d, id[1], L!Txn(id))

FirstKept ==
  \A id \in Ids0 : id \in L!TxnIds /\ L!Txn(id).key = Journal0[id[1]][id[2]].key

KeysUnique == \A i, j \in L!TxnIds : L!Txn(i).key = L!Txn(j).key => i = j

\* A RELEASE names one hold: an answer that is taken from it is one answer.
ReleasesNameOne ==
  \A id \in L!TxnIds :
    L!Txn(id).type = "RELEASE" => \E x \in L!TxnIds : L!Txn(id).refs = {x}

\* Whoever has an answer has it from the row under its key.
Replied(c) ==
  \/ reply[c] = {}
  \/ /\ Op(c) # "MERGE"
     /\ \E id \in L!TxnIds :
          /\ L!Txn(id).key = Key(c)
          /\ IF Op(c) = "HOLD" THEN \E x \in HoldOf(id) : reply[c] = {x} ELSE reply[c] = {id}

AnswersInv ==
  /\ RowsAsked /\ FirstKept /\ KeysUnique /\ ReleasesNameOne
  /\ reply \in [Calls -> SUBSET L!TxnIds] /\ counterBy \in Calls \cup {Nobody}
  /\ \A c \in Calls : Replied(c) /\ (pc[c] = "reread" => Op(c) # "MERGE")

\* A closed wallet is marked with the account it went to, and its one row out
\* has its row in over there; a wallet still open has no row out.
MergesInv ==
  /\ mergedInto \in [Wallets -> Wallets \cup {Nobody}]
  /\ \A w \in Wallets : mergedInto[w] # Nobody <=> wallet[w].status = "MERGED"
  /\ \A id \in L!TxnIds :
       L!Txn(id).type = "ACCOUNT_MERGE_OUT" =>
         /\ mergedInto[id[1]] # Nobody
         /\ \E k \in L!TxnIds :
              /\ k[1] = mergedInto[id[1]]
              /\ L!Txn(k).type = "ACCOUNT_MERGE_IN"
              /\ L!Txn(k).key[1] = L!Txn(id).key[1]
              /\ L!Txn(k).amount = L!Txn(id).amount
-----------------------------------------------------------------------------
(* The rows a write adds                                                     *)

RowsKept ==
  /\ L!TxnIds \subseteq L!TxnIds'
  /\ \A id \in L!TxnIds :
       /\ L!Txn(id)'.key = L!Txn(id).key /\ L!Txn(id)'.type = L!Txn(id).type
       /\ L!Txn(id)'.amount = L!Txn(id).amount /\ L!Txn(id)'.refs = L!Txn(id).refs

\* The rows there were are as they were, and the new ones are what c asked for,
\* under keys that were free.
Grown(c) ==
  /\ RowsKept
  /\ \A k \in L!TxnIds' \ L!TxnIds :
       /\ Did(c, k[1], L!Txn(k)')
       /\ L!Txn(k)'.key \notin L!UsedKeys
       /\ L!Txn(k)'.type = "RELEASE" => \E x \in L!TxnIds : L!Txn(k)'.refs = {x}
  /\ \A j, k \in L!TxnIds' \ L!TxnIds : L!Txn(j)'.key = L!Txn(k)'.key => j = k

Rows == RowsAsked /\ FirstKept /\ KeysUnique /\ ReleasesNameOne

LEMMA DidStays ==
  ASSUME req' = req, NEW d, NEW id, Did(d, id[1], L!Txn(id)') PROVE Did(d, id[1], L!Txn(id))'
  BY DEF Did, Op, Source, Subject, Key, KeysOf

LEMMA DidKept ==
  ASSUME RowsKept, NEW id \in L!TxnIds, NEW d, Did(d, id[1], L!Txn(id))
  PROVE  Did(d, id[1], L!Txn(id)')
  BY DEF Did, RowsKept

LEMMA GrownKeeps ==
  ASSUME Rows, NEW c \in Calls, Grown(c), req' = req PROVE Rows'
<1>1. RowsKept
  BY DEF Grown
<1>2. RowsAsked'
  <2> SUFFICES ASSUME NEW id \in L!TxnIds', id \notin Ids0
               PROVE  \E d \in Calls : Did(d, id[1], L!Txn(id))'
    BY DEF RowsAsked, Ids0
  <2>1. CASE id \in L!TxnIds
    <3>1. PICK d \in Calls : Did(d, id[1], L!Txn(id))
      BY <2>1 DEF Rows, RowsAsked
    <3> QED BY <1>1, <2>1, <3>1, DidKept, DidStays
  <2>2. CASE id \notin L!TxnIds
    BY <2>2, DidStays DEF Grown
  <2> QED BY <2>1, <2>2
<1>3. FirstKept'
  BY <1>1 DEF Rows, FirstKept, RowsKept, Ids0
<1>4. KeysUnique'
  <2> SUFFICES ASSUME NEW i \in L!TxnIds', NEW j \in L!TxnIds', L!Txn(i)'.key = L!Txn(j)'.key
               PROVE  i = j
    BY DEF KeysUnique
  <2>1. ASSUME NEW old \in L!TxnIds, NEW new \in L!TxnIds' \ L!TxnIds
        PROVE  L!Txn(old)'.key # L!Txn(new)'.key
    <3>1. L!Txn(old)'.key = L!Txn(old).key
      BY <1>1 DEF RowsKept
    <3>2. L!Txn(old).key \in L!UsedKeys
      BY DEF L!UsedKeys
    <3> QED BY <3>1, <3>2 DEF Grown
  <2>2. CASE i \in L!TxnIds /\ j \in L!TxnIds
    BY <1>1, <2>2 DEF Rows, KeysUnique, RowsKept
  <2> QED BY <2>1, <2>2 DEF Grown
<1>5. ReleasesNameOne'
  <2> SUFFICES ASSUME NEW id \in L!TxnIds', L!Txn(id)'.type = "RELEASE"
               PROVE  \E x \in L!TxnIds' : L!Txn(id)'.refs = {x}
    BY DEF ReleasesNameOne
  <2>1. CASE id \in L!TxnIds
    BY <1>1, <2>1 DEF Rows, ReleasesNameOne, RowsKept
  <2>2. CASE id \notin L!TxnIds
    BY <1>1, <2>2 DEF Grown, RowsKept
  <2> QED BY <2>1, <2>2
<1> QED BY <1>2, <1>3, <1>4, <1>5 DEF Rows

\* The new row, of those values.
Posts(k, key, type, amount, refs) ==
  /\ RowsKept /\ L!TxnIds' = L!TxnIds \cup {k} /\ k \notin L!TxnIds
  /\ L!Txn(k)'.key = key /\ L!Txn(k)'.type = type
  /\ L!Txn(k)'.amount = amount /\ L!Txn(k)'.refs = refs

\* One row is posted, as Ledger posts it.
LEMMA RowPosted ==
  ASSUME LP!TypeInv, NEW w \in Wallets, NEW key \in AllKeys, NEW type \in LP!TxnTypes,
         NEW dir \in {"CREDIT", "DEBIT"}, NEW status \in {"COMPLETED", "HELD"},
         NEW amount \in Nat \ {0}, NEW refs \in SUBSET (Wallets \X Nat),
         journal' = [journal EXCEPT ![w] = LP!Posted(w, key, type, dir, status, amount, refs)],
         NEW k, k = NextId(w)
  PROVE  Posts(k, key, type, amount, refs)
<1>1. k = <<w, Len(journal[w]) + 1>>
  BY DEF NextId
<1>2. /\ LP!TxnIds' = LP!TxnIds \cup {k}
      /\ k \notin LP!TxnIds
      /\ \A id \in LP!TxnIds : LP!Txn(id)' = LP!Txn(id)
      /\ LP!Txn(k)' = LP!Entry(key, type, dir, status, amount, wallet[w].available, refs)
  <2>1. LP!TxnIds' = LP!TxnIds \cup {k} /\ k \notin LP!TxnIds
    BY <1>1, Assumptions, LP!PostedJournal
  <2>2. \A id \in LP!TxnIds : LP!Txn(id)' = LP!Txn(id)
    BY <1>1, Assumptions, LP!PostedJournal
  <2>3. LP!Txn(k)' = LP!Entry(key, type, dir, status, amount, wallet[w].available, refs)
    <3>1. PICK s, e : /\ s = journal[w]
                      /\ e = LP!Entry(key, type, dir, status, amount, wallet[w].available, refs)
      OBVIOUS
    <3>2. s \in Seq(LP!EntryType) /\ w \in DOMAIN journal
      BY <3>1 DEF LP!TypeInv
    <3>3. journal'[w] = Append(s, e)
      BY <3>1, <3>2 DEF LP!Posted
    <3>4. Append(s, e)[Len(s) + 1] = e
      BY <3>2
    <3> QED BY <1>1, <3>1, <3>3, <3>4 DEF LP!Txn
  <2> QED BY <2>1, <2>2, <2>3
<1>3. /\ LP!Txn(k)'.key = key /\ LP!Txn(k)'.type = type
      /\ LP!Txn(k)'.amount = amount /\ LP!Txn(k)'.refs = refs
  BY <1>2 DEF LP!Entry
<1> QED BY <1>2, <1>3, SameLedger, SameLedgerNext DEF RowsKept, Posts

\* What a call that does not merge writes: its one row, with no status changed.
Wrote(c, k) ==
  /\ Grown(c) /\ k \in L!TxnIds'
  /\ L!Txn(k)'.key = Key(c)
  /\ Op(c) = "HOLD" => L!Txn(k)'.type = "HOLD"
  /\ \A id \in L!TxnIds' : L!Txn(id)'.type = "ACCOUNT_MERGE_OUT" =>
       id \in L!TxnIds /\ L!Txn(id).type = "ACCOUNT_MERGE_OUT"

StatusesKept == \A w \in Wallets : wallet'[w].status = wallet[w].status

\* What there is at a write.
LEMMA Ready ==
  ASSUME IInv, NEW c \in Calls, pc[c] = "write", Taken(c) = {}, Op(c) # "MERGE"
  PROVE  /\ LP!TypeInv /\ CallsTyped
         /\ Source(c) \in Wallets /\ Key(c) \in Keys /\ Key(c) \in AllKeys
         /\ Key(c) \notin L!UsedKeys /\ KeysOf(c) = {Key(c)}
<1>1. LP!TypeInv /\ CallsTyped
  BY TypeInvIs DEF IInv
<1> QED BY <1>1, AtWrite, Typed DEF AllKeys, KeysOf

LEMMA OneRow ==
  ASSUME NEW c \in Calls, NEW k, RowsKept, L!TxnIds' = L!TxnIds \cup {k}, k \notin L!TxnIds,
         L!Txn(k)'.key = Key(c), Key(c) \notin L!UsedKeys, Did(c, k[1], L!Txn(k)'),
         Op(c) \in {"GRANT", "USE", "HOLD", "RELEASE", "REVERSE"},
         Op(c) = "RELEASE" => Subject(c) \in L!TxnIds
  PROVE  Wrote(c, k)
<1>1. L!Txn(k)'.type = "RELEASE" => \E x \in L!TxnIds : L!Txn(k)'.refs = {x}
  <2> SUFFICES ASSUME L!Txn(k)'.type = "RELEASE" PROVE L!Txn(k)'.refs = {Subject(c)} /\ Op(c) = "RELEASE"
    OBVIOUS
  <2> QED BY DEF Did
<1>2. L!Txn(k)'.type # "ACCOUNT_MERGE_OUT"
  BY DEF Did
<1>3. L!TxnIds' \ L!TxnIds = {k}
  OBVIOUS
<1>4. Grown(c)
  BY <1>1, <1>3 DEF Grown
<1>5. \A id \in L!TxnIds' : L!Txn(id)'.type = "ACCOUNT_MERGE_OUT" =>
        id \in L!TxnIds /\ L!Txn(id).type = "ACCOUNT_MERGE_OUT"
  BY <1>2 DEF RowsKept
<1>6. Op(c) = "HOLD" => L!Txn(k)'.type = "HOLD"
  BY DEF Did
<1> QED BY <1>4, <1>5, <1>6 DEF Wrote

LEMMA GrantWrote ==
  ASSUME IInv, NEW c \in Calls, WriteGrant(c), NEW k, k = NextId(Source(c))
  PROVE  Wrote(c, k) /\ StatusesKept
<1>1. Op(c) = "GRANT" /\ pc[c] = "write" /\ Taken(c) = {}
  BY DEF WriteGrant, Write
<1>2. PICK w, key, amount : w = Source(c) /\ key = Key(c) /\ amount = req[c].amount
  OBVIOUS
<1>3. /\ LP!TypeInv /\ CallsTyped /\ w \in Wallets /\ key \in AllKeys /\ key \notin L!UsedKeys
      /\ KeysOf(c) = {key} /\ amount \in Nat \ {0}
  BY <1>1, <1>2, Ready, Typed, Assumptions
<1>4. LP!Credit(w, key, amount, 0)
  BY <1>1, <1>2, GrantPerformed, SameCredit DEF Performed
<1>5. /\ "GRANT" \in LP!TxnTypes /\ {} \in SUBSET (Wallets \X Nat)
      /\ journal' = [journal EXCEPT ![w] =
           LP!Posted(w, key, "GRANT", "CREDIT", "COMPLETED", amount, {})]
      /\ wallet' = LP!Deposited(w, amount)
  BY <1>4 DEF LP!Credit, LP!TxnTypes
<1>6. /\ RowsKept /\ L!TxnIds' = L!TxnIds \cup {k} /\ k \notin L!TxnIds
      /\ L!Txn(k)'.key = key /\ L!Txn(k)'.type = "GRANT" /\ L!Txn(k)'.amount = amount
  <2>1. Posts(k, key, "GRANT", amount, {})
    BY <1>2, <1>3, <1>5, RowPosted
  <2> QED BY <2>1 DEF Posts
<1>7. k[1] = w
  BY <1>2 DEF NextId
<1>8. Did(c, k[1], L!Txn(k)')
  BY <1>1, <1>2, <1>3, <1>6, <1>7 DEF Did
<1>9. StatusesKept
  BY <1>3, <1>5 DEF LP!Deposited, StatusesKept, LP!TypeInv, LP!WalletType
<1> QED BY <1>1, <1>2, <1>3, <1>6, <1>8, <1>9, OneRow

LEMMA UseWrote ==
  ASSUME IInv, NEW c \in Calls, WriteUse(c), NEW k, k = NextId(Source(c))
  PROVE  Wrote(c, k) /\ StatusesKept
<1>1. Op(c) = "USE" /\ pc[c] = "write" /\ Taken(c) = {}
  BY DEF WriteUse, Write
<1>2. PICK w, key, amount : w = Source(c) /\ key = Key(c) /\ amount = req[c].amount
  OBVIOUS
<1>3. /\ LP!TypeInv /\ CallsTyped /\ w \in Wallets /\ key \in AllKeys /\ key \notin L!UsedKeys
      /\ KeysOf(c) = {key} /\ amount \in Nat \ {0}
  BY <1>1, <1>2, Ready, Typed, Assumptions
<1>4. LP!Debit(w, key, amount)
  BY <1>1, <1>2, <1>3, UsePerformed, SameDebit DEF Performed
<1>5. /\ "USE" \in LP!TxnTypes /\ {} \in SUBSET (Wallets \X Nat)
      /\ journal' = [journal EXCEPT ![w] =
           LP!Posted(w, key, "USE", "DEBIT", "COMPLETED", amount, {})]
      /\ wallet' = LP!Withdrawn(w, amount)
  BY <1>4 DEF LP!Debit, LP!TxnTypes
<1>6. /\ RowsKept /\ L!TxnIds' = L!TxnIds \cup {k} /\ k \notin L!TxnIds
      /\ L!Txn(k)'.key = key /\ L!Txn(k)'.type = "USE" /\ L!Txn(k)'.amount = amount
  <2>1. Posts(k, key, "USE", amount, {})
    BY <1>2, <1>3, <1>5, RowPosted
  <2> QED BY <2>1 DEF Posts
<1>7. k[1] = w
  BY <1>2 DEF NextId
<1>8. Did(c, k[1], L!Txn(k)')
  BY <1>1, <1>2, <1>3, <1>6, <1>7 DEF Did
<1>9. StatusesKept
  BY <1>3, <1>5 DEF LP!Withdrawn, StatusesKept, LP!TypeInv, LP!WalletType
<1> QED BY <1>1, <1>2, <1>3, <1>6, <1>8, <1>9, OneRow

LEMMA HoldWrote ==
  ASSUME IInv, NEW c \in Calls, WriteHold(c), NEW k, k = NextId(Source(c))
  PROVE  Wrote(c, k) /\ StatusesKept
<1>1. Op(c) = "HOLD" /\ pc[c] = "write" /\ Taken(c) = {}
  BY DEF WriteHold, Write
<1>2. PICK w, key, amount : w = Source(c) /\ key = Key(c) /\ amount = req[c].amount
  OBVIOUS
<1>3. /\ LP!TypeInv /\ CallsTyped /\ w \in Wallets /\ key \in AllKeys /\ key \notin L!UsedKeys
      /\ KeysOf(c) = {key} /\ amount \in Nat \ {0}
  BY <1>1, <1>2, Ready, Typed, Assumptions
<1>4. LP!Hold(w, key, amount)
  BY <1>1, <1>2, HoldPerformed, SameHold DEF Performed
<1>5. /\ "HOLD" \in LP!TxnTypes /\ {} \in SUBSET (Wallets \X Nat)
      /\ journal' = [journal EXCEPT ![w] =
           LP!Posted(w, key, "HOLD", "DEBIT", "HELD", amount, {})]
      /\ wallet' = [wallet EXCEPT ![w].available = @ - amount, ![w].held = @ + amount]
  BY <1>4 DEF LP!Hold, LP!TxnTypes
<1>6. /\ RowsKept /\ L!TxnIds' = L!TxnIds \cup {k} /\ k \notin L!TxnIds
      /\ L!Txn(k)'.key = key /\ L!Txn(k)'.type = "HOLD" /\ L!Txn(k)'.amount = amount
  <2>1. Posts(k, key, "HOLD", amount, {})
    BY <1>2, <1>3, <1>5, RowPosted
  <2> QED BY <2>1 DEF Posts
<1>7. k[1] = w
  BY <1>2 DEF NextId
<1>8. Did(c, k[1], L!Txn(k)')
  BY <1>1, <1>2, <1>3, <1>6, <1>7 DEF Did
<1>9. StatusesKept
  BY <1>3, <1>5 DEF StatusesKept, LP!TypeInv, LP!WalletType
<1> QED BY <1>1, <1>2, <1>3, <1>6, <1>8, <1>9, OneRow

LEMMA ReleaseWrote ==
  ASSUME IInv, NEW c \in Calls, WriteRelease(c), NEW k, k = NextId(Source(c))
  PROVE  Wrote(c, k) /\ StatusesKept
<1>1. Op(c) = "RELEASE" /\ pc[c] = "write" /\ Taken(c) = {}
  BY DEF WriteRelease, Write
<1>2. PICK id, w, key, amount : /\ id = Subject(c) /\ w = Source(c) /\ key = Key(c)
                                /\ amount = hold[id].amount
  OBVIOUS
<1>3. /\ LP!TypeInv /\ CallsTyped /\ w \in Wallets /\ key \in AllKeys /\ key \notin L!UsedKeys
      /\ KeysOf(c) = {key} /\ w = id[1] /\ id \in DOMAIN hold
  BY <1>1, <1>2, Ready, Typed, AtWrite DEF Named, Deciding
<1>4. id \in L!TxnIds /\ id \in Wallets \X Nat /\ amount \in Nat \ {0}
  <2>1. DOMAIN hold \subseteq LP!TxnIds /\ LP!TxnIds \subseteq Wallets \X Nat
    BY <1>3, LP!TxnIdsAre, Assumptions DEF LP!TypeInv
  <2>2. hold[id].amount \in Nat \ {0}
    BY <1>3 DEF LP!TypeInv, LP!HoldType
  <2> QED BY <1>2, <1>3, <2>1, <2>2, SameLedger
<1>5. LP!Release(id, key)
  BY <1>1, <1>2, ReleasePerformed, SameRelease DEF Performed
<1>6. /\ "RELEASE" \in LP!TxnTypes /\ {id} \in SUBSET (Wallets \X Nat)
      /\ journal' = [journal EXCEPT ![w] =
           LP!Posted(w, key, "RELEASE", "CREDIT", "COMPLETED", amount, {id})]
      /\ wallet' = [wallet EXCEPT ![w].available = @ + amount, ![w].held = @ - amount]
  BY <1>2, <1>3, <1>4, <1>5 DEF LP!Release, LP!TxnTypes
<1>7. /\ RowsKept /\ L!TxnIds' = L!TxnIds \cup {k} /\ k \notin L!TxnIds
      /\ L!Txn(k)'.key = key /\ L!Txn(k)'.type = "RELEASE" /\ L!Txn(k)'.refs = {id}
  <2>1. Posts(k, key, "RELEASE", amount, {id})
    BY <1>2, <1>3, <1>4, <1>6, RowPosted
  <2> QED BY <2>1 DEF Posts
<1>8. k[1] = w
  BY <1>2 DEF NextId
<1>9. Did(c, k[1], L!Txn(k)')
  BY <1>1, <1>2, <1>3, <1>7, <1>8 DEF Did
<1>10. StatusesKept
  BY <1>3, <1>6 DEF StatusesKept, LP!TypeInv, LP!WalletType
<1> QED BY <1>1, <1>2, <1>3, <1>4, <1>7, <1>9, <1>10, OneRow

LEMMA ReverseWrote ==
  ASSUME IInv, NEW c \in Calls, WriteReverse(c), NEW k, k = NextId(Source(c))
  PROVE  Wrote(c, k) /\ StatusesKept
<1>1. Op(c) = "REVERSE" /\ pc[c] = "write" /\ Taken(c) = {}
  BY DEF WriteReverse, Write
<1>2. PICK id, w, key, amount : /\ id = Subject(c) /\ w = Source(c) /\ key = Key(c)
                                /\ amount = LP!Txn(id).amount
  OBVIOUS
<1>3. /\ LP!TypeInv /\ CallsTyped /\ w \in Wallets /\ key \in AllKeys /\ key \notin L!UsedKeys
      /\ KeysOf(c) = {key} /\ w = id[1] /\ id \in LP!TxnIds
  BY <1>1, <1>2, Ready, Typed, AtWrite, SameLedger DEF Named, Deciding
<1>4. LP!Reverse(id, key)
  BY <1>1, <1>2, ReversePerformed, SameReverse DEF Performed
<1>5. k = <<id[1], Len(journal[id[1]]) + 1>>
  BY <1>2, <1>3 DEF NextId
<1>6. LP!TxnIds' = LP!TxnIds \cup {k} /\ k \notin LP!TxnIds
  BY <1>3, <1>4, <1>5, Assumptions, LP!ReversedJournal
<1>7. \A j \in LP!TxnIds : LP!Txn(j)' = IF j = id THEN LP!ReversedMark(LP!Txn(id)) ELSE LP!Txn(j)
  BY <1>3, <1>4, <1>5, Assumptions, LP!ReversedJournal
<1>8. LP!Txn(k)' = LP!Entry(key, "REVERSAL", LP!Opposite(LP!Txn(id).dir), "COMPLETED",
                            LP!Txn(id).amount, wallet[id[1]].available, {id})
  BY <1>3, <1>4, <1>5, Assumptions, LP!ReversedJournal
<1>9. LP!Txn(id) \in LP!EntryType
  BY <1>3, LP!TxnTyped, Assumptions DEF LP!TypeInv
<1>10. RowsKept
  <2>1. \A e \in LP!EntryType :
          /\ LP!ReversedMark(e).key = e.key /\ LP!ReversedMark(e).type = e.type
          /\ LP!ReversedMark(e).amount = e.amount /\ LP!ReversedMark(e).refs = e.refs
    BY DEF LP!ReversedMark, LP!EntryType
  <2> QED BY <1>6, <1>7, <1>9, <2>1, SameLedger, SameLedgerNext DEF RowsKept
<1>11. /\ L!Txn(k)'.key = key /\ L!Txn(k)'.type = "REVERSAL" /\ L!Txn(k)'.refs = {id}
       /\ L!TxnIds' = L!TxnIds \cup {k} /\ k \notin L!TxnIds /\ k[1] = w
  BY <1>3, <1>5, <1>6, <1>8, SameLedger, SameLedgerNext DEF LP!Entry
<1>12. Did(c, k[1], L!Txn(k)')
  BY <1>1, <1>2, <1>3, <1>11 DEF Did
<1>13. StatusesKept
  <2>1. wallet' = LP!Deposited(w, amount) \/ wallet' = LP!Withdrawn(w, amount)
    BY <1>2, <1>3, <1>4 DEF LP!Reverse
  <2>2. wallet \in [Wallets -> LP!WalletType]
    BY <1>3 DEF LP!TypeInv
  <2>3. CASE wallet' = LP!Deposited(w, amount)
    BY <1>3, <2>2, <2>3 DEF LP!Deposited, StatusesKept, LP!WalletType
  <2>4. CASE wallet' = LP!Withdrawn(w, amount)
    BY <1>3, <2>2, <2>4 DEF LP!Withdrawn, StatusesKept, LP!WalletType
  <2> QED BY <2>1, <2>3, <2>4
<1> QED BY <1>1, <1>2, <1>3, <1>10, <1>11, <1>12, <1>13, OneRow

\* Two rows are posted, one on each of two wallets.
PostsTwo(i, j, out, in) ==
  /\ L!TxnIds' = L!TxnIds \cup {i, j} /\ i \notin L!TxnIds /\ j \notin L!TxnIds
  /\ \A id \in L!TxnIds : L!Txn(id)' = L!Txn(id)
  /\ L!Txn(i)' = out /\ L!Txn(j)' = in

LEMMA Appended ==
  ASSUME NEW S, NEW q \in Seq(S), NEW e \in S
  PROVE  /\ DOMAIN Append(q, e) = 1..(Len(q) + 1) /\ Append(q, e)[Len(q) + 1] = e
         /\ \A x \in 1..Len(q) : Append(q, e)[x] = q[x]
  OBVIOUS

LEMMA TwoPosted ==
  ASSUME journal \in [Wallets -> Seq(LP!EntryType)],
         NEW s \in Wallets, NEW t \in Wallets, s # t,
         NEW out \in LP!EntryType, NEW in \in LP!EntryType,
         journal'[s] = Append(journal[s], out), journal'[t] = Append(journal[t], in),
         \A w \in Wallets \ {s, t} : journal'[w] = journal[w],
         NEW i, i = NextId(s), NEW j, j = NextId(t)
  PROVE  PostsTwo(i, j, out, in)
<1>1. PICK n, m : n = Len(journal[s]) /\ m = Len(journal[t])
  OBVIOUS
<1>2. i = <<s, n + 1>> /\ j = <<t, m + 1>>
  BY <1>1 DEF NextId
<1>3. journal[s] \in Seq(LP!EntryType) /\ journal[t] \in Seq(LP!EntryType)
  OBVIOUS
<1>4. /\ n \in Nat /\ DOMAIN journal[s] = 1..n
      /\ m \in Nat /\ DOMAIN journal[t] = 1..m
  BY <1>1, <1>3
<1>5. \A w \in Wallets \ {s, t} : journal'[w] = journal[w]
  OBVIOUS
<1>6. /\ DOMAIN journal'[s] = 1..(n + 1) /\ journal'[s][n + 1] = out
      /\ \A x \in 1..n : journal'[s][x] = journal[s][x]
  BY <1>1, <1>3, <1>4, <1>5, Appended
<1>7. /\ DOMAIN journal'[t] = 1..(m + 1) /\ journal'[t][m + 1] = in
      /\ \A x \in 1..m : journal'[t][x] = journal[t][x]
  BY <1>1, <1>3, <1>4, <1>5, Appended
<1>8. \A id : id \in L!TxnIds <=> \E w, x : w \in Wallets /\ x \in DOMAIN journal[w] /\ id = <<w, x>>
  BY DEF L!TxnIds
<1>9. \A id : id \in L!TxnIds' <=> \E w, x : w \in Wallets /\ x \in DOMAIN journal'[w] /\ id = <<w, x>>
  <2>1. L!TxnIds' = UNION {{<<w, x>> : x \in DOMAIN journal'[w]} : w \in Wallets}
    BY DEF L!TxnIds
  <2> QED BY <2>1
<1>10. DOMAIN journal'[s] = (DOMAIN journal[s]) \cup {n + 1} /\ n + 1 \notin DOMAIN journal[s]
  BY <1>4, <1>6
<1>11. DOMAIN journal'[t] = (DOMAIN journal[t]) \cup {m + 1} /\ m + 1 \notin DOMAIN journal[t]
  BY <1>4, <1>7
<1>12. L!TxnIds' = L!TxnIds \cup {i, j}
  <2>1. ASSUME NEW id \in L!TxnIds' PROVE id \in L!TxnIds \cup {i, j}
    <3>1. PICK w, x : w \in Wallets /\ x \in DOMAIN journal'[w] /\ id = <<w, x>>
      BY <1>9
    <3>2. CASE w = s
      BY <1>2, <1>8, <1>10, <3>1, <3>2
    <3>3. CASE w = t
      BY <1>2, <1>8, <1>11, <3>1, <3>3
    <3>4. CASE w \notin {s, t}
      BY <1>5, <1>8, <3>1, <3>4
    <3> QED BY <3>2, <3>3, <3>4
  <2>2. ASSUME NEW id \in L!TxnIds PROVE id \in L!TxnIds'
    <3>1. PICK w, x : w \in Wallets /\ x \in DOMAIN journal[w] /\ id = <<w, x>>
      BY <1>8
    <3>2. x \in DOMAIN journal'[w]
      BY <1>5, <1>10, <1>11, <3>1
    <3> QED BY <1>9, <3>1, <3>2
  <2>3. i \in L!TxnIds' /\ j \in L!TxnIds'
    BY <1>2, <1>9, <1>10, <1>11
  <2> QED BY <2>1, <2>2, <2>3
<1>13. i \notin L!TxnIds /\ j \notin L!TxnIds
  BY <1>2, <1>8, <1>10, <1>11
<1>14. \A id \in L!TxnIds : L!Txn(id)' = L!Txn(id)
  <2> SUFFICES ASSUME NEW id \in L!TxnIds PROVE journal'[id[1]][id[2]] = journal[id[1]][id[2]]
    BY DEF L!Txn
  <2>1. PICK w, x : w \in Wallets /\ x \in DOMAIN journal[w] /\ id = <<w, x>>
    BY <1>8
  <2>2. id[1] = w /\ id[2] = x
    BY <2>1
  <2>3. id[1] \in Wallets /\ id[2] \in DOMAIN journal[id[1]]
    BY <2>1, <2>2
  <2>4. CASE id[1] = s
    BY <1>4, <1>6, <2>3, <2>4
  <2>5. CASE id[1] = t
    BY <1>4, <1>7, <2>3, <2>5
  <2>6. CASE id[1] \notin {s, t}
    BY <1>5, <2>3, <2>6
  <2> QED BY <2>4, <2>5, <2>6
<1>15. L!Txn(i)' = out /\ L!Txn(j)' = in
  <2>1. i[1] = s /\ i[2] = n + 1 /\ j[1] = t /\ j[2] = m + 1
    BY <1>2
  <2>2. journal'[i[1]][i[2]] = out
    BY <1>6, <2>1
  <2>3. journal'[j[1]][j[2]] = in
    BY <1>7, <2>1
  <2> QED BY <2>2, <2>3 DEF L!Txn
<1> QED BY <1>12, <1>13, <1>14, <1>15 DEF PostsTwo

\* A merge adds a row out of its source and its match in the target, or, with
\* nothing to move, no row.
Merged(c) ==
  /\ Op(c) = "MERGE" /\ Grown(c)
  /\ Source(c) \in Wallets /\ req[c].target \in Wallets
  /\ wallet[Source(c)].status = "ACTIVE" /\ wallet[req[c].target].status = "ACTIVE"
  /\ wallet'[Source(c)].status = "MERGED"
  /\ \A w \in Wallets \ {Source(c)} : wallet'[w].status = wallet[w].status
  /\ mergedInto' = [mergedInto EXCEPT ![Source(c)] = req[c].target]
  /\ \A id \in L!TxnIds' \ L!TxnIds :
       L!Txn(id)'.type = "ACCOUNT_MERGE_OUT" =>
         /\ id[1] = Source(c)
         /\ \E k \in L!TxnIds' :
              /\ k[1] = req[c].target
              /\ L!Txn(k)'.type = "ACCOUNT_MERGE_IN"
              /\ L!Txn(k)'.key[1] = L!Txn(id)'.key[1]
              /\ L!Txn(k)'.amount = L!Txn(id)'.amount

LEMMA MergeWrote == ASSUME IInv, NEW c \in Calls, WriteMerge(c) PROVE Merged(c)
<1>1. Op(c) = "MERGE" /\ pc[c] = "write" /\ Taken(c) = {}
  BY DEF WriteMerge, Write
<1>2. PICK s, t, key, amount : /\ s = Source(c) /\ t = req[c].target /\ key = Key(c)
                               /\ amount = wallet[s].available
  OBVIOUS
<1>3. LP!TypeInv /\ CallsTyped /\ s \in Wallets /\ t \in Wallets
  BY <1>1, <1>2, TypeInvIs, Typed DEF IInv
<1>4. key \in Keys /\ KeyOut(key) \in AllKeys /\ KeyIn(key) \in AllKeys
  BY <1>2, <1>3, Typed DEF AllKeys, KeyOut, KeyIn
<1>5. LP!Merge(s, t, KeyOut(key), KeyIn(key))
  BY <1>1, <1>2, MergePerformed, SameMerge DEF Performed
<1>6. s # t /\ wallet[s].status = "ACTIVE" /\ wallet[t].status = "ACTIVE"
  BY <1>5 DEF LP!Merge, LP!Active
<1>7. /\ wallet'[s].status = "MERGED"
      /\ \A w \in Wallets \ {s} : wallet'[w].status = wallet[w].status
  <2>1. wallet \in [Wallets -> LP!WalletType]
    BY <1>3 DEF LP!TypeInv
  <2>2. CASE amount > 0
    <3>1. wallet' = [wallet EXCEPT
                  ![s] = [wallet[s] EXCEPT !.available = 0, !.debited = @ + amount,
                                           !.status = "MERGED"],
                  ![t] = [wallet[t] EXCEPT !.available = @ + amount, !.credited = @ + amount]]
      BY <1>2, <1>5, <2>2 DEF LP!Merge
    <3> QED BY <1>3, <1>6, <2>1, <3>1 DEF LP!WalletType
  <2>3. CASE ~(amount > 0)
    <3>1. wallet' = [wallet EXCEPT ![s].status = "MERGED"]
      BY <1>2, <1>5, <2>3 DEF LP!Merge
    <3> QED BY <1>3, <2>1, <3>1 DEF LP!WalletType
  <2> QED BY <2>2, <2>3
<1>8. mergedInto' = [mergedInto EXCEPT ![s] = t]
  BY <1>2 DEF WriteMerge
<1>9. CASE ~(amount > 0)
  <2>1. journal' = journal
    BY <1>2, <1>5, <1>9 DEF LP!Merge
  <2>2. L!TxnIds' = L!TxnIds /\ \A id : L!Txn(id)' = L!Txn(id)
    BY <2>1 DEF L!TxnIds, L!Txn
  <2>3. Grown(c)
    BY <2>2 DEF Grown, RowsKept
  <2> QED BY <1>1, <1>2, <1>3, <1>6, <1>7, <1>8, <2>2, <2>3 DEF Merged
<1>10. CASE amount > 0
  <2>1. PICK out, in :
          /\ out = LP!Entry(KeyOut(key), "ACCOUNT_MERGE_OUT", "DEBIT", "COMPLETED", amount,
                            wallet[s].available, {})
          /\ in = LP!Entry(KeyIn(key), "ACCOUNT_MERGE_IN", "CREDIT", "COMPLETED", amount,
                           wallet[t].available, {})
    OBVIOUS
  <2>2. /\ journal' = [journal EXCEPT ![s] = Append(journal[s], out),
                                      ![t] = Append(journal[t], in)]
        /\ {KeyOut(key), KeyIn(key)} \cap L!UsedKeys = {} /\ KeyOut(key) # KeyIn(key)
    BY <1>2, <1>5, <1>10, <2>1, SameLedger DEF LP!Merge, LP!Posted
  <2>3. amount \in Nat \ {0} /\ wallet[s].available \in Int /\ wallet[t].available \in Int
    BY <1>2, <1>3, <1>10 DEF LP!TypeInv, LP!WalletType
  <2>4. out \in LP!EntryType /\ in \in LP!EntryType
    <3>1. {} \in SUBSET (Wallets \X Nat)
      OBVIOUS
    <3> QED BY <1>4, <2>1, <2>3, <3>1, Assumptions, LP!EntryTyped DEF LP!TxnTypes
  <2>5. PICK i, j : i = NextId(s) /\ j = NextId(t)
    OBVIOUS
  <2>6. PostsTwo(i, j, out, in)
    <3>1. journal \in [Wallets -> Seq(LP!EntryType)]
      BY <1>3 DEF LP!TypeInv
    <3>2. /\ journal'[s] = Append(journal[s], out) /\ journal'[t] = Append(journal[t], in)
          /\ \A w \in Wallets \ {s, t} : journal'[w] = journal[w]
      BY <1>3, <1>6, <2>2, <3>1
    <3> QED BY <1>3, <1>6, <2>4, <2>5, <3>1, <3>2, TwoPosted
  <2>7. i[1] = s /\ j[1] = t
    BY <2>5 DEF NextId
  <2>8. /\ out.key = KeyOut(key) /\ out.type = "ACCOUNT_MERGE_OUT" /\ out.amount = amount
        /\ in.key = KeyIn(key) /\ in.type = "ACCOUNT_MERGE_IN" /\ in.amount = amount
    BY <2>1 DEF LP!Entry
  <2>9. /\ L!TxnIds' \ L!TxnIds = {i, j} /\ i \in L!TxnIds' /\ j \in L!TxnIds'
        /\ L!Txn(i)' = out /\ L!Txn(j)' = in /\ RowsKept
    BY <2>6 DEF PostsTwo, RowsKept
  <2>10. KeysOf(c) = {out.key, in.key} /\ Did(c, i[1], out) /\ Did(c, j[1], in)
    BY <1>1, <1>2, <2>8 DEF Did, KeysOf
  <2>11. Grown(c)
    <3>1. \A k \in L!TxnIds' \ L!TxnIds : L!Txn(k)' \in {out, in} /\ Did(c, k[1], L!Txn(k)')
      BY <2>9, <2>10
    <3>2. \A k \in L!TxnIds' \ L!TxnIds : L!Txn(k)'.key \notin L!UsedKeys /\ L!Txn(k)'.type # "RELEASE"
      BY <2>2, <2>8, <3>1
    <3>3. ASSUME NEW x \in L!TxnIds' \ L!TxnIds, NEW y \in L!TxnIds' \ L!TxnIds, x # y
          PROVE  L!Txn(x)'.key # L!Txn(y)'.key
      <4>1. (x = i /\ y = j) \/ (x = j /\ y = i)
        BY <2>9, <3>3
      <4> QED BY <2>2, <2>8, <2>9, <4>1
    <3> QED BY <2>9, <3>1, <3>2, <3>3 DEF Grown
  <2>12. out.key[1] = in.key[1]
    BY <2>8 DEF KeyOut, KeyIn
  <2>13. ASSUME NEW id \in L!TxnIds' \ L!TxnIds, L!Txn(id)'.type = "ACCOUNT_MERGE_OUT"
         PROVE  /\ id[1] = s
                /\ \E k \in L!TxnIds' :
                     /\ k[1] = t
                     /\ L!Txn(k)'.type = "ACCOUNT_MERGE_IN"
                     /\ L!Txn(k)'.key[1] = L!Txn(id)'.key[1]
                     /\ L!Txn(k)'.amount = L!Txn(id)'.amount
    <3>1. id = i
      BY <2>8, <2>9, <2>13
    <3> QED BY <2>7, <2>8, <2>9, <2>12, <3>1
  <2> QED BY <1>1, <1>2, <1>3, <1>6, <1>7, <1>8, <2>11, <2>13 DEF Merged
<1> QED BY <1>9, <1>10

-----------------------------------------------------------------------------
(* Every step keeps the answers right                                        *)

LEMMA HoldOfKept ==
  ASSUME RowsKept, NEW id \in L!TxnIds PROVE HoldOf(id)' = HoldOf(id)
  BY DEF RowsKept, HoldOf

LEMMA RepliedStays ==
  ASSUME RowsKept, req' = req, NEW d, reply'[d] = reply[d], Replied(d) PROVE Replied(d)'
<1>1. CASE reply[d] = {}
  BY <1>1 DEF Replied
<1>2. CASE /\ Op(d) # "MERGE"
           /\ \E id \in L!TxnIds :
                /\ L!Txn(id).key = Key(d)
                /\ IF Op(d) = "HOLD" THEN \E x \in HoldOf(id) : reply[d] = {x} ELSE reply[d] = {id}
  <2>1. PICK id \in L!TxnIds :
          /\ L!Txn(id).key = Key(d)
          /\ IF Op(d) = "HOLD" THEN \E x \in HoldOf(id) : reply[d] = {x} ELSE reply[d] = {id}
    BY <1>2
  <2>2. id \in L!TxnIds' /\ L!Txn(id)'.key = Key(d) /\ HoldOf(id)' = HoldOf(id)
    BY <2>1, HoldOfKept DEF RowsKept
  <2>3. Op(d)' = Op(d) /\ Key(d)' = Key(d)
    BY DEF Op, Key
  <2> QED BY <1>2, <2>1, <2>2, <2>3 DEF Replied
<1> QED BY <1>1, <1>2 DEF Replied

\* A step that writes nothing.
LEMMA QuietGrows == ASSUME UNCHANGED ledger, NEW c PROVE RowsKept /\ Grown(c)
<1>1. journal' = journal
  BY DEF ledger
<1> QED BY <1>1 DEF RowsKept, Grown, L!TxnIds, L!Txn

\* What a step of c leaves to be shown.
LEMMA AnswersStep ==
  ASSUME AnswersInv, NEW c \in Calls, Grown(c), req' = req,
         \A d \in Calls \ {c} : pc'[d] = pc[d] /\ reply'[d] = reply[d],
         reply' \in [Calls -> SUBSET L!TxnIds'], counterBy' \in Calls \cup {Nobody},
         Replied(c)', pc'[c] = "reread" => Op(c) # "MERGE"
  PROVE  AnswersInv'
<1>1. Rows'
  BY GrownKeeps DEF AnswersInv, Rows
<1>2. ASSUME NEW d \in Calls PROVE Replied(d)' /\ (pc'[d] = "reread" => Op(d)' # "MERGE")
  <2>1. Op(d)' = Op(d)
    BY DEF Op
  <2>2. CASE d = c
    BY <2>1, <2>2
  <2>3. CASE d # c
    BY <2>1, <2>3, RepliedStays DEF AnswersInv, Grown
  <2> QED BY <2>2, <2>3
<1> QED BY <1>1, <1>2 DEF AnswersInv, Rows

\* A step that only moves on.
LEMMA MovingOn ==
  ASSUME AnswersInv, CallsTyped, NEW c \in Calls, UNCHANGED <<ledger, req>>,
         counterBy' \in Calls \cup {Nobody},
         NEW phase \in Phases, Goto(c, phase), phase = "reread" => Op(c) # "MERGE"
  PROVE  AnswersInv'
<1>1. pc'[c] = phase /\ \A d \in Calls \ {c} : pc'[d] = pc[d]
  BY Moved
<1>2. reply' = reply
  BY DEF Goto
<1>3. Grown(c) /\ RowsKept
  BY QuietGrows
<1>4. Replied(c)'
  BY <1>2, <1>3, RepliedStays DEF AnswersInv
<1>5. reply' \in [Calls -> SUBSET L!TxnIds']
  BY <1>2, <1>3 DEF AnswersInv, RowsKept
<1> QED BY <1>1, <1>2, <1>3, <1>4, <1>5, AnswersStep

\* What is found is a row, or a hold, of the ledger, and one answer.
LEMMA FoundIs ==
  ASSUME AnswersInv, NEW c \in Calls, NEW answer \in Found(c)
  PROVE  /\ answer \in L!TxnIds
         /\ \E id \in L!TxnIds :
              /\ L!Txn(id).key = Key(c)
              /\ IF Op(c) = "HOLD" THEN answer \in HoldOf(id) ELSE answer = id
<1>1. CASE Op(c) = "HOLD"
  <2>1. PICK id \in L!TxnIds : L!Txn(id).key = Key(c) /\ answer \in HoldOf(id)
    BY <1>1 DEF Found
  <2>2. answer \in L!TxnIds
    BY <2>1 DEF HoldOf, AnswersInv, ReleasesNameOne
  <2> QED BY <1>1, <2>1, <2>2
<1>2. CASE Op(c) # "HOLD"
  BY <1>2 DEF Found
<1> QED BY <1>1, <1>2

LEMMA Answering ==
  ASSUME AnswersInv, CallsTyped, NEW c \in Calls, UNCHANGED <<ledger, req, counterBy>>,
         Op(c) # "MERGE", NEW answer \in Found(c), Answer(c, answer)
  PROVE  AnswersInv'
<1>1. pc'[c] = "answered" /\ \A d \in Calls \ {c} : pc'[d] = pc[d]
  BY Answered
<1>2. Grown(c) /\ RowsKept
  BY QuietGrows
<1>3. PICK id \in L!TxnIds :
        /\ L!Txn(id).key = Key(c) /\ answer \in L!TxnIds
        /\ IF Op(c) = "HOLD" THEN answer \in HoldOf(id) ELSE answer = id
  BY FoundIs
<1>4. /\ reply' \in [Calls -> SUBSET L!TxnIds'] /\ reply'[c] = {answer}
      /\ \A d \in Calls \ {c} : reply'[d] = reply[d]
  <2>1. reply' = [reply EXCEPT ![c] = {answer}] /\ reply \in [Calls -> SUBSET L!TxnIds]
    BY DEF Answer, AnswersInv
  <2>2. L!TxnIds \subseteq L!TxnIds'
    BY <1>2 DEF RowsKept
  <2> QED BY <1>3, <2>1, <2>2
<1>5. Replied(c)'
  <2>1. id \in L!TxnIds' /\ L!Txn(id)'.key = Key(c) /\ HoldOf(id)' = HoldOf(id)
    BY <1>2, <1>3, HoldOfKept DEF RowsKept
  <2>2. Op(c)' = Op(c) /\ Key(c)' = Key(c)
    BY DEF Op, Key
  <2> QED BY <1>3, <1>4, <2>1, <2>2 DEF Replied
<1>6. counterBy' \in Calls \cup {Nobody}
  BY DEF AnswersInv
<1> QED BY <1>1, <1>2, <1>4, <1>5, <1>6, AnswersStep

\* A write is answered with its own row.
LEMMA AnsweringOwn ==
  ASSUME AnswersInv, CallsTyped, NEW c \in Calls, req' = req, Unlock(c), Op(c) # "MERGE",
         NEW k, Wrote(c, k), Answer(c, k)
  PROVE  AnswersInv'
<1>1. pc'[c] = "answered" /\ \A d \in Calls \ {c} : pc'[d] = pc[d]
  BY Answered
<1>2. Grown(c) /\ RowsKept /\ k \in L!TxnIds' /\ L!Txn(k)'.key = Key(c)
  BY DEF Wrote, Grown
<1>3. /\ reply' \in [Calls -> SUBSET L!TxnIds'] /\ reply'[c] = {k}
      /\ \A d \in Calls \ {c} : reply'[d] = reply[d]
  <2>1. reply' = [reply EXCEPT ![c] = {k}] /\ reply \in [Calls -> SUBSET L!TxnIds]
    BY DEF Answer, AnswersInv
  <2>2. L!TxnIds \subseteq L!TxnIds'
    BY <1>2 DEF RowsKept
  <2> QED BY <1>2, <2>1, <2>2
<1>4. Replied(c)'
  <2>1. Op(c)' = Op(c) /\ Key(c)' = Key(c)
    BY DEF Op, Key
  <2>2. Op(c) = "HOLD" => HoldOf(k)' = {k}
    BY DEF Wrote, HoldOf
  <2> QED BY <1>2, <1>3, <2>1, <2>2 DEF Replied
<1>5. counterBy' \in Calls \cup {Nobody}
  BY DEF Unlock, AnswersInv
<1> QED BY <1>1, <1>2, <1>3, <1>4, <1>5, AnswersStep

LEMMA MergeAnswers ==
  ASSUME AnswersInv, CallsTyped, NEW c \in Calls, req' = req, Unlock(c), Merged(c),
         Goto(c, "answered")
  PROVE  AnswersInv'
<1>1. pc'[c] = "answered" /\ \A d \in Calls \ {c} : pc'[d] = pc[d]
  BY Moved DEF Phases
<1>2. reply' = reply
  BY DEF Goto
<1>3. Grown(c) /\ RowsKept
  BY DEF Merged, Grown
<1>4. Replied(c)'
  BY <1>2, <1>3, RepliedStays DEF AnswersInv
<1>5. reply' \in [Calls -> SUBSET L!TxnIds']
  BY <1>2, <1>3 DEF AnswersInv, RowsKept
<1>6. counterBy' \in Calls \cup {Nobody}
  BY DEF Unlock, AnswersInv
<1> QED BY <1>1, <1>2, <1>3, <1>4, <1>5, <1>6, AnswersStep

-----------------------------------------------------------------------------
(* Every step keeps the marks and the balances of merged accounts together   *)

LEMMA QuietMerges ==
  ASSUME MergesInv, UNCHANGED <<ledger, mergedInto>> PROVE MergesInv'
<1>1. wallet' = wallet /\ journal' = journal /\ mergedInto' = mergedInto
  BY DEF ledger
<1> QED BY <1>1 DEF MergesInv, L!TxnIds, L!Txn

\* The row in of a row out is still there, of the same key and amount.
LEMMA PairsKept ==
  ASSUME MergesInv, RowsKept, NEW id \in L!TxnIds, L!Txn(id).type = "ACCOUNT_MERGE_OUT"
  PROVE  /\ mergedInto[id[1]] # Nobody
         /\ \E k \in L!TxnIds' :
              /\ k[1] = mergedInto[id[1]]
              /\ L!Txn(k)'.type = "ACCOUNT_MERGE_IN"
              /\ L!Txn(k)'.key[1] = L!Txn(id)'.key[1]
              /\ L!Txn(k)'.amount = L!Txn(id)'.amount
<1>1. PICK k \in L!TxnIds : /\ k[1] = mergedInto[id[1]]
                            /\ L!Txn(k).type = "ACCOUNT_MERGE_IN"
                            /\ L!Txn(k).key[1] = L!Txn(id).key[1]
                            /\ L!Txn(k).amount = L!Txn(id).amount
  BY DEF MergesInv
<1> QED BY <1>1 DEF MergesInv, RowsKept

LEMMA WroteMerges ==
  ASSUME MergesInv, NEW c \in Calls, NEW k, Wrote(c, k), StatusesKept, mergedInto' = mergedInto
  PROVE  MergesInv'
<1>1. RowsKept
  BY DEF Wrote, Grown
<1>2. \A w \in Wallets : mergedInto'[w] # Nobody <=> wallet'[w].status = "MERGED"
  BY DEF MergesInv, StatusesKept
<1>3. ASSUME NEW id \in L!TxnIds', L!Txn(id)'.type = "ACCOUNT_MERGE_OUT"
      PROVE  /\ mergedInto[id[1]] # Nobody
             /\ \E j \in L!TxnIds' :
                  /\ j[1] = mergedInto[id[1]]
                  /\ L!Txn(j)'.type = "ACCOUNT_MERGE_IN"
                  /\ L!Txn(j)'.key[1] = L!Txn(id)'.key[1]
                  /\ L!Txn(j)'.amount = L!Txn(id)'.amount
  <2>1. id \in L!TxnIds /\ L!Txn(id).type = "ACCOUNT_MERGE_OUT"
    BY <1>3 DEF Wrote
  <2> QED BY <1>1, <2>1, PairsKept
<1> QED BY <1>2, <1>3 DEF MergesInv

\* Neither account of a merge had gone into another before, so a row out that
\* there was is of a third.
LEMMA MergeMerges ==
  ASSUME MergesInv, NEW c \in Calls, Merged(c) PROVE MergesInv'
<1>1. PICK s, t : s = Source(c) /\ t = req[c].target
  OBVIOUS
<1>2. /\ s \in Wallets /\ t \in Wallets /\ mergedInto' = [mergedInto EXCEPT ![s] = t]
      /\ RowsKept /\ wallet[s].status = "ACTIVE" /\ wallet'[s].status = "MERGED"
      /\ \A w \in Wallets \ {s} : wallet'[w].status = wallet[w].status
  BY <1>1 DEF Merged, Grown
<1>3. /\ mergedInto' \in [Wallets -> Wallets \cup {Nobody}]
      /\ mergedInto'[s] = t /\ \A w : w # s => mergedInto'[w] = mergedInto[w]
  <2>1. mergedInto \in [Wallets -> Wallets \cup {Nobody}]
    BY DEF MergesInv
  <2>2. mergedInto' \in [Wallets -> Wallets \cup {Nobody}] /\ mergedInto'[s] = t
    BY <1>2, <2>1
  <2>3. ASSUME NEW w, w # s PROVE mergedInto'[w] = mergedInto[w]
    BY <1>2, <2>1, <2>3
  <2> QED BY <2>2, <2>3
<1>4. \A w \in Wallets : mergedInto'[w] # Nobody <=> wallet'[w].status = "MERGED"
  BY <1>2, <1>3 DEF MergesInv
<1>5. mergedInto[s] = Nobody
  BY <1>2 DEF MergesInv
<1>6. ASSUME NEW id \in L!TxnIds', L!Txn(id)'.type = "ACCOUNT_MERGE_OUT"
      PROVE  /\ mergedInto'[id[1]] # Nobody
             /\ \E j \in L!TxnIds' :
                  /\ j[1] = mergedInto'[id[1]]
                  /\ L!Txn(j)'.type = "ACCOUNT_MERGE_IN"
                  /\ L!Txn(j)'.key[1] = L!Txn(id)'.key[1]
                  /\ L!Txn(j)'.amount = L!Txn(id)'.amount
  <2>1. CASE id \in L!TxnIds
    <3>1. L!Txn(id).type = "ACCOUNT_MERGE_OUT"
      BY <1>2, <1>6, <2>1 DEF RowsKept
    <3>2. mergedInto[id[1]] # Nobody
      BY <1>2, <2>1, <3>1, PairsKept
    <3>3. mergedInto'[id[1]] = mergedInto[id[1]]
      BY <1>3, <1>5, <3>2
    <3> QED BY <1>2, <2>1, <3>1, <3>3, PairsKept
  <2>2. CASE id \notin L!TxnIds
    <3>1. /\ id[1] = s
          /\ \E k \in L!TxnIds' :
               /\ k[1] = t
               /\ L!Txn(k)'.type = "ACCOUNT_MERGE_IN"
               /\ L!Txn(k)'.key[1] = L!Txn(id)'.key[1]
               /\ L!Txn(k)'.amount = L!Txn(id)'.amount
      BY <1>1, <1>6, <2>2 DEF Merged
    <3>2. t # Nobody
      BY <1>2
    <3> QED BY <1>3, <3>1, <3>2
  <2> QED BY <2>1, <2>2
<1> QED BY <1>3, <1>4, <1>6 DEF MergesInv

-----------------------------------------------------------------------------
(* Put together                                                              *)

AllInv == IInv /\ AnswersInv /\ MergesInv

LEMMA WritesAnswer ==
  ASSUME AllInv, NEW c \in Calls, Writes(c) PROVE AnswersInv' /\ MergesInv'
<1>1. IInv /\ AnswersInv /\ MergesInv /\ CallsTyped
  BY DEF AllInv, IInv
<1>2. req' = req /\ Unlock(c)
  BY DEF Writes, WriteGrant, WriteUse, WriteHold, WriteRelease, WriteReverse, WriteMerge, Write
<1>3. PICK k : k = NextId(Source(c))
  OBVIOUS
<1>4. ASSUME Op(c) # "MERGE", Wrote(c, k), StatusesKept, Answer(c, k), mergedInto' = mergedInto
      PROVE  AnswersInv' /\ MergesInv'
  BY <1>1, <1>2, <1>4, AnsweringOwn, WroteMerges
<1>5. CASE WriteGrant(c)
  <2>1. Op(c) # "MERGE" /\ Answer(c, k) /\ mergedInto' = mergedInto
    BY <1>3, <1>5 DEF WriteGrant, Write
  <2> QED BY <1>1, <1>3, <1>4, <1>5, <2>1, GrantWrote
<1>6. CASE WriteUse(c)
  <2>1. Op(c) # "MERGE" /\ Answer(c, k) /\ mergedInto' = mergedInto
    BY <1>3, <1>6 DEF WriteUse, Write
  <2> QED BY <1>1, <1>3, <1>4, <1>6, <2>1, UseWrote
<1>7. CASE WriteHold(c)
  <2>1. Op(c) # "MERGE" /\ Answer(c, k) /\ mergedInto' = mergedInto
    BY <1>3, <1>7 DEF WriteHold, Write
  <2> QED BY <1>1, <1>3, <1>4, <1>7, <2>1, HoldWrote
<1>8. CASE WriteRelease(c)
  <2>1. Op(c) # "MERGE" /\ Answer(c, k) /\ mergedInto' = mergedInto
    BY <1>3, <1>8 DEF WriteRelease, Write
  <2> QED BY <1>1, <1>3, <1>4, <1>8, <2>1, ReleaseWrote
<1>9. CASE WriteReverse(c)
  <2>1. Op(c) # "MERGE" /\ Answer(c, k) /\ mergedInto' = mergedInto
    BY <1>3, <1>9 DEF WriteReverse, Write
  <2> QED BY <1>1, <1>3, <1>4, <1>9, <2>1, ReverseWrote
<1>10. CASE WriteMerge(c)
  <2>1. Merged(c) /\ Goto(c, "answered")
    BY <1>1, <1>10, MergeWrote DEF WriteMerge
  <2> QED BY <1>1, <1>2, <2>1, MergeAnswers, MergeMerges
<1> QED BY <1>5, <1>6, <1>7, <1>8, <1>9, <1>10 DEF Writes

LEMMA OthersAnswer ==
  ASSUME AnswersInv, CallsTyped, NEW c \in Calls,
         \/ Start(c) \/ StartMerge(c) \/ Find(c) \/ Lock(c) \/ Check(c)
         \/ Counter(c) \/ Conflict(c) \/ Reread(c) \/ Abort(c)
  PROVE  AnswersInv'
<1>1. UNCHANGED <<ledger, req>>
  BY DEF Start, StartMerge, Find, Lock, Check, Counter, Conflict, Reread, Abort, ledger
<1>2. counterBy \in Calls \cup {Nobody}
  BY DEF AnswersInv
<1>3. ASSUME \E answer \in Found(c) : Answer(c, answer), Op(c) # "MERGE", UNCHANGED counterBy
      PROVE  AnswersInv'
  BY <1>1, <1>3, Answering
<1>4. ASSUME NEW phase \in Phases, Goto(c, phase), counterBy' \in Calls \cup {Nobody},
             phase = "reread" => Op(c) # "MERGE"
      PROVE  AnswersInv'
  BY <1>1, <1>4, MovingOn
<1>5. CASE Start(c)
  <2>1. Op(c) # "MERGE" /\ UNCHANGED counterBy
    BY <1>5 DEF Start
  <2>2. \/ \E answer \in Found(c) : Answer(c, answer)
        \/ \E phase \in {"find", "lock"} : Goto(c, phase)
    BY <1>5 DEF Start
  <2> QED BY <1>2, <1>3, <1>4, <2>1, <2>2 DEF Phases
<1>6. CASE StartMerge(c)
  <2>1. UNCHANGED counterBy /\ \E phase \in {"failed", "lock", "answered"} : Goto(c, phase)
    BY <1>6 DEF StartMerge
  <2> QED BY <1>2, <1>4, <2>1 DEF Phases
<1>7. CASE Find(c)
  <2>1. UNCHANGED counterBy /\ \E phase \in {"failed", "lock"} : Goto(c, phase)
    BY <1>7 DEF Find
  <2> QED BY <1>2, <1>4, <2>1 DEF Phases
<1>8. CASE Lock(c)
  <2>1. UNCHANGED counterBy /\ (Goto(c, "check") \/ UNCHANGED <<pc, reply>>)
    BY <1>8 DEF Lock
  <2>2. pc \in [Calls -> Phases] /\ pc[c] \in Phases
    BY DEF CallsTyped
  <2>3. CASE UNCHANGED <<pc, reply>>
    <3>1. pc[c] = "lock"
      BY <1>8 DEF Lock
    <3>2. Goto(c, pc[c])
      BY <2>2, <2>3 DEF Goto
    <3> QED BY <1>2, <1>4, <2>1, <2>2, <3>1, <3>2
  <2>4. CASE Goto(c, "check")
    BY <1>2, <1>4, <2>1, <2>4 DEF Phases
  <2> QED BY <2>1, <2>3, <2>4
<1>9. CASE Check(c)
  <2>1. \/ UNCHANGED counterBy /\ \E phase \in {"write", "counter"} : Goto(c, phase)
        \/ Unlock(c) /\ Goto(c, "failed")
    BY <1>9 DEF Check
  <2>2. Unlock(c) => counterBy' \in Calls \cup {Nobody}
    BY <1>2 DEF Unlock
  <2> QED BY <1>2, <1>4, <2>1, <2>2 DEF Phases
<1>10. CASE Counter(c)
  <2>1. counterBy' = c /\ Goto(c, "write")
    BY <1>10 DEF Counter
  <2> QED BY <1>4, <2>1 DEF Phases
<1>11. CASE Conflict(c)
  <2>1. /\ Unlock(c)
        /\ \/ Goto(c, "failed")
           \/ Op(c) # "MERGE" /\ Goto(c, "reread")
    BY <1>11, Zenon DEF Conflict
  <2>2. counterBy' \in Calls \cup {Nobody}
    BY <1>2, <2>1 DEF Unlock
  <2> QED BY <1>4, <2>1, <2>2 DEF Phases
<1>12. CASE Reread(c)
  <2>1. Op(c) # "MERGE" /\ UNCHANGED counterBy
    BY <1>12 DEF Reread, AnswersInv
  <2>2. (\E answer \in Found(c) : Answer(c, answer)) \/ Goto(c, "failed")
    BY <1>12 DEF Reread
  <2> QED BY <1>2, <1>3, <1>4, <2>1, <2>2 DEF Phases
<1>13. CASE Abort(c)
  <2>1. Unlock(c) /\ Goto(c, "failed")
    BY <1>13 DEF Abort
  <2>2. counterBy' \in Calls \cup {Nobody}
    BY <1>2, <2>1 DEF Unlock
  <2> QED BY <1>4, <2>1, <2>2 DEF Phases
<1> QED BY <1>5, <1>6, <1>7, <1>8, <1>9, <1>10, <1>11, <1>12, <1>13

LEMMA AllKept == ASSUME AllInv, [Next]_vars PROVE AllInv'
<1>1. IInv /\ AnswersInv /\ MergesInv /\ CallsTyped
  BY DEF AllInv, IInv
<1>2. IInv'
  BY <1>1, NextKeeps
<1>3. CASE UNCHANGED vars
  <2>1. UNCHANGED <<ledger, mergedInto>> /\ wallet' = wallet /\ journal' = journal
        /\ hold' = hold /\ req' = req /\ pc' = pc /\ reply' = reply /\ counterBy' = counterBy
    BY <1>3 DEF vars, ledger
  <2>2. Rows'
    <3>1. L!TxnIds' = L!TxnIds /\ \A id : L!Txn(id)' = L!Txn(id)
      BY <2>1 DEF L!TxnIds, L!Txn
    <3>2. RowsAsked'
      <4> SUFFICES ASSUME NEW id \in L!TxnIds', id \notin Ids0
                   PROVE  \E d \in Calls : Did(d, id[1], L!Txn(id))'
        BY DEF RowsAsked, Ids0
      <4>1. PICK d \in Calls : Did(d, id[1], L!Txn(id))
        BY <1>1, <3>1 DEF AnswersInv, RowsAsked
      <4>2. Did(d, id[1], L!Txn(id)')
        BY <3>1, <4>1
      <4> QED BY <2>1, <4>2, DidStays
    <3>3. FirstKept' /\ KeysUnique' /\ ReleasesNameOne'
      BY <1>1, <3>1 DEF AnswersInv, FirstKept, KeysUnique, ReleasesNameOne, Ids0
    <3> QED BY <3>2, <3>3 DEF Rows
  <2>3. RowsKept /\ L!TxnIds' = L!TxnIds
    BY <2>1, QuietGrows DEF L!TxnIds
  <2>4. \A c \in Calls : Replied(c)' /\ (pc'[c] = "reread" => Op(c)' # "MERGE")
    <3>1. \A c \in Calls : Replied(c)'
      BY <1>1, <2>1, <2>3, RepliedStays DEF AnswersInv
    <3> QED BY <1>1, <2>1, <3>1 DEF AnswersInv, Op
  <2>5. AnswersInv'
    BY <1>1, <2>1, <2>2, <2>3, <2>4 DEF AnswersInv, Rows
  <2> QED BY <1>1, <1>2, <2>1, <2>5, QuietMerges DEF AllInv
<1>4. CASE Next
  <2>1. PICK c \in Calls : Step(c) \/ Abort(c)
    BY <1>4 DEF Next
  <2>2. CASE Writes(c)
    BY <1>2, <2>2, WritesAnswer DEF AllInv
  <2>3. CASE \/ Start(c) \/ StartMerge(c) \/ Find(c) \/ Lock(c) \/ Check(c)
             \/ Counter(c) \/ Conflict(c) \/ Reread(c) \/ Abort(c)
    <3>1. UNCHANGED <<ledger, mergedInto>>
      BY <2>3 DEF Start, StartMerge, Find, Lock, Check, Counter, Conflict, Reread, Abort, ledger
    <3> QED BY <1>1, <1>2, <2>3, <3>1, OthersAnswer, QuietMerges DEF AllInv
  <2> QED BY <2>1, <2>2, <2>3 DEF Step, Writes
<1> QED BY <1>3, <1>4

LEMMA InitAll == Init => AllInv
<1> SUFFICES ASSUME Init PROVE AllInv
  OBVIOUS
<1>1. /\ wallet = Wallet0 /\ journal = Journal0 /\ hold = Hold0
      /\ mergedInto = [w \in Wallets |-> Nobody] /\ reply = [c \in Calls |-> {}]
      /\ pc = [c \in Calls |-> "start"] /\ counterBy = Nobody
  BY DEF Init
<1>2. L!TxnIds = Ids0
  BY <1>1 DEF L!TxnIds, Ids0
<1>3. \A id \in Ids0 : id[1] \in Wallets /\ id[2] \in DOMAIN Journal0[id[1]] /\ id = <<id[1], id[2]>>
  BY DEF Ids0
<1>4. \A id : L!Txn(id) = Journal0[id[1]][id[2]]
  BY <1>1 DEF L!Txn
<1>5. RowsAsked /\ FirstKept
  BY <1>2, <1>4 DEF RowsAsked, FirstKept
<1>6. KeysUnique
  <2> SUFFICES ASSUME NEW i \in Ids0, NEW j \in Ids0,
                      Journal0[i[1]][i[2]].key = Journal0[j[1]][j[2]].key
               PROVE  i = j
    BY <1>2, <1>4 DEF KeysUnique
  <2> QED BY <1>3, HistoryAssumption
<1>7. ReleasesNameOne
  <2> SUFFICES ASSUME NEW id \in Ids0, Journal0[id[1]][id[2]].type = "RELEASE"
               PROVE  \E x \in Ids0 : Journal0[id[1]][id[2]].refs = {x}
    BY <1>2, <1>4 DEF ReleasesNameOne
  <2>1. PICK x \in DOMAIN Hold0 : Journal0[id[1]][id[2]].refs = {x}
    BY <1>3, HistoryAssumption
  <2>2. x \in Wallets \X (Nat \ {0}) /\ x[2] \in DOMAIN Journal0[x[1]]
    BY LedgerAssumption
  <2>3. x = <<x[1], x[2]>> /\ x[1] \in Wallets
    BY <2>2
  <2>4. x \in Ids0
    BY <2>2, <2>3 DEF Ids0
  <2> QED BY <2>1, <2>4
<1>8. AnswersInv
  BY <1>1, <1>5, <1>6, <1>7 DEF AnswersInv, Replied
<1>9. MergesInv
  <2>1. \A w \in Wallets : mergedInto[w] = Nobody /\ wallet[w].status = "ACTIVE"
    BY <1>1, HistoryAssumption
  <2>2. \A id \in L!TxnIds : L!Txn(id).type # "ACCOUNT_MERGE_OUT"
    BY <1>2, <1>3, <1>4, HistoryAssumption
  <2> QED BY <1>1, <2>1, <2>2 DEF MergesInv
<1> QED BY <1>8, <1>9, InitSafe DEF AllInv

LEMMA AllInvariant == Spec => []AllInv
<1>1. AllInv /\ [Next]_vars => AllInv'
  BY AllKept
<1> QED BY <1>1, InitAll, PTL DEF Spec

\* Calls, locks, answers and the ledger are of their types, for every set of
\* calls, wallets, keys and requests.
THEOREM RequestTyping == Spec => []TypeOK
<1>1. AllInv => TypeOK
  BY DEF AllInv, IInv, CallsTyped, AnswersInv, MergesInv, TypeOK
<1> QED BY <1>1, AllInvariant, PTL

LEMMA AsAsked == ASSUME AllInv PROVE AnsweredAsAsked
<1> SUFFICES ASSUME NEW c \in Calls, NEW id \in reply[c],
                    \A d \in Calls : Key(c) \in KeysOf(d) => req[d] = req[c],
                    \A w \in Wallets : \A i \in DOMAIN Journal0[w] : Journal0[w][i].key # Key(c)
             PROVE  /\ L!Txn(id).key = Key(c)
                    /\ id[1] = Source(c)
                    /\ CASE Op(c) \in {"GRANT", "USE", "HOLD"} ->
                              L!Txn(id).type = Op(c) /\ L!Txn(id).amount = req[c].amount
                         [] Op(c) = "RELEASE" -> L!Txn(id).type = "RELEASE" /\ L!Txn(id).refs = {Subject(c)}
                         [] Op(c) = "REVERSE" -> L!Txn(id).type = "REVERSAL" /\ L!Txn(id).refs = {Subject(c)}
                         [] OTHER -> FALSE
  BY DEF AnsweredAsAsked
<1>1. Replied(c) /\ CallsTyped /\ RowsAsked /\ FirstKept
  BY DEF AllInv, AnswersInv, IInv
<1>2. PICK row \in L!TxnIds :
        /\ L!Txn(row).key = Key(c) /\ Op(c) # "MERGE"
        /\ IF Op(c) = "HOLD" THEN \E x \in HoldOf(row) : reply[c] = {x} ELSE reply[c] = {row}
  BY <1>1 DEF Replied
<1>3. row \notin Ids0
  <2> SUFFICES ASSUME row \in Ids0 PROVE FALSE
    OBVIOUS
  <2>1. Journal0[row[1]][row[2]].key = Key(c)
    BY <1>1, <1>2 DEF FirstKept
  <2>2. row[1] \in Wallets /\ row[2] \in DOMAIN Journal0[row[1]]
    BY DEF Ids0
  <2> QED BY <2>1, <2>2
<1>4. PICK d \in Calls : Did(d, row[1], L!Txn(row))
  BY <1>1, <1>3 DEF RowsAsked
<1>5. req[d] = req[c]
  BY <1>2, <1>4 DEF Did
<1>6. Did(c, row[1], L!Txn(row))
  BY <1>4, <1>5 DEF Did, Op, Key, Source, Subject, KeysOf
<1>7. id = row
  <2>1. CASE Op(c) = "HOLD"
    <3>1. HoldOf(row) = {row}
      BY <1>6, <2>1 DEF Did, HoldOf
    <3> QED BY <1>2, <2>1, <3>1
  <2>2. CASE Op(c) # "HOLD"
    BY <1>2, <2>2
  <2> QED BY <2>1, <2>2
<1>8. Op(c) \in {"GRANT", "USE", "HOLD", "RELEASE", "REVERSE"}
  BY <1>1, <1>2, Typed
<1> QED BY <1>2, <1>6, <1>7, <1>8 DEF Did

LEMMA Alike == ASSUME AllInv PROVE DuplicatesAnsweredAlike
<1> SUFFICES ASSUME NEW c \in Calls, NEW d \in Calls, Key(c) = Key(d),
                    (Op(c) = "HOLD") <=> (Op(d) = "HOLD"), reply[c] # {}, reply[d] # {}
             PROVE  reply[c] = reply[d]
  BY DEF DuplicatesAnsweredAlike
<1>1. Replied(c) /\ Replied(d) /\ KeysUnique /\ ReleasesNameOne
  BY DEF AllInv, AnswersInv
<1>2. PICK i \in L!TxnIds :
        /\ L!Txn(i).key = Key(c)
        /\ IF Op(c) = "HOLD" THEN \E x \in HoldOf(i) : reply[c] = {x} ELSE reply[c] = {i}
  BY <1>1 DEF Replied
<1>3. PICK j \in L!TxnIds :
        /\ L!Txn(j).key = Key(d)
        /\ IF Op(d) = "HOLD" THEN \E x \in HoldOf(j) : reply[d] = {x} ELSE reply[d] = {j}
  BY <1>1 DEF Replied
<1>4. i = j
  BY <1>1, <1>2, <1>3 DEF KeysUnique
<1>5. \A x, y \in HoldOf(i) : x = y
  BY <1>1, <1>2 DEF HoldOf, ReleasesNameOne
<1> QED BY <1>2, <1>3, <1>4, <1>5

\* However often a call is sent again, and whatever its copies race with, all
\* are answered with one transaction, and that did what they asked for: one
\* look-up before the locks, the unique index, and one look-up after it
\* (findTransactionByIdempotencyKey, packages/ledger).
THEOREM AnsweredRight == Spec => []AnsweredOnceAsAsked
<1>1. AllInv => AnsweredOnceAsAsked
  BY AsAsked, Alike DEF AnsweredOnceAsAsked
<1> QED BY <1>1, AllInvariant, PTL

LEMMA MergesFollow1 == ASSUME AllInv PROVE MergeFollowsBalance
<1> SUFFICES ASSUME NEW w \in Wallets
             PROVE  /\ mergedInto[w] # Nobody <=> wallet[w].status = "MERGED"
                    /\ \A i \in DOMAIN journal[w] :
                         journal[w][i].type = "ACCOUNT_MERGE_OUT" =>
                           \E j \in DOMAIN journal[mergedInto[w]] :
                             /\ journal[mergedInto[w]][j].type = "ACCOUNT_MERGE_IN"
                             /\ journal[mergedInto[w]][j].key[1] = journal[w][i].key[1]
                             /\ journal[mergedInto[w]][j].amount = journal[w][i].amount
  BY DEF MergeFollowsBalance
<1>1. mergedInto[w] # Nobody <=> wallet[w].status = "MERGED"
  BY DEF AllInv, MergesInv
<1>2. ASSUME NEW i \in DOMAIN journal[w], journal[w][i].type = "ACCOUNT_MERGE_OUT"
      PROVE  \E j \in DOMAIN journal[mergedInto[w]] :
               /\ journal[mergedInto[w]][j].type = "ACCOUNT_MERGE_IN"
               /\ journal[mergedInto[w]][j].key[1] = journal[w][i].key[1]
               /\ journal[mergedInto[w]][j].amount = journal[w][i].amount
  <2>1. PICK id : id = <<w, i>>
    OBVIOUS
  <2>2. id \in L!TxnIds /\ id[1] = w /\ L!Txn(id) = journal[w][i]
    BY <2>1 DEF L!TxnIds, L!Txn
  <2>3. PICK k \in L!TxnIds :
          /\ k[1] = mergedInto[w]
          /\ L!Txn(k).type = "ACCOUNT_MERGE_IN"
          /\ L!Txn(k).key[1] = journal[w][i].key[1]
          /\ L!Txn(k).amount = journal[w][i].amount
    BY <1>2, <2>2 DEF AllInv, MergesInv
  <2>4. k[2] \in DOMAIN journal[k[1]] /\ L!Txn(k) = journal[k[1]][k[2]]
    BY DEF L!TxnIds, L!Txn
  <2> QED BY <2>3, <2>4
<1> QED BY <1>1, <1>2

\* An account is marked as merged exactly when its wallet is closed, and what
\* left it arrived whole in the account it is marked with, for any merges at
\* once, of one account or in a circle (mergeAccounts).
THEOREM MergesFollow == Spec => []MergeFollowsBalance
<1>1. AllInv => MergeFollowsBalance
  BY MergesFollow1
<1> QED BY <1>1, AllInvariant, PTL

-----------------------------------------------------------------------------
(* What was proved of Ledger holds of the calls                              *)

\* What a call performs is a step of Ledger.
LEMMA PerformedIsNext ==
  ASSUME IInv, NEW c \in Calls, Performed(c), pc[c] = "write"
  PROVE  L!Next /\ LP!Next
<1>1. /\ CallsTyped /\ Named(c) /\ pc[c] \in Deciding \cup {"lock"}
  BY DEF IInv, Safe, Deciding
<1>2. /\ Source(c) \in Wallets /\ Key(c) \in AllKeys
      /\ KeyOut(Key(c)) \in AllKeys /\ KeyIn(Key(c)) \in AllKeys
  BY <1>1, Typed DEF AllKeys, KeyOut, KeyIn
<1>3. CASE Op(c) = "GRANT"
  <2>1. L!Credit(Source(c), Key(c), req[c].amount, 0) /\ 0 \in {0}
        /\ req[c].amount \in AskedAmounts
    BY <1>1, <1>3, Typed DEF Performed
  <2>2. LP!Credit(Source(c), Key(c), req[c].amount, 0)
    BY <2>1, SameCredit
  <2> QED BY <1>2, <2>1, <2>2 DEF L!Next, LP!Next, AskedAmounts
<1>4. CASE Op(c) = "USE"
  <2>1. L!Debit(Source(c), Key(c), req[c].amount) /\ req[c].amount \in AskedAmounts
    BY <1>1, <1>4, Typed DEF Performed
  <2>2. LP!Debit(Source(c), Key(c), req[c].amount)
    BY <2>1, SameDebit, Assumptions
  <2> QED BY <1>2, <2>1, <2>2 DEF L!Next, LP!Next, AskedAmounts
<1>5. CASE Op(c) = "HOLD"
  <2>1. L!Hold(Source(c), Key(c), req[c].amount) /\ req[c].amount \in AskedAmounts
    BY <1>1, <1>5, Typed DEF Performed
  <2>2. LP!Hold(Source(c), Key(c), req[c].amount)
    BY <2>1, SameHold
  <2> QED BY <1>2, <2>1, <2>2 DEF L!Next, LP!Next, AskedAmounts
<1>6. CASE Op(c) = "RELEASE"
  <2>1. L!Release(Subject(c), Key(c)) /\ Subject(c) \in DOMAIN hold
    BY <1>1, <1>6 DEF Performed, Named
  <2>2. LP!Release(Subject(c), Key(c))
    BY <2>1, SameRelease
  <2> QED BY <1>2, <2>1, <2>2 DEF L!Next, LP!Next
<1>7. CASE Op(c) = "REVERSE"
  <2>1. L!Reverse(Subject(c), Key(c)) /\ Subject(c) \in L!TxnIds /\ Subject(c) \in LP!TxnIds
    BY <1>1, <1>7, SameLedger DEF Performed, Named
  <2>2. LP!Reverse(Subject(c), Key(c))
    BY <2>1, SameReverse
  <2> QED BY <1>2, <2>1, <2>2 DEF L!Next, LP!Next
<1>8. CASE Op(c) = "MERGE"
  <2>1. L!Merge(Source(c), req[c].target, KeyOut(Key(c)), KeyIn(Key(c)))
        /\ req[c].target \in Wallets
    BY <1>1, <1>8, Typed DEF Performed
  <2>2. LP!Merge(Source(c), req[c].target, KeyOut(Key(c)), KeyIn(Key(c)))
    BY <2>1, SameMerge
  <2> QED BY <1>2, <2>1, <2>2 DEF L!Next, LP!Next
<1> QED BY <1>1, <1>3, <1>4, <1>5, <1>6, <1>7, <1>8, Typed

\* Every step is one of Ledger, or leaves it alone.
LEMMA StepsOfLedger ==
  ASSUME IInv, [Next]_vars PROVE [L!Next]_(L!vars) /\ [LP!Next]_(LP!vars)
<1>1. CASE UNCHANGED ledger
  BY <1>1 DEF ledger, L!vars, LP!vars
<1>2. ASSUME NEW c \in Calls, Writes(c) PROVE L!Next /\ LP!Next
  BY <1>2, WritesPerform, PerformedIsNext
<1>3. CASE UNCHANGED vars
  BY <1>1, <1>3 DEF vars, ledger
<1>4. CASE Next
  <2>1. PICK c \in Calls : Step(c) \/ Abort(c)
    BY <1>4 DEF Next
  <2>2. CASE \/ Start(c) \/ StartMerge(c) \/ Find(c) \/ Lock(c) \/ Check(c)
             \/ Counter(c) \/ Conflict(c) \/ Reread(c) \/ Abort(c)
    <3>1. UNCHANGED ledger
      BY <2>2 DEF Start, StartMerge, Find, Lock, Check, Counter, Conflict, Reread, Abort, ledger
    <3> QED BY <1>1, <3>1
  <2>3. CASE Writes(c)
    BY <1>2, <2>3
  <2> QED BY <2>1, <2>2, <2>3 DEF Step, Writes
<1> QED BY <1>3, <1>4

\* The calls implement Ledger: what the database goes through, however they
\* are interleaved, retried and cut off, is a run of one operation after
\* the other (packages/ledger under READ COMMITTED and its row locks).
THEOREM Implements == Spec => [][L!Next]_(L!vars)
<1>1. IInv /\ [Next]_vars => IInv'
  BY NextKeeps
<1>2. IInv /\ [Next]_vars => [L!Next]_(L!vars)
  BY StepsOfLedger
<1> QED BY <1>1, <1>2, InitSafe, PTL DEF Spec

LEMMA TypedLedger == IInv => LP!TypeInv
  BY TypeInvIs DEF IInv

\* What a ledger promises of every step: rows stand, and a merged wallet is
\* closed, with any number of calls under way.
THEOREM HistoryKept == Spec => L!HistoryImmutable /\ L!MergedWalletClosed
<1> USE Assumptions
<1>1. IInv /\ [Next]_vars => IInv' /\ [LP!Next]_(LP!vars)
  BY NextKeeps, StepsOfLedger
<1>2. IInv => LP!TypeInv
  BY TypedLedger
<1>3. LP!TypeInv /\ [LP!Next]_(LP!vars) => [LP!RowsStand]_(LP!vars) /\ [LP!StaysClosed]_(LP!vars)
  BY LP!HistoryStep, LP!ClosedStep
<1>4. Spec => [][LP!RowsStand]_(LP!vars) /\ [][LP!StaysClosed]_(LP!vars)
  BY <1>1, <1>2, <1>3, InitSafe, PTL DEF Spec
<1> QED BY <1>4 DEF L!HistoryImmutable, L!MergedWalletClosed, LP!RowsStand, LP!StaysClosed,
                    L!vars, LP!vars

\* A ledger whose books are right: Ledger's invariants.
BooksRight == LP!BalancesSound /\ LP!JournalChained /\ LP!Reconciled /\ LP!EndInv

LEMMA SameBalances == LP!TypeInv => (LP!BalancesInv <=> LP!BalancesSound)
  BY Assumptions, LP!BalancesAre

LEMMA BooksStep == ASSUME IInv, BooksRight, [Next]_vars PROVE BooksRight'
<1>1. IInv' /\ [LP!Next]_(LP!vars) /\ LP!TypeInv /\ LP!BalancesInv
  BY NextKeeps, StepsOfLedger, TypedLedger, SameBalances DEF BooksRight
<1>2. LP!TypeInv'
  BY <1>1, TypedLedger, PTL
<1>3. LP!BalancesInv' /\ LP!JournalChained' /\ LP!Reconciled' /\ LP!EndInv'
  BY <1>1, <1>2, Assumptions, LP!BalancesStep, LP!ChainStep, LP!ReconcileStep, LP!EndStep
     DEF BooksRight
<1>4. LP!BalancesSound'
  BY <1>2, <1>3, SameBalances, PTL
<1> QED BY <1>3, <1>4 DEF BooksRight

\* Ledger's invariants, proved there of one operation after the other, hold of
\* the interleaved calls on any ledger whose books are right: no balance below
\* zero, every change on the journal, nothing for reconciliation to find,
\* nothing undone twice.
THEOREM BooksKept ==
  Spec /\ BooksRight
    => [](LP!BalancesSound /\ LP!JournalChained /\ LP!Reconciled /\ LP!EndedOnce)
<1>1. IInv /\ BooksRight /\ [Next]_vars => IInv' /\ BooksRight'
  BY NextKeeps, BooksStep
<1>2. BooksRight => LP!BalancesSound /\ LP!JournalChained /\ LP!Reconciled /\ LP!EndedOnce
  BY Assumptions, LP!EndInvSuffices DEF BooksRight
<1> QED BY <1>1, <1>2, InitSafe, PTL DEF Spec

\* And the point liability report they leave rolls forward.
THEOREM LiabilityKept ==
  ASSUME IsFiniteSet(Wallets)
  PROVE  Spec /\ BooksRight /\ LP!LiabilityRollsForward => []LP!LiabilityRollsForward
<1>1. IInv /\ BooksRight /\ [Next]_vars => IInv' /\ BooksRight' /\ [LP!Next]_(LP!vars)
  BY NextKeeps, BooksStep, StepsOfLedger
<1>2. IInv => LP!TypeInv
  BY TypedLedger
<1>3. BooksRight => LP!BalancesSound
  BY DEF BooksRight
<1>4. LP!IsFiniteSet(Wallets)
  BY DEF IsFiniteSet, LP!IsFiniteSet
<1>5. LP!TypeInv /\ LP!TypeInv' /\ LP!BalancesSound /\ LP!BalancesSound'
        /\ LP!LiabilityRollsForward /\ [LP!Next]_(LP!vars) => LP!LiabilityRollsForward'
  BY <1>4, Assumptions, LP!LiabilityStep
<1> QED BY <1>1, <1>2, <1>3, <1>5, InitSafe, PTL DEF Spec

=============================================================================
