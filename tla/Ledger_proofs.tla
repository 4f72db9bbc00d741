---------------------------- MODULE Ledger_proofs ----------------------------
(* Theorems about Ledger, for every set of wallets, keys and amounts.        *)
EXTENDS Ledger, PointTotals_proofs

USE AmountsAssumption, ExpiryDaysAssumption, MaxTimeAssumption

-----------------------------------------------------------------------------
(* Lemmas about the journal and the definitions the actions are built from   *)

\* A new entry has the type of an entry.
LEMMA EntryTyped ==
  ASSUME NEW key \in Keys, NEW type \in TxnTypes, NEW dir \in {"CREDIT", "DEBIT"},
         NEW status \in {"COMPLETED", "HELD", "REVERSED"}, NEW amount \in Nat \ {0},
         NEW before \in Int, NEW refs \in SUBSET (Wallets \X Nat)
  PROVE  Entry(key, type, dir, status, amount, before, refs) \in EntryType
<1>1. (IF dir = "CREDIT" THEN before + amount ELSE before - amount) \in Int
  OBVIOUS
<1> QED BY <1>1 DEF Entry, EntryType

\* Ids are pairs of a wallet and a place in its journal.
LEMMA TxnIdsAre ==
  ASSUME journal \in [Wallets -> Seq(EntryType)]
  PROVE  /\ \A id : id \in TxnIds <=> \E w \in Wallets : \E i \in 1..Len(journal[w]) : id = <<w, i>>
         /\ TxnIds \subseteq Wallets \X Nat
<1>1. \A w \in Wallets : DOMAIN journal[w] = 1..Len(journal[w]) /\ Len(journal[w]) \in Nat
  OBVIOUS
<1> QED BY <1>1 DEF TxnIds

\* The row of an id is an entry of its wallet's journal.
LEMMA TxnTyped ==
  ASSUME journal \in [Wallets -> Seq(EntryType)], NEW id \in TxnIds
  PROVE  /\ id[1] \in Wallets /\ id[2] \in 1..Len(journal[id[1]])
         /\ id = <<id[1], id[2]>>
         /\ Txn(id) \in EntryType
<1>1. PICK w \in Wallets : \E i \in 1..Len(journal[w]) : id = <<w, i>>
  BY TxnIdsAre
<1>2. PICK i \in 1..Len(journal[w]) : id = <<w, i>>
  BY <1>1
<1>3. journal[w] \in Seq(EntryType)
  OBVIOUS
<1>4. journal[w][i] \in EntryType
  BY <1>3
<1> QED BY <1>2, <1>4 DEF Txn

\* Whatever else happens to it, a journal that grew still has its old ids.
LEMMA IdsKept ==
  ASSUME journal \in [Wallets -> Seq(EntryType)], journal' \in [Wallets -> Seq(EntryType)],
         \A w \in Wallets : Len(journal[w]) <= Len(journal'[w])
  PROVE  TxnIds \subseteq TxnIds'
<1>1. ASSUME NEW w \in Wallets PROVE DOMAIN journal[w] \subseteq DOMAIN journal'[w]
  <2>1. journal[w] \in Seq(EntryType) /\ journal'[w] \in Seq(EntryType)
    OBVIOUS
  <2>2. /\ DOMAIN journal[w] = 1..Len(journal[w]) /\ Len(journal[w]) \in Nat
        /\ DOMAIN journal'[w] = 1..Len(journal'[w]) /\ Len(journal'[w]) \in Nat
    BY <2>1
  <2> QED BY <2>2
<1> QED BY <1>1 DEF TxnIds

\* One wallet's journal is replaced by a version of itself of the same length
\* (for all but a reversal: by itself) and an entry.  Exactly one id is new.
LEMMA OnePosted ==
  ASSUME journal \in [Wallets -> Seq(EntryType)], NEW w \in Wallets,
         NEW s \in Seq(EntryType), Len(s) = Len(journal[w]), NEW e \in EntryType,
         journal' = [journal EXCEPT ![w] = Append(s, e)],
         NEW k, k = <<w, Len(journal[w]) + 1>>
  PROVE  /\ journal' \in [Wallets -> Seq(EntryType)]
         /\ \A v \in Wallets : Len(journal[v]) <= Len(journal'[v])
         /\ TxnIds' = TxnIds \cup {k}
         /\ k \notin TxnIds
         /\ \A id \in TxnIds : Txn(id)' = IF id[1] = w THEN s[id[2]] ELSE Txn(id)
         /\ Txn(k)' = e
<1> DEFINE n == Len(journal[w])
<1>1. journal[w] \in Seq(EntryType) /\ n \in Nat /\ DOMAIN journal[w] = 1..n
  OBVIOUS
<1>2. /\ Append(s, e) \in Seq(EntryType) /\ Len(Append(s, e)) = n + 1
      /\ DOMAIN Append(s, e) = 1..(n + 1)
      /\ Append(s, e)[n + 1] = e
      /\ \A i \in 1..n : Append(s, e)[i] = s[i]
  BY <1>1
<1>3. journal' \in [Wallets -> Seq(EntryType)]
  BY <1>2
<1>4. \A v \in Wallets : v # w => journal'[v] = journal[v]
  OBVIOUS
<1>5. journal'[w] = Append(s, e)
  OBVIOUS
<1>6. \A v \in Wallets : Len(journal[v]) \in Nat
  OBVIOUS
<1>7. \A v \in Wallets : Len(journal[v]) <= Len(journal'[v])
  BY <1>1, <1>2, <1>4, <1>5, <1>6
<1>8. \A v \in Wallets : DOMAIN journal'[v] = IF v = w THEN (1..n) \cup {n + 1} ELSE DOMAIN journal[v]
  <2>1. 1..(n + 1) = (1..n) \cup {n + 1}
    BY <1>1
  <2> QED BY <2>1, <1>2, <1>4, <1>5
<1>9. TxnIds' = TxnIds \cup {k}
  <2>1. TxnIds' = UNION {{<<v, i>> : i \in DOMAIN journal'[v]} : v \in Wallets}
    BY DEF TxnIds
  <2>2. TxnIds' = UNION {{<<v, i>> : i \in IF v = w THEN (1..n) \cup {n + 1}
                                            ELSE DOMAIN journal[v]} : v \in Wallets}
    BY <2>1, <1>8
  <2> HIDE DEF n
  <2> QED BY <2>2, <1>1 DEF TxnIds, n
<1>10. k \notin TxnIds
  BY <1>1 DEF TxnIds
<1>11. ASSUME NEW id \in TxnIds
       PROVE  Txn(id)' = IF id[1] = w THEN s[id[2]] ELSE Txn(id)
  <2>1. id[1] \in Wallets /\ id[2] \in 1..Len(journal[id[1]])
    BY TxnTyped
  <2>2. CASE id[1] = w
    BY <2>1, <2>2, <1>2, <1>5 DEF Txn
  <2>3. CASE id[1] # w
    BY <2>1, <2>3, <1>4 DEF Txn
  <2> QED BY <2>2, <2>3
<1>12. Txn(k)' = e
  <2>1. k[1] = w /\ k[2] = n + 1
    OBVIOUS
  <2>2. journal'[w][n + 1] = e
    BY <1>2, <1>5
  <2> QED BY <2>1, <2>2 DEF Txn
<1> QED BY <1>3, <1>7, <1>9, <1>10, <1>11, <1>12

WalletType == [status : {"ACTIVE", "MERGED"}, available : Int,
               held : Int, credited : Nat, debited : Nat]
HoldType == [amount : Nat \ {0}, status : {"HELD", "RELEASED"}]
LotType == [amount : Nat \ {0}, remaining : Nat, expiresAt : Nat,
            state : {"OPEN", "EXPIRED", "VOIDED"}]

\* Points moved on or off a wallet leave its row well typed.
LEMMA MovedTyped ==
  ASSUME wallet \in [Wallets -> WalletType], NEW w \in Wallets, NEW amount \in Nat
  PROVE  /\ Deposited(w, amount) \in [Wallets -> WalletType]
         /\ Withdrawn(w, amount) \in [Wallets -> WalletType]
<1>1. wallet[w] \in WalletType
  OBVIOUS
<1>2. /\ wallet[w].available + amount \in Int /\ wallet[w].credited + amount \in Nat
      /\ wallet[w].available - amount \in Int /\ wallet[w].debited + amount \in Nat
  BY <1>1 DEF WalletType
<1>3. Deposited(w, amount) \in [Wallets -> WalletType]
  BY <1>2 DEF Deposited, WalletType
<1>4. Withdrawn(w, amount) \in [Wallets -> WalletType]
  BY <1>2 DEF Withdrawn, WalletType
<1> QED BY <1>3, <1>4

TypeInv ==
  /\ wallet \in [Wallets -> WalletType]
  /\ journal \in [Wallets -> Seq(EntryType)]
  /\ DOMAIN hold \subseteq TxnIds /\ hold \in [DOMAIN hold -> HoldType]
  /\ DOMAIN lot \subseteq TxnIds /\ lot \in [DOMAIN lot -> LotType]
  /\ now \in 0..MaxTime

LEMMA TypeInvIs == TypeOK <=> TypeInv
BY DEF TypeOK, TypeInv, WalletType, HoldType, LotType

\* The entry a plain posting on w appends, and that it is typed.
LEMMA PostedTyped ==
  ASSUME TypeInv, NEW w \in Wallets, NEW key \in Keys, NEW type \in TxnTypes,
         NEW dir \in {"CREDIT", "DEBIT"}, NEW status \in {"COMPLETED", "HELD"},
         NEW amount \in Nat \ {0}, NEW refs \in SUBSET (Wallets \X Nat)
  PROVE  /\ journal[w] \in Seq(EntryType) /\ wallet[w].available \in Int
         /\ Entry(key, type, dir, status, amount, wallet[w].available, refs) \in EntryType
         /\ Posted(w, key, type, dir, status, amount, refs) =
              Append(journal[w], Entry(key, type, dir, status, amount, wallet[w].available, refs))
<1>1. journal[w] \in Seq(EntryType) /\ wallet[w].available \in Int
  BY DEF TypeInv, WalletType
<1>2. Entry(key, type, dir, status, amount, wallet[w].available, refs) \in EntryType
  BY <1>1, EntryTyped
<1> QED BY <1>1, <1>2 DEF Posted

\* What a plain posting does to the journals and their ids.
LEMMA PostedJournal ==
  ASSUME TypeInv, NEW w \in Wallets, NEW key \in Keys, NEW type \in TxnTypes,
         NEW dir \in {"CREDIT", "DEBIT"}, NEW status \in {"COMPLETED", "HELD"},
         NEW amount \in Nat \ {0}, NEW refs \in SUBSET (Wallets \X Nat),
         journal' = [journal EXCEPT ![w] = Posted(w, key, type, dir, status, amount, refs)],
         NEW k, k = <<w, Len(journal[w]) + 1>>
  PROVE  /\ journal' \in [Wallets -> Seq(EntryType)]
         /\ TxnIds' = TxnIds \cup {k}
         /\ k \notin TxnIds
         /\ \A id \in TxnIds : Txn(id)' = Txn(id)
         /\ Txn(k)' = Entry(key, type, dir, status, amount, wallet[w].available, refs)
<1>1. PICK s, e : /\ s = journal[w]
                 /\ e = Entry(key, type, dir, status, amount, wallet[w].available, refs)
  OBVIOUS
<1>2. e \in EntryType /\ s \in Seq(EntryType) /\ Len(s) = Len(journal[w])
  BY <1>1, PostedTyped
<1>3. journal' = [journal EXCEPT ![w] = Append(s, e)]
  BY <1>1 DEF Posted
<1>4. journal \in [Wallets -> Seq(EntryType)]
  BY DEF TypeInv
<1>5. /\ journal' \in [Wallets -> Seq(EntryType)]
      /\ TxnIds' = TxnIds \cup {k}
      /\ k \notin TxnIds
      /\ \A id \in TxnIds : Txn(id)' = IF id[1] = w THEN s[id[2]] ELSE Txn(id)
  <2>1. journal' \in [Wallets -> Seq(EntryType)]
    BY <1>2, <1>3, <1>4, OnePosted
  <2>4. k \notin TxnIds
    BY ZenonT(60), <1>2, <1>3, <1>4, OnePosted
  <2>2. TxnIds' = TxnIds \cup {k}
    BY ZenonT(60), <1>2, <1>3, <1>4, OnePosted
  <2>3. \A id \in TxnIds : Txn(id)' = IF id[1] = w THEN s[id[2]] ELSE Txn(id)
    BY <1>2, <1>3, <1>4, OnePosted
  <2> QED BY <2>1, <2>2, <2>3, <2>4
<1>6. Txn(k)' = e
  <2>1. journal'[w] = Append(s, e)
    BY <1>3, <1>4
  <2>2. Append(s, e)[Len(journal[w]) + 1] = e
    BY <1>2
  <2> QED BY <2>1, <2>2 DEF Txn
<1>7. \A id \in TxnIds : id[1] = w => s[id[2]] = Txn(id)
  BY <1>1 DEF Txn
<1> QED BY <1>1, <1>5, <1>6, <1>7

-----------------------------------------------------------------------------
(* Type correctness: one lemma per operation                                 *)

LEMMA CreditTyped ==
  ASSUME TypeInv, NEW w \in Wallets, NEW key \in Keys, NEW amount \in Amounts,
         NEW days \in ExpiryDays, Credit(w, key, amount, days)
  PROVE  TypeInv'
<1>1. PICK k : k = <<w, Len(journal[w]) + 1>>
  OBVIOUS
<1>2. journal' \in [Wallets -> Seq(EntryType)] /\ TxnIds' = TxnIds \cup {k}
  <2>1. journal' = [journal EXCEPT ![w] = Posted(w, key, "GRANT", "CREDIT", "COMPLETED", amount, {})]
    BY DEF Credit
  <2>2. "GRANT" \in TxnTypes /\ amount \in Nat \ {0} /\ {} \in SUBSET (Wallets \X Nat)
    BY DEF TxnTypes
  <2> QED BY <1>1, <2>1, <2>2, PostedJournal
<1>3. wallet' \in [Wallets -> WalletType]
  BY MovedTyped DEF Credit, TypeInv
<1>4. DOMAIN lot' \subseteq DOMAIN lot \cup {k} /\ lot' \in [DOMAIN lot' -> LotType]
  <2>1. CASE days = 0
    BY <2>1 DEF Credit, TypeInv
  <2>2. CASE days # 0
    <3>1. now + days \in Nat
      BY DEF TypeInv
    <3>2. [amount |-> amount, remaining |-> amount, expiresAt |-> now + days,
           state |-> "OPEN"] \in LotType
      BY <3>1 DEF LotType
    <3>3. lot' = [id \in DOMAIN lot \cup {k} |->
                    IF id \in DOMAIN lot THEN lot[id]
                    ELSE [amount |-> amount, remaining |-> amount,
                          expiresAt |-> now + days, state |-> "OPEN"]]
      BY <1>1, <2>2 DEF Credit
    <3> QED BY <3>2, <3>3 DEF TypeInv
  <2> QED BY <2>1, <2>2
<1> QED BY <1>2, <1>3, <1>4 DEF Credit, TypeInv

LEMMA ConsumeTyped ==
  ASSUME TypeInv, NEW w \in Wallets, NEW amount \in Amounts, ConsumeLots(w, amount)
  PROVE  DOMAIN lot' = DOMAIN lot /\ lot' \in [DOMAIN lot -> LotType]
<1>1. PICK taken \in [Spendable(w) -> 0..amount] :
        /\ FifoConsumption(taken, Spendable(w), amount)
        /\ lot' = [id \in DOMAIN lot |->
                     IF id \in Spendable(w)
                     THEN [lot[id] EXCEPT !.remaining = @ - taken[id]]
                     ELSE lot[id]]
  BY DEF ConsumeLots
<1>2. Spendable(w) \subseteq DOMAIN lot
  BY DEF Spendable
<1>3. ASSUME NEW id \in Spendable(w)
      PROVE  [lot[id] EXCEPT !.remaining = @ - taken[id]] \in LotType
  <2>1. lot[id] \in LotType /\ taken[id] \in Nat /\ taken[id] <= lot[id].remaining
    BY <1>1, <1>2 DEF FifoConsumption, TypeInv
  <2>2. lot[id].remaining - taken[id] \in Nat
    BY <2>1 DEF LotType
  <2> QED BY <2>1, <2>2 DEF LotType
<1> QED BY <1>1, <1>2, <1>3 DEF TypeInv

LEMMA DebitTyped ==
  ASSUME TypeInv, NEW w \in Wallets, NEW key \in Keys, NEW amount \in Amounts,
         Debit(w, key, amount)
  PROVE  TypeInv'
<1>1. PICK k : k = <<w, Len(journal[w]) + 1>>
  OBVIOUS
<1>2. journal' \in [Wallets -> Seq(EntryType)] /\ TxnIds' = TxnIds \cup {k}
  <2>1. journal' = [journal EXCEPT ![w] = Posted(w, key, "USE", "DEBIT", "COMPLETED", amount, {})]
    BY DEF Debit
  <2>2. "USE" \in TxnTypes /\ amount \in Nat \ {0} /\ {} \in SUBSET (Wallets \X Nat)
    BY DEF TxnTypes
  <2> QED BY ZenonT(60), <1>1, <2>1, <2>2, PostedJournal
<1>3. wallet' \in [Wallets -> WalletType]
  BY MovedTyped DEF Debit, TypeInv
<1> QED BY <1>2, <1>3, ConsumeTyped DEF Debit, TypeInv

LEMMA HoldTyped ==
  ASSUME TypeInv, NEW w \in Wallets, NEW key \in Keys, NEW amount \in Amounts,
         Hold(w, key, amount)
  PROVE  TypeInv'
<1>1. PICK k : k = <<w, Len(journal[w]) + 1>>
  OBVIOUS
<1>2. journal' \in [Wallets -> Seq(EntryType)] /\ TxnIds' = TxnIds \cup {k}
  <2>1. journal' = [journal EXCEPT ![w] = Posted(w, key, "HOLD", "DEBIT", "HELD", amount, {})]
    BY DEF Hold
  <2>2. "HOLD" \in TxnTypes /\ amount \in Nat \ {0} /\ {} \in SUBSET (Wallets \X Nat)
    BY DEF TxnTypes
  <2> QED BY <1>1, <2>1, <2>2, PostedJournal
<1>3. wallet' \in [Wallets -> WalletType]
  <2>1. wallet[w] \in WalletType
    BY DEF TypeInv
  <2> QED BY <2>1 DEF Hold, TypeInv, WalletType
<1>4. DOMAIN hold' = DOMAIN hold \cup {k} /\ hold' \in [DOMAIN hold' -> HoldType]
  <2>1. [amount |-> amount, status |-> "HELD"] \in HoldType
    BY DEF HoldType
  <2> QED BY <1>1, <2>1 DEF Hold, TypeInv
<1> QED BY <1>2, <1>3, <1>4 DEF Hold, TypeInv

LEMMA ReleaseTyped ==
  ASSUME TypeInv, NEW id \in DOMAIN hold, NEW key \in Keys, Release(id, key)
  PROVE  TypeInv'
<1> DEFINE w == id[1]
           amount == hold[id].amount
<1>1. w \in Wallets /\ id \in Wallets \X Nat
  BY TxnIdsAre DEF TypeInv
<1>2. hold[id] \in HoldType /\ amount \in Nat \ {0}
  BY DEF TypeInv, HoldType
<1>3. PICK k : k = <<w, Len(journal[w]) + 1>>
  OBVIOUS
<1>4. journal' = [journal EXCEPT ![w] = Posted(w, key, "RELEASE", "CREDIT", "COMPLETED", amount, {id})]
  BY DEF Release
<1>5. {id} \in SUBSET (Wallets \X Nat)
  BY <1>1
<1>6. wallet' = [wallet EXCEPT ![w].available = @ + amount, ![w].held = @ - amount]
  BY DEF Release
<1>7. hold' = [hold EXCEPT ![id].status = "RELEASED"] /\ UNCHANGED <<lot, now>>
  BY DEF Release
<1> HIDE DEF w, amount
<1>8. journal' \in [Wallets -> Seq(EntryType)] /\ TxnIds' = TxnIds \cup {k}
  <2>1. "RELEASE" \in TxnTypes
    BY DEF TxnTypes
  <2> QED BY <1>1, <1>2, <1>3, <1>4, <1>5, <2>1, PostedJournal
<1>9. wallet' \in [Wallets -> WalletType]
  <2>1. wallet[w] \in WalletType
    BY <1>1 DEF TypeInv
  <2> QED BY SMTT(30), <1>1, <1>2, <1>6, <2>1 DEF TypeInv, WalletType
<1>10. DOMAIN hold' = DOMAIN hold /\ hold' \in [DOMAIN hold -> HoldType]
  BY <1>2, <1>7 DEF TypeInv, HoldType
<1> QED BY <1>7, <1>8, <1>9, <1>10 DEF TypeInv

\* What a reversal does to the journals: its target is marked, its own row is
\* appended, and nothing else changes.
LEMMA ReversedJournal ==
  ASSUME TypeInv, NEW id \in TxnIds, NEW key \in Keys, Reverse(id, key),
         NEW k, k = <<id[1], Len(journal[id[1]]) + 1>>
  PROVE  /\ journal' \in [Wallets -> Seq(EntryType)]
         /\ TxnIds' = TxnIds \cup {k}
         /\ k \notin TxnIds
         /\ \A j \in TxnIds : Txn(j)' = IF j = id THEN ReversedMark(Txn(id)) ELSE Txn(j)
         /\ Txn(k)' = Entry(key, "REVERSAL", Opposite(Txn(id).dir), "COMPLETED",
                            Txn(id).amount, wallet[id[1]].available, {id})
<1> DEFINE w == id[1]
           n == id[2]
<1>1. /\ w \in Wallets /\ n \in 1..Len(journal[w]) /\ id = <<w, n>>
      /\ Txn(id) \in EntryType /\ journal \in [Wallets -> Seq(EntryType)]
  BY TxnTyped DEF TypeInv
<1>2. ReversedMark(Txn(id)) \in EntryType
  BY <1>1 DEF ReversedMark, EntryType
<1>3. journal[w] \in Seq(EntryType)
  BY <1>1
<1>4. PICK s, e : /\ s = [journal[w] EXCEPT ![n] = ReversedMark(Txn(id))]
                  /\ e = Entry(key, "REVERSAL", Opposite(Txn(id).dir), "COMPLETED",
                               Txn(id).amount, wallet[w].available, {id})
  OBVIOUS
<1>5. s \in Seq(EntryType) /\ Len(s) = Len(journal[w])
      /\ \A i \in 1..Len(journal[w]) : s[i] = IF i = n THEN ReversedMark(Txn(id)) ELSE journal[w][i]
  BY <1>1, <1>2, <1>3, <1>4
<1>6. e \in EntryType
  <2>1. Opposite(Txn(id).dir) \in {"CREDIT", "DEBIT"} /\ Txn(id).amount \in Nat \ {0}
    BY <1>1 DEF Opposite, EntryType
  <2>2. wallet[w].available \in Int
    BY <1>1 DEF TypeInv, WalletType
  <2>3. {id} \in SUBSET (Wallets \X Nat)
    BY TxnIdsAre DEF TypeInv
  <2> QED BY <2>1, <2>2, <2>3, <1>4, EntryTyped DEF TxnTypes
<1>7. journal' = [journal EXCEPT ![w] = Append(s, e)]
  BY <1>4 DEF Reverse
<1>8. k = <<w, Len(journal[w]) + 1>>
  OBVIOUS
<1>9. \A j \in TxnIds : j[1] = w => j[2] \in 1..Len(journal[w]) /\ j = <<w, j[2]>> /\ Txn(j) = journal[w][j[2]]
  BY <1>1, TxnTyped DEF Txn
<1> HIDE DEF w, n
<1>10. /\ journal' \in [Wallets -> Seq(EntryType)]
      /\ TxnIds' = TxnIds \cup {k}
      /\ k \notin TxnIds
      /\ \A j \in TxnIds : Txn(j)' = IF j[1] = w THEN s[j[2]] ELSE Txn(j)
  BY <1>1, <1>5, <1>6, <1>7, <1>8, OnePosted
<1>11. Txn(k)' = e
  BY <1>1, <1>5, <1>6, <1>7, <1>8, OnePosted DEF Txn
<1>12. ASSUME NEW j \in TxnIds
       PROVE  Txn(j)' = IF j = id THEN ReversedMark(Txn(id)) ELSE Txn(j)
  <2>1. CASE j[1] = w
    <3>1. j = <<w, j[2]>> /\ j[2] \in 1..Len(journal[w]) /\ Txn(j) = journal[w][j[2]]
      BY <1>9, <2>1
    <3>2. j = id <=> j[2] = n
      BY <1>1, <3>1
    <3> QED BY <1>5, <1>10, <2>1, <3>1, <3>2
  <2>2. CASE j[1] # w
    BY <1>10, <2>2 DEF w
  <2> QED BY <2>1, <2>2
<1> QED BY <1>4, <1>10, <1>11, <1>12 DEF w

LEMMA ReverseTyped ==
  ASSUME TypeInv, NEW id \in TxnIds, NEW key \in Keys, Reverse(id, key)
  PROVE  TypeInv'
<1>1. PICK k : k = <<id[1], Len(journal[id[1]]) + 1>>
  OBVIOUS
<1>2. journal' \in [Wallets -> Seq(EntryType)]
  BY <1>1, ReversedJournal
<1>3. TxnIds' = TxnIds \cup {k}
  BY <1>1, ReversedJournal
<1>4. id[1] \in Wallets /\ Txn(id).amount \in Nat
  BY TxnTyped DEF TypeInv, EntryType
<1>5. wallet' \in [Wallets -> WalletType]
  <2>1. \/ wallet' = Deposited(id[1], Txn(id).amount)
        \/ wallet' = Withdrawn(id[1], Txn(id).amount)
    BY DEF Reverse
  <2> QED BY <1>4, <2>1, MovedTyped DEF TypeInv
<1>6. DOMAIN lot' = DOMAIN lot /\ lot' \in [DOMAIN lot -> LotType]
  <2>1. lot' = VoidedLots(id)
    BY DEF Reverse
  <2>2. CASE id \in DOMAIN lot
    <3>1. lot[id] \in LotType
      BY <2>2 DEF TypeInv
    <3> QED BY <2>1, <2>2, <3>1 DEF VoidedLots, TypeInv, LotType
  <2>3. CASE id \notin DOMAIN lot
    BY <2>1, <2>3 DEF VoidedLots, TypeInv
  <2> QED BY <2>2, <2>3
<1>7. UNCHANGED <<hold, now>>
  BY DEF Reverse
<1> QED BY <1>2, <1>3, <1>5, <1>6, <1>7 DEF TypeInv

LEMMA ExpireTyped ==
  ASSUME TypeInv, NEW w \in Wallets, NEW cutoff \in 0..MaxTime, NEW key \in Keys,
         Expire(w, cutoff, key)
  PROVE  TypeInv'
<1>1. PICK k, due : k = <<w, Len(journal[w]) + 1>> /\ due = DueLots(w, cutoff)
  OBVIOUS
<1>2. PICK amount \in 1..wallet[w].available :
        /\ journal' = [journal EXCEPT ![w] =
                         Posted(w, key, "EXPIRATION", "DEBIT", "COMPLETED", amount, due)]
        /\ wallet' = Withdrawn(w, amount)
  BY <1>1 DEF Expire
<1>3. amount \in Nat \ {0}
  BY <1>2 DEF TypeInv, WalletType
<1>4. due \subseteq DOMAIN lot
  BY <1>1 DEF DueLots
<1>5. due \in SUBSET (Wallets \X Nat)
  BY <1>4, TxnIdsAre DEF TypeInv
<1>6. "EXPIRATION" \in TxnTypes
  BY DEF TxnTypes
<1>7. journal' \in [Wallets -> Seq(EntryType)]
  BY <1>1, <1>2, <1>3, <1>5, <1>6, PostedJournal
<1>8. TxnIds' = TxnIds \cup {k}
  BY <1>1, <1>2, <1>3, <1>5, <1>6, PostedJournal
<1>9. wallet' \in [Wallets -> WalletType]
  BY <1>2, <1>3, MovedTyped DEF TypeInv
<1>10. DOMAIN lot' = DOMAIN lot /\ lot' \in [DOMAIN lot -> LotType]
  <2>1. lot' = [id \in DOMAIN lot |->
                  IF id \in due
                  THEN [lot[id] EXCEPT !.state = "EXPIRED", !.remaining = 0]
                  ELSE lot[id]]
    BY <1>1 DEF Expire
  <2>2. ASSUME NEW id \in DOMAIN lot
        PROVE  [lot[id] EXCEPT !.state = "EXPIRED", !.remaining = 0] \in LotType
    BY DEF TypeInv, LotType
  <2> QED BY <2>1, <2>2 DEF TypeInv
<1>11. UNCHANGED <<hold, now>>
  BY DEF Expire
<1> QED BY <1>7, <1>8, <1>9, <1>10, <1>11 DEF TypeInv

\* What a merge that moves points does to the journals.
LEMMA MergedJournals ==
  ASSUME TypeInv, NEW source \in Wallets, NEW target \in Wallets, source # target,
         NEW keyOut \in Keys, NEW keyIn \in Keys, NEW amount \in Nat \ {0},
         journal' = [journal EXCEPT
           ![source] = Posted(source, keyOut, "ACCOUNT_MERGE_OUT", "DEBIT",
                              "COMPLETED", amount, {}),
           ![target] = Posted(target, keyIn, "ACCOUNT_MERGE_IN", "CREDIT",
                              "COMPLETED", amount, {})]
  PROVE  \E out, in \in EntryType :
           /\ out.type = "ACCOUNT_MERGE_OUT" /\ in.type = "ACCOUNT_MERGE_IN"
           /\ journal' = [journal EXCEPT ![source] = Append(journal[source], out),
                                         ![target] = Append(journal[target], in)]
           /\ journal' \in [Wallets -> Seq(EntryType)]
           /\ TxnIds \subseteq TxnIds'
<1>1. PICK out : out = Entry(keyOut, "ACCOUNT_MERGE_OUT", "DEBIT", "COMPLETED", amount,
                             wallet[source].available, {})
  OBVIOUS
<1>2. PICK in : in = Entry(keyIn, "ACCOUNT_MERGE_IN", "CREDIT", "COMPLETED", amount,
                           wallet[target].available, {})
  OBVIOUS
<1>3. /\ "ACCOUNT_MERGE_OUT" \in TxnTypes /\ "ACCOUNT_MERGE_IN" \in TxnTypes
      /\ {} \in SUBSET (Wallets \X Nat)
      /\ wallet[source].available \in Int /\ wallet[target].available \in Int
  BY DEF TxnTypes, TypeInv, WalletType
<1>4. out \in EntryType
  BY <1>1, <1>3, EntryTyped
<1>5. in \in EntryType
  BY <1>2, <1>3, EntryTyped
<1>6. journal' = [journal EXCEPT ![source] = Append(journal[source], out),
                                ![target] = Append(journal[target], in)]
  BY <1>1, <1>2 DEF Posted
<1>7. journal[source] \in Seq(EntryType) /\ journal[target] \in Seq(EntryType)
  BY DEF TypeInv
<1>8. Append(journal[source], out) \in Seq(EntryType) /\ Append(journal[target], in) \in Seq(EntryType)
  BY <1>4, <1>5, <1>7
<1>9. journal' \in [Wallets -> Seq(EntryType)]
  BY <1>6, <1>8 DEF TypeInv
<1>10. ASSUME NEW w \in Wallets PROVE Len(journal[w]) <= Len(journal'[w])
  <2>1. journal[w] \in Seq(EntryType) /\ Len(journal[w]) \in Nat
    BY DEF TypeInv
  <2>2. /\ Len(Append(journal[source], out)) = Len(journal[source]) + 1
        /\ Len(Append(journal[target], in)) = Len(journal[target]) + 1
    BY <1>4, <1>5, <1>7
  <2>3. journal'[w] = IF w = target THEN Append(journal[target], in)
                      ELSE IF w = source THEN Append(journal[source], out) ELSE journal[w]
    BY <1>6 DEF TypeInv
  <2>4. CASE w = target
    BY <2>1, <2>2, <2>3, <2>4
  <2>5. CASE w = source
    BY <2>1, <2>2, <2>3, <2>5
  <2>6. CASE w # source /\ w # target
    BY <2>1, <2>3, <2>6
  <2> QED BY <2>4, <2>5, <2>6
<1>11. TxnIds \subseteq TxnIds'
  BY <1>9, <1>10, IdsKept DEF TypeInv
<1>12. out.type = "ACCOUNT_MERGE_OUT" /\ in.type = "ACCOUNT_MERGE_IN"
  BY <1>1, <1>2 DEF Entry
<1> QED BY <1>12, <1>4, <1>5, <1>6, <1>9, <1>11

LEMMA MergeTyped ==
  ASSUME TypeInv, NEW source \in Wallets, NEW target \in Wallets,
         NEW keyOut \in Keys, NEW keyIn \in Keys, Merge(source, target, keyOut, keyIn)
  PROVE  TypeInv'
<1>1. PICK amount : amount = wallet[source].available
  OBVIOUS
<1>2. wallet[source] \in WalletType /\ wallet[target] \in WalletType /\ amount \in Int
  BY <1>1 DEF TypeInv, WalletType
<1>3. UNCHANGED <<hold, lot, now>> /\ source # target
  BY DEF Merge
<1>4. CASE amount > 0
  <2>1. journal' = [journal EXCEPT
           ![source] = Posted(source, keyOut, "ACCOUNT_MERGE_OUT", "DEBIT",
                              "COMPLETED", amount, {}),
           ![target] = Posted(target, keyIn, "ACCOUNT_MERGE_IN", "CREDIT",
                              "COMPLETED", amount, {})]
    BY <1>1, <1>4 DEF Merge
  <2>2. amount \in Nat \ {0}
    BY <1>2, <1>4
  <2>3. journal' \in [Wallets -> Seq(EntryType)] /\ TxnIds \subseteq TxnIds'
    BY <1>3, <2>1, <2>2, MergedJournals
  <2>4. wallet' = [wallet EXCEPT
           ![source] = [wallet[source] EXCEPT !.available = 0, !.debited = @ + amount,
                                              !.status = "MERGED"],
           ![target] = [wallet[target] EXCEPT !.available = @ + amount,
                                              !.credited = @ + amount]]
    BY <1>1, <1>4 DEF Merge
  <2>5. /\ wallet[source].debited + amount \in Nat
        /\ wallet[target].available + amount \in Int /\ wallet[target].credited + amount \in Nat
    BY <1>2, <2>2 DEF WalletType
  <2>6. wallet' \in [Wallets -> WalletType]
    <3>1. [wallet[source] EXCEPT !.available = 0, !.debited = @ + amount,
                                 !.status = "MERGED"] \in WalletType
      <4>1. PICK r, d, z : r = wallet[source] /\ d = wallet[source].debited + amount /\ z = 0
        OBVIOUS
      <4>2. r \in WalletType /\ d \in Nat /\ z \in Int
        BY <1>2, <2>5, <4>1
      <4>3. [r EXCEPT !.available = z, !.debited = d, !.status = "MERGED"] \in WalletType
        BY <4>2 DEF WalletType
      <4> QED BY <4>1, <4>3
    <3>2. [wallet[target] EXCEPT !.available = @ + amount, !.credited = @ + amount] \in WalletType
      BY <1>2, <2>5 DEF WalletType
    <3>3. PICK closed, joined :
            /\ closed = [wallet[source] EXCEPT !.available = 0, !.debited = @ + amount,
                                               !.status = "MERGED"]
            /\ joined = [wallet[target] EXCEPT !.available = @ + amount, !.credited = @ + amount]
      OBVIOUS
    <3>4. wallet' = [wallet EXCEPT ![source] = closed, ![target] = joined]
      BY <2>4, <3>3
    <3>5. closed \in WalletType /\ joined \in WalletType
      BY <3>1, <3>2, <3>3
    <3> QED BY <3>4, <3>5 DEF TypeInv
  <2> QED BY <1>3, <2>3, <2>6 DEF TypeInv
<1>5. CASE ~(amount > 0)
  <2>1. wallet' = [wallet EXCEPT ![source].status = "MERGED"] /\ journal' = journal
    BY <1>1, <1>5 DEF Merge
  <2>2. wallet' \in [Wallets -> WalletType]
    BY <2>1 DEF TypeInv, WalletType
  <2>3. TxnIds' = TxnIds
    BY <2>1 DEF TxnIds
  <2> QED BY <1>3, <2>1, <2>2, <2>3 DEF TypeInv
<1> QED BY <1>4, <1>5

LEMMA TickTyped == ASSUME TypeInv, Tick PROVE TypeInv'
<1>1. TxnIds' = TxnIds
  BY DEF Tick, TxnIds
<1>2. now' \in 0..MaxTime
  BY DEF Tick, TypeInv
<1> QED BY <1>1, <1>2 DEF Tick, TypeInv

LEMMA InitTyped == Init => TypeInv
<1> SUFFICES ASSUME Init PROVE TypeInv
  OBVIOUS
<1>1. wallet \in [Wallets -> WalletType] /\ journal \in [Wallets -> Seq(EntryType)]
  BY DEF Init, WalletType
<1>2. DOMAIN hold = {} /\ DOMAIN lot = {}
  BY DEF Init
<1>3. hold \in [DOMAIN hold -> HoldType] /\ lot \in [DOMAIN lot -> LotType]
  BY <1>2 DEF Init
<1> QED BY <1>1, <1>2, <1>3 DEF Init, TypeInv

\* The rows the package writes have their types, whatever the requests: in
\* particular no lot is drawn below zero (consumeCreditLotsFifo) and no
\* transaction is posted for nothing.
THEOREM Typing == Spec => []TypeOK
<1>1. TypeInv /\ [Next]_vars => TypeInv'
  <2> SUFFICES ASSUME TypeInv, [Next]_vars PROVE TypeInv'
    OBVIOUS
  <2>1. CASE UNCHANGED vars
    <3>1. TxnIds' = TxnIds
      BY <2>1 DEF vars, TxnIds
    <3> QED BY <2>1, <3>1 DEF vars, TypeInv
  <2>2. CASE Next
    BY <2>2, CreditTyped, DebitTyped, HoldTyped, ReleaseTyped, ReverseTyped, ExpireTyped,
       MergeTyped, TickTyped DEF Next
  <2> QED BY <2>1, <2>2
<1> QED BY <1>1, InitTyped, TypeInvIs, PTL DEF Spec

-----------------------------------------------------------------------------
(* Each operation changes only rows of its own wallets, which is why the row *)
(* locks on those wallets are enough (LedgerRequests_proofs).                *)

OnlyRowsOf(ws) ==
  /\ \A v \in Wallets \ ws : wallet'[v] = wallet[v]
  /\ TxnIds \subseteq TxnIds'
  /\ \A id \in TxnIds : id[1] \notin ws =>
       Txn(id)' = Txn(id) /\ (AlreadyReversed(id)' => AlreadyReversed(id))
  /\ DOMAIN hold \subseteq DOMAIN hold'
  /\ \A id \in DOMAIN hold : id[1] \notin ws => hold'[id] = hold[id]

\* A posting that is no reversal adds no reversal, and rewrites no row.
LEMMA PostedLocal ==
  ASSUME TypeInv, NEW w \in Wallets, NEW key \in Keys, NEW type \in TxnTypes,
         type # "REVERSAL",
         NEW dir \in {"CREDIT", "DEBIT"}, NEW status \in {"COMPLETED", "HELD"},
         NEW amount \in Nat \ {0}, NEW refs \in SUBSET (Wallets \X Nat),
         journal' = [journal EXCEPT ![w] = Posted(w, key, type, dir, status, amount, refs)]
  PROVE  /\ TxnIds \subseteq TxnIds'
         /\ \A id \in TxnIds : Txn(id)' = Txn(id)
         /\ \A id : AlreadyReversed(id)' => AlreadyReversed(id)
<1>1. PICK k : k = <<w, Len(journal[w]) + 1>>
  OBVIOUS
<1>2. PICK s, e : /\ s = journal[w]
                 /\ e = Entry(key, type, dir, status, amount, wallet[w].available, refs)
  OBVIOUS
<1>3. e \in EntryType /\ s \in Seq(EntryType) /\ Len(s) = Len(journal[w])
  BY <1>2, PostedTyped
<1>4. journal' = [journal EXCEPT ![w] = Append(s, e)]
  BY <1>2 DEF Posted
<1>5. /\ TxnIds' = TxnIds \cup {k}
      /\ \A id \in TxnIds : Txn(id)' = Txn(id)
  BY <1>1, PostedJournal
<1>6. Txn(k)' = e
  <2>1. journal'[w] = Append(s, e)
    BY <1>3, <1>4 DEF TypeInv
  <2>2. Append(s, e)[Len(journal[w]) + 1] = e
    BY <1>3
  <2> QED BY <1>1, <2>1, <2>2 DEF Txn
<1>7. Txn(k)'.type = type
  BY <1>2, <1>6 DEF Entry
<1>8. \A id : AlreadyReversed(id)' => AlreadyReversed(id)
  BY <1>5, <1>7 DEF AlreadyReversed
<1> QED BY <1>5, <1>8

LEMMA CreditLocal ==
  ASSUME TypeInv, NEW w \in Wallets, NEW key \in Keys, NEW amount \in Amounts,
         NEW days, Credit(w, key, amount, days)
  PROVE  OnlyRowsOf({w})
<1>1. /\ journal' = [journal EXCEPT ![w] = Posted(w, key, "GRANT", "CREDIT", "COMPLETED", amount, {})]
      /\ wallet' = Deposited(w, amount) /\ hold' = hold
  BY DEF Credit
<1>2. /\ "GRANT" \in TxnTypes /\ "GRANT" # "REVERSAL" /\ amount \in Nat \ {0}
      /\ {} \in SUBSET (Wallets \X Nat)
  BY DEF TxnTypes
<1>3. /\ TxnIds \subseteq TxnIds'
      /\ \A id \in TxnIds : Txn(id)' = Txn(id)
      /\ \A id : AlreadyReversed(id)' => AlreadyReversed(id)
  BY <1>1, <1>2, PostedLocal
<1> QED BY <1>1, <1>3 DEF OnlyRowsOf, Deposited, TypeInv

LEMMA DebitLocal ==
  ASSUME TypeInv, NEW w \in Wallets, NEW key \in Keys, NEW amount \in Amounts,
         Debit(w, key, amount)
  PROVE  OnlyRowsOf({w})
<1>1. /\ journal' = [journal EXCEPT ![w] = Posted(w, key, "USE", "DEBIT", "COMPLETED", amount, {})]
      /\ wallet' = Withdrawn(w, amount) /\ hold' = hold
  BY DEF Debit
<1>2. /\ "USE" \in TxnTypes /\ "USE" # "REVERSAL" /\ amount \in Nat \ {0}
      /\ {} \in SUBSET (Wallets \X Nat)
  BY DEF TxnTypes
<1>3. /\ TxnIds \subseteq TxnIds'
      /\ \A id \in TxnIds : Txn(id)' = Txn(id)
      /\ \A id : AlreadyReversed(id)' => AlreadyReversed(id)
  BY <1>1, <1>2, PostedLocal
<1> QED BY <1>1, <1>3 DEF OnlyRowsOf, Withdrawn, TypeInv

LEMMA HoldLocal ==
  ASSUME TypeInv, NEW w \in Wallets, NEW key \in Keys, NEW amount \in Amounts,
         Hold(w, key, amount)
  PROVE  OnlyRowsOf({w})
<1>1. /\ journal' = [journal EXCEPT ![w] = Posted(w, key, "HOLD", "DEBIT", "HELD", amount, {})]
      /\ \A v \in Wallets \ {w} : wallet'[v] = wallet[v]
      /\ DOMAIN hold \subseteq DOMAIN hold'
      /\ \A id \in DOMAIN hold : hold'[id] = hold[id]
  BY DEF Hold, TypeInv
<1>2. /\ "HOLD" \in TxnTypes /\ "HOLD" # "REVERSAL" /\ amount \in Nat \ {0}
      /\ {} \in SUBSET (Wallets \X Nat)
  BY DEF TxnTypes
<1>3. /\ TxnIds \subseteq TxnIds'
      /\ \A id \in TxnIds : Txn(id)' = Txn(id)
      /\ \A id : AlreadyReversed(id)' => AlreadyReversed(id)
  BY <1>1, <1>2, PostedLocal
<1> QED BY <1>1, <1>3 DEF OnlyRowsOf

LEMMA ReleaseLocal ==
  ASSUME TypeInv, NEW id \in DOMAIN hold, NEW key \in Keys, Release(id, key)
  PROVE  OnlyRowsOf({id[1]})
<1>1. PICK w, amount : w = id[1] /\ amount = hold[id].amount
  OBVIOUS
<1>2. id \in TxnIds /\ journal \in [Wallets -> Seq(EntryType)]
  BY DEF TypeInv
<1>3. w \in Wallets /\ id \in Wallets \X Nat
  BY <1>1, <1>2, TxnTyped, TxnIdsAre
<1>4. amount \in Nat \ {0}
  BY <1>1 DEF TypeInv, HoldType
<1>5. /\ journal' = [journal EXCEPT ![w] = Posted(w, key, "RELEASE", "CREDIT", "COMPLETED", amount, {id})]
      /\ \A v \in Wallets \ {w} : wallet'[v] = wallet[v]
      /\ DOMAIN hold' = DOMAIN hold
      /\ \A h \in DOMAIN hold : h # id => hold'[h] = hold[h]
  BY <1>1 DEF Release, TypeInv
<1>6. /\ "RELEASE" \in TxnTypes /\ "RELEASE" # "REVERSAL"
      /\ {id} \in SUBSET (Wallets \X Nat)
  BY <1>3 DEF TxnTypes
<1>7. /\ TxnIds \subseteq TxnIds'
      /\ \A j \in TxnIds : Txn(j)' = Txn(j)
      /\ \A j : AlreadyReversed(j)' => AlreadyReversed(j)
  BY <1>3, <1>4, <1>5, <1>6, PostedLocal
<1> QED BY <1>1, <1>5, <1>7 DEF OnlyRowsOf

LEMMA ReverseLocal ==
  ASSUME TypeInv, NEW id \in TxnIds, NEW key \in Keys, Reverse(id, key)
  PROVE  OnlyRowsOf({id[1]})
<1>1. PICK k : k = <<id[1], Len(journal[id[1]]) + 1>>
  OBVIOUS
<1>2. /\ TxnIds' = TxnIds \cup {k} /\ k \notin TxnIds
      /\ \A j \in TxnIds : Txn(j)' = IF j = id THEN ReversedMark(Txn(id)) ELSE Txn(j)
      /\ Txn(k)' = Entry(key, "REVERSAL", Opposite(Txn(id).dir), "COMPLETED",
                         Txn(id).amount, wallet[id[1]].available, {id})
  BY <1>1, ReversedJournal
<1>3. Txn(k)'.refs = {id}
  BY <1>2 DEF Entry
<1>4. \A j \in TxnIds : Txn(j)'.type = Txn(j).type /\ Txn(j)'.refs = Txn(j).refs
  <2>1. Txn(id) \in EntryType
    BY TxnTyped DEF TypeInv
  <2>2. ReversedMark(Txn(id)).type = Txn(id).type /\ ReversedMark(Txn(id)).refs = Txn(id).refs
    BY <2>1 DEF ReversedMark, EntryType
  <2> QED BY <1>2, <2>2
<1>5. \A j : j # id => (AlreadyReversed(j)' => AlreadyReversed(j))
  BY <1>2, <1>3, <1>4 DEF AlreadyReversed
<1>6. hold' = hold /\ \A v \in Wallets \ {id[1]} : wallet'[v] = wallet[v]
  BY DEF Reverse, Deposited, Withdrawn, TypeInv
<1> QED BY <1>2, <1>5, <1>6 DEF OnlyRowsOf

LEMMA MergeLocal ==
  ASSUME TypeInv, NEW source \in Wallets, NEW target \in Wallets,
         NEW keyOut \in Keys, NEW keyIn \in Keys, Merge(source, target, keyOut, keyIn)
  PROVE  OnlyRowsOf({source, target})
<1>1. PICK amount : amount = wallet[source].available
  OBVIOUS
<1>2. /\ hold' = hold /\ source # target /\ amount \in Int
      /\ \A v \in Wallets \ {source, target} : wallet'[v] = wallet[v]
  BY <1>1 DEF Merge, TypeInv, WalletType
<1>3. CASE amount > 0
  <2>1. journal' = [journal EXCEPT
           ![source] = Posted(source, keyOut, "ACCOUNT_MERGE_OUT", "DEBIT",
                              "COMPLETED", amount, {}),
           ![target] = Posted(target, keyIn, "ACCOUNT_MERGE_IN", "CREDIT",
                              "COMPLETED", amount, {})]
    BY <1>1, <1>3 DEF Merge
  <2>2. amount \in Nat \ {0}
    BY <1>2, <1>3
  <2>3. PICK out, in \in EntryType :
           /\ out.type = "ACCOUNT_MERGE_OUT" /\ in.type = "ACCOUNT_MERGE_IN"
           /\ journal' = [journal EXCEPT ![source] = Append(journal[source], out),
                                         ![target] = Append(journal[target], in)]
           /\ journal' \in [Wallets -> Seq(EntryType)]
           /\ TxnIds \subseteq TxnIds'
    BY <1>2, <2>1, <2>2, MergedJournals
  <2>4. out.type # "REVERSAL" /\ in.type # "REVERSAL"
    BY <2>3
  <2>5. \A j \in TxnIds' : (j \in TxnIds /\ Txn(j)' = Txn(j)) \/ Txn(j)' \in {out, in}
    <3> SUFFICES ASSUME NEW j \in TxnIds'
                 PROVE  (j \in TxnIds /\ Txn(j)' = Txn(j)) \/ Txn(j)' \in {out, in}
      OBVIOUS
    <3>1. PICK v \in Wallets : \E i \in DOMAIN journal'[v] : j = <<v, i>>
      BY DEF TxnIds
    <3>2. PICK i \in DOMAIN journal'[v] : j = <<v, i>>
      BY <3>1
    <3>3. journal[v] \in Seq(EntryType)
      BY DEF TypeInv
    <3>4. journal'[v] \in {journal[v], Append(journal[v], out), Append(journal[v], in)}
      BY <2>3, <1>2 DEF TypeInv
    <3>5. \/ i \in DOMAIN journal[v] /\ journal'[v][i] = journal[v][i]
          \/ journal'[v][i] \in {out, in}
      <4>1. /\ \A e : /\ DOMAIN Append(journal[v], e) = 1..(Len(journal[v]) + 1)
                      /\ Append(journal[v], e)[Len(journal[v]) + 1] = e
                      /\ \A n \in 1..Len(journal[v]) : Append(journal[v], e)[n] = journal[v][n]
            /\ DOMAIN journal[v] = 1..Len(journal[v]) /\ Len(journal[v]) \in Nat
        BY <3>3
      <4>2. CASE journal'[v] = journal[v]
        BY <4>2, <3>2
      <4>3. CASE journal'[v] = Append(journal[v], out)
        BY <4>1, <4>3, <3>2
      <4>4. CASE journal'[v] = Append(journal[v], in)
        BY <4>1, <4>4, <3>2
      <4> QED BY <4>2, <4>3, <4>4, <3>4
    <3> QED BY <3>2, <3>5 DEF Txn, TxnIds
  <2>6. \A j \in TxnIds : Txn(j)' = Txn(j)
    <3> SUFFICES ASSUME NEW j \in TxnIds PROVE Txn(j)' = Txn(j)
      OBVIOUS
    <3>1. j[1] \in Wallets /\ j[2] \in 1..Len(journal[j[1]])
      BY TxnTyped DEF TypeInv
    <3>2. journal[j[1]] \in Seq(EntryType)
      BY <3>1 DEF TypeInv
    <3>3. journal'[j[1]] \in {journal[j[1]], Append(journal[j[1]], out), Append(journal[j[1]], in)}
      BY <2>3, <1>2, <3>1 DEF TypeInv
    <3> QED BY <3>1, <3>2, <3>3 DEF Txn
  <2>7. \A j : AlreadyReversed(j)' => AlreadyReversed(j)
    BY <2>4, <2>5 DEF AlreadyReversed
  <2> QED BY <1>2, <2>3, <2>6, <2>7 DEF OnlyRowsOf
<1>4. CASE ~(amount > 0)
  <2>1. journal' = journal
    BY <1>1, <1>4 DEF Merge
  <2> QED BY <1>2, <2>1 DEF OnlyRowsOf, AlreadyReversed, TxnIds, Txn
<1> QED BY <1>3, <1>4

-----------------------------------------------------------------------------
(* What a step does to one wallet, whatever the operation: nothing, or one   *)
(* entry, and the balances that entry says.                                  *)

Rests(w) ==
  /\ journal'[w] = journal[w]
  /\ wallet'[w].available = wallet[w].available
  /\ wallet'[w].held = wallet[w].held
  /\ wallet[w].status = "MERGED" => wallet'[w].status = "MERGED"

\* rows: those there were, of which a reversal marks one.
Grows(w, rows, e) ==
  /\ rows \in Seq(EntryType) /\ Len(rows) = Len(journal[w])
  /\ \A i \in 1..Len(rows) :
       \/ rows[i] = journal[w][i]
       \/ journal[w][i].status = "COMPLETED" /\ rows[i] = ReversedMark(journal[w][i])
  /\ e \in EntryType
  /\ journal'[w] = Append(rows, e)
  /\ e.before = wallet[w].available /\ e.after = wallet'[w].available
  /\ e.after = IF e.dir = "CREDIT" THEN e.before + e.amount ELSE e.before - e.amount
  /\ IF e.type \in {"HOLD", "RELEASE"}
     THEN wallet'[w].available + wallet'[w].held = wallet[w].available + wallet[w].held
     ELSE e.status = "COMPLETED" /\ wallet'[w].held = wallet[w].held
  /\ wallet[w].status = "MERGED" =>
       wallet'[w].status = "MERGED" /\ e.type \in {"RELEASE", "REVERSAL", "EXPIRATION"}

StepOn(w) == Rests(w) \/ \E rows, e : Grows(w, rows, e)

\* A plain posting
LEMMA PostedStep ==
  ASSUME TypeInv, NEW w \in Wallets, NEW key \in Keys, NEW type \in TxnTypes,
         NEW dir \in {"CREDIT", "DEBIT"}, NEW status \in {"COMPLETED", "HELD"},
         NEW amount \in Nat \ {0}, NEW refs \in SUBSET (Wallets \X Nat),
         journal'[w] = Posted(w, key, type, dir, status, amount, refs),
         wallet'[w].available = IF dir = "CREDIT" THEN wallet[w].available + amount
                                ELSE wallet[w].available - amount,
         IF type \in {"HOLD", "RELEASE"}
         THEN wallet'[w].available + wallet'[w].held = wallet[w].available + wallet[w].held
         ELSE status = "COMPLETED" /\ wallet'[w].held = wallet[w].held,
         \/ wallet[w].status = "ACTIVE"
         \/ /\ wallet'[w].status = wallet[w].status
            /\ type \in {"RELEASE", "REVERSAL", "EXPIRATION"}
  PROVE  StepOn(w)
<1>1. PICK e : e = Entry(key, type, dir, status, amount, wallet[w].available, refs)
  OBVIOUS
<1>2. e \in EntryType /\ journal[w] \in Seq(EntryType) /\ journal'[w] = Append(journal[w], e)
  BY <1>1, PostedTyped
<1>3. /\ e.type = type /\ e.dir = dir /\ e.status = status /\ e.amount = amount
      /\ e.before = wallet[w].available
      /\ e.after = IF dir = "CREDIT" THEN wallet[w].available + amount
                   ELSE wallet[w].available - amount
  BY <1>1 DEF Entry
<1>4. Grows(w, journal[w], e)
  BY <1>2, <1>3 DEF Grows
<1> QED BY <1>4 DEF StepOn

LEMMA CreditStep ==
  ASSUME TypeInv, NEW w \in Wallets, NEW key \in Keys, NEW amount \in Amounts, NEW days,
         Credit(w, key, amount, days), NEW v \in Wallets
  PROVE  StepOn(v)
<1>1. CASE v = w
  <2>1. /\ journal'[w] = Posted(w, key, "GRANT", "CREDIT", "COMPLETED", amount, {})
        /\ wallet'[w].available = wallet[w].available + amount /\ wallet'[w].held = wallet[w].held
        /\ wallet[w].status = "ACTIVE"
    BY DEF Credit, Deposited, Active, TypeInv, WalletType
  <2>2. "GRANT" \in TxnTypes \ {"HOLD", "RELEASE"} /\ amount \in Nat \ {0}
        /\ {} \in SUBSET (Wallets \X Nat)
    BY DEF TxnTypes
  <2> QED BY <1>1, <2>1, <2>2, PostedStep
<1>2. CASE v # w
  BY <1>2 DEF Credit, Deposited, TypeInv, WalletType, StepOn, Rests
<1> QED BY <1>1, <1>2

LEMMA DebitStep ==
  ASSUME TypeInv, NEW w \in Wallets, NEW key \in Keys, NEW amount \in Amounts,
         Debit(w, key, amount), NEW v \in Wallets
  PROVE  StepOn(v)
<1>1. CASE v = w
  <2>1. /\ journal'[w] = Posted(w, key, "USE", "DEBIT", "COMPLETED", amount, {})
        /\ wallet'[w].available = wallet[w].available - amount /\ wallet'[w].held = wallet[w].held
        /\ wallet[w].status = "ACTIVE"
    BY DEF Debit, Withdrawn, Active, TypeInv, WalletType
  <2>2. "USE" \in TxnTypes \ {"HOLD", "RELEASE"} /\ amount \in Nat \ {0}
        /\ {} \in SUBSET (Wallets \X Nat)
    BY DEF TxnTypes
  <2> QED BY <1>1, <2>1, <2>2, PostedStep
<1>2. CASE v # w
  BY <1>2 DEF Debit, Withdrawn, TypeInv, WalletType, StepOn, Rests
<1> QED BY <1>1, <1>2

LEMMA HoldStep ==
  ASSUME TypeInv, NEW w \in Wallets, NEW key \in Keys, NEW amount \in Amounts,
         Hold(w, key, amount), NEW v \in Wallets
  PROVE  StepOn(v)
<1>1. CASE v = w
  <2>1. /\ journal'[w] = Posted(w, key, "HOLD", "DEBIT", "HELD", amount, {})
        /\ wallet'[w].available = wallet[w].available - amount
        /\ wallet'[w].held = wallet[w].held + amount
        /\ wallet[w].status = "ACTIVE"
    BY DEF Hold, Active, TypeInv, WalletType
  <2>2. "HOLD" \in TxnTypes /\ amount \in Nat \ {0} /\ {} \in SUBSET (Wallets \X Nat)
        /\ wallet[w].available \in Int /\ wallet[w].held \in Int
    BY DEF TxnTypes, TypeInv, WalletType
  <2>3. wallet'[w].available + wallet'[w].held = wallet[w].available + wallet[w].held
    BY <2>1, <2>2
  <2> QED BY <1>1, <2>1, <2>2, <2>3, PostedStep
<1>2. CASE v # w
  BY <1>2 DEF Hold, TypeInv, WalletType, StepOn, Rests
<1> QED BY <1>1, <1>2

LEMMA ReleaseStep ==
  ASSUME TypeInv, NEW id \in DOMAIN hold, NEW key \in Keys, Release(id, key), NEW v \in Wallets
  PROVE  StepOn(v)
<1>1. PICK w, amount : w = id[1] /\ amount = hold[id].amount
  OBVIOUS
<1>2. w \in Wallets /\ id \in Wallets \X Nat /\ amount \in Nat \ {0}
  BY <1>1, TxnIdsAre DEF TypeInv, HoldType
<1>3. /\ journal' = [journal EXCEPT ![w] = Posted(w, key, "RELEASE", "CREDIT", "COMPLETED", amount, {id})]
      /\ wallet' = [wallet EXCEPT ![w].available = @ + amount, ![w].held = @ - amount]
  BY <1>1 DEF Release
<1>4. CASE v = w
  <2>1. /\ journal'[w] = Posted(w, key, "RELEASE", "CREDIT", "COMPLETED", amount, {id})
        /\ wallet'[w].available = wallet[w].available + amount
        /\ wallet'[w].held = wallet[w].held - amount
        /\ wallet'[w].status = wallet[w].status
    BY <1>2, <1>3 DEF TypeInv, WalletType
  <2>2. "RELEASE" \in TxnTypes /\ {id} \in SUBSET (Wallets \X Nat)
        /\ wallet[w].available \in Int /\ wallet[w].held \in Int
    BY <1>2 DEF TxnTypes, TypeInv, WalletType
  <2>3. wallet'[w].available + wallet'[w].held = wallet[w].available + wallet[w].held
    BY <1>2, <2>1, <2>2
  <2> QED BY <1>2, <1>4, <2>1, <2>2, <2>3, PostedStep
<1>5. CASE v # w
  BY <1>2, <1>3, <1>5 DEF TypeInv, WalletType, StepOn, Rests
<1> QED BY <1>4, <1>5

LEMMA ReverseStep ==
  ASSUME TypeInv, NEW id \in TxnIds, NEW key \in Keys, Reverse(id, key), NEW v \in Wallets
  PROVE  StepOn(v)
<1>1. PICK w, n, rows, e :
        /\ w = id[1] /\ n = id[2]
        /\ rows = [journal[w] EXCEPT ![n] = ReversedMark(Txn(id))]
        /\ e = Entry(key, "REVERSAL", Opposite(Txn(id).dir), "COMPLETED", Txn(id).amount,
                     wallet[w].available, {id})
  OBVIOUS
<1>2. /\ w \in Wallets /\ n \in 1..Len(journal[w])
      /\ Txn(id) \in EntryType /\ Txn(id) = journal[w][n]
  BY <1>1, TxnTyped DEF TypeInv, Txn
<1>3. journal[w] \in Seq(EntryType) /\ ReversedMark(Txn(id)) \in EntryType
  BY <1>2 DEF TypeInv, ReversedMark, EntryType
<1>4. /\ rows \in Seq(EntryType) /\ Len(rows) = Len(journal[w])
      /\ \A i \in 1..Len(rows) : rows[i] = IF i = n THEN ReversedMark(journal[w][n]) ELSE journal[w][i]
  BY <1>1, <1>2, <1>3
<1>5. e \in EntryType
  <2>1. Opposite(Txn(id).dir) \in {"CREDIT", "DEBIT"} /\ Txn(id).amount \in Nat \ {0}
    BY <1>2 DEF Opposite, EntryType
  <2>2. wallet[w].available \in Int /\ {id} \in SUBSET (Wallets \X Nat)
    BY <1>2, TxnIdsAre DEF TypeInv, WalletType
  <2> QED BY <1>1, <2>1, <2>2, EntryTyped DEF TxnTypes
<1>6. /\ journal' = [journal EXCEPT ![w] = Append(rows, e)]
      /\ wallet' = IF e.dir = "CREDIT" THEN Deposited(w, e.amount) ELSE Withdrawn(w, e.amount)
      /\ journal[w][n].status = "COMPLETED"
  BY <1>1, <1>2 DEF Reverse, Reversible, Entry
<1>7. /\ e.type = "REVERSAL" /\ e.status = "COMPLETED" /\ e.before = wallet[w].available
      /\ e.after = IF e.dir = "CREDIT" THEN e.before + e.amount ELSE e.before - e.amount
  BY <1>1 DEF Entry
<1>8. CASE v = w
  <2>1. journal'[w] = Append(rows, e)
    BY <1>2, <1>6 DEF TypeInv
  <2>2. /\ wallet'[w].available = IF e.dir = "CREDIT" THEN wallet[w].available + e.amount
                                  ELSE wallet[w].available - e.amount
        /\ wallet'[w].held = wallet[w].held /\ wallet'[w].status = wallet[w].status
    BY <1>2, <1>6 DEF Deposited, Withdrawn, TypeInv, WalletType
  <2>3. Grows(w, rows, e)
    BY <1>4, <1>5, <1>6, <1>7, <2>1, <2>2 DEF Grows
  <2> QED BY <1>8, <2>3 DEF StepOn
<1>9. CASE v # w
  BY <1>2, <1>6, <1>9 DEF Deposited, Withdrawn, TypeInv, WalletType, StepOn, Rests
<1> QED BY <1>8, <1>9

LEMMA ExpireStep ==
  ASSUME TypeInv, NEW w \in Wallets, NEW cutoff, NEW key \in Keys, Expire(w, cutoff, key),
         NEW v \in Wallets
  PROVE  StepOn(v)
<1>1. PICK due : due = DueLots(w, cutoff)
  OBVIOUS
<1>2. PICK amount \in 1..wallet[w].available :
        /\ journal' = [journal EXCEPT ![w] =
                         Posted(w, key, "EXPIRATION", "DEBIT", "COMPLETED", amount, due)]
        /\ wallet' = Withdrawn(w, amount)
  BY <1>1 DEF Expire
<1>3. amount \in Nat \ {0} /\ due \in SUBSET (Wallets \X Nat)
  <2>1. amount \in Nat \ {0}
    BY <1>2 DEF TypeInv, WalletType
  <2>2. due \subseteq DOMAIN lot
    BY <1>1 DEF DueLots
  <2> QED BY <2>1, <2>2, TxnIdsAre DEF TypeInv
<1>4. CASE v = w
  <2>1. /\ journal'[w] = Posted(w, key, "EXPIRATION", "DEBIT", "COMPLETED", amount, due)
        /\ wallet'[w].available = wallet[w].available - amount /\ wallet'[w].held = wallet[w].held
        /\ wallet'[w].status = wallet[w].status
    BY <1>2, <1>3 DEF Withdrawn, TypeInv, WalletType
  <2>2. "EXPIRATION" \in TxnTypes \ {"HOLD", "RELEASE"}
    BY DEF TxnTypes
  <2> QED BY <1>3, <1>4, <2>1, <2>2, PostedStep
<1>5. CASE v # w
  BY <1>2, <1>5 DEF Withdrawn, TypeInv, WalletType, StepOn, Rests
<1> QED BY <1>4, <1>5

LEMMA MergeStep ==
  ASSUME TypeInv, NEW source \in Wallets, NEW target \in Wallets,
         NEW keyOut \in Keys, NEW keyIn \in Keys, Merge(source, target, keyOut, keyIn),
         NEW v \in Wallets
  PROVE  StepOn(v)
<1>1. PICK amount : amount = wallet[source].available
  OBVIOUS
<1>2. /\ source # target /\ amount \in Int
      /\ wallet[source] \in WalletType /\ wallet[target] \in WalletType
      /\ wallet[source].status = "ACTIVE" /\ wallet[target].status = "ACTIVE"
  BY <1>1 DEF Merge, Active, TypeInv, WalletType
<1>3. CASE amount > 0
  <2>1. /\ journal' = [journal EXCEPT
             ![source] = Posted(source, keyOut, "ACCOUNT_MERGE_OUT", "DEBIT",
                                "COMPLETED", amount, {}),
             ![target] = Posted(target, keyIn, "ACCOUNT_MERGE_IN", "CREDIT",
                                "COMPLETED", amount, {})]
        /\ wallet' = [wallet EXCEPT
             ![source] = [wallet[source] EXCEPT !.available = 0, !.debited = @ + amount,
                                                !.status = "MERGED"],
             ![target] = [wallet[target] EXCEPT !.available = @ + amount,
                                                !.credited = @ + amount]]
    BY <1>1, <1>3 DEF Merge
  <2>2. /\ amount \in Nat \ {0} /\ {} \in SUBSET (Wallets \X Nat)
        /\ {"ACCOUNT_MERGE_OUT", "ACCOUNT_MERGE_IN"} \subseteq TxnTypes \ {"HOLD", "RELEASE"}
    BY <1>2, <1>3 DEF TxnTypes
  <2>3. CASE v = source
    <3>1. journal'[source] = Posted(source, keyOut, "ACCOUNT_MERGE_OUT", "DEBIT",
                                    "COMPLETED", amount, {})
      BY <1>2, <2>1 DEF TypeInv
    <3>2. wallet'[source] = [wallet[source] EXCEPT !.available = 0, !.debited = @ + amount,
                                                   !.status = "MERGED"]
      BY <1>2, <2>1 DEF TypeInv
    <3>3. wallet'[source].available = wallet[source].available - amount
          /\ wallet'[source].held = wallet[source].held
      BY <1>1, <1>2, <3>2 DEF WalletType
    <3> QED BY <1>2, <2>2, <2>3, <3>1, <3>3, PostedStep
  <2>4. CASE v = target
    <3>1. journal'[target] = Posted(target, keyIn, "ACCOUNT_MERGE_IN", "CREDIT",
                                    "COMPLETED", amount, {})
      BY <1>2, <2>1 DEF TypeInv
    <3>2. wallet'[target] = [wallet[target] EXCEPT !.available = @ + amount, !.credited = @ + amount]
      BY <1>2, <2>1 DEF TypeInv
    <3>3. wallet'[target].available = wallet[target].available + amount
          /\ wallet'[target].held = wallet[target].held
      BY <1>2, <3>2 DEF WalletType
    <3> QED BY <1>2, <2>2, <2>4, <3>1, <3>3, PostedStep
  <2>5. CASE v \notin {source, target}
    BY <2>1, <2>5 DEF TypeInv, WalletType, StepOn, Rests
  <2> QED BY <2>3, <2>4, <2>5
<1>4. CASE ~(amount > 0)
  <2>1. wallet' = [wallet EXCEPT ![source].status = "MERGED"] /\ journal' = journal
    BY <1>1, <1>4 DEF Merge
  <2> QED BY <1>2, <2>1 DEF TypeInv, WalletType, StepOn, Rests
<1> QED BY <1>3, <1>4

\* Every operation is such a step on every wallet.
LEMMA EveryStep == ASSUME TypeInv, Next, NEW w \in Wallets PROVE StepOn(w)
<1>1. CASE Tick
  BY <1>1 DEF Tick, StepOn, Rests
<1> QED BY <1>1, CreditStep, DebitStep, HoldStep, ReleaseStep, ReverseStep, ExpireStep, MergeStep
         DEF Next

-----------------------------------------------------------------------------
(* What follows for the journal                                              *)

LEMMA Invariance == Spec => []TypeInv
<1>1. TypeOK => TypeInv
  BY TypeInvIs
<1> QED BY <1>1, Typing, PTL

\* Every row stays where it is, as it is, but for the mark of its reversal.
RowsStand ==
  \A w \in Wallets :
    /\ Len(journal[w]) <= Len(journal'[w])
    /\ \A i \in DOMAIN journal[w] :
         \/ journal'[w][i] = journal[w][i]
         \/ /\ journal[w][i].status = "COMPLETED"
            /\ journal'[w][i] = [journal[w][i] EXCEPT !.status = "REVERSED"]

LEMMA HistoryStep == ASSUME TypeInv, Next PROVE RowsStand
<1> SUFFICES ASSUME NEW w \in Wallets
             PROVE  /\ Len(journal[w]) <= Len(journal'[w])
                    /\ \A i \in DOMAIN journal[w] :
                         \/ journal'[w][i] = journal[w][i]
                         \/ /\ journal[w][i].status = "COMPLETED"
                            /\ journal'[w][i] = [journal[w][i] EXCEPT !.status = "REVERSED"]
  BY DEF RowsStand
<1>1. journal[w] \in Seq(EntryType) /\ Len(journal[w]) \in Nat
      /\ DOMAIN journal[w] = 1..Len(journal[w])
  BY DEF TypeInv
<1>2. CASE Rests(w)
  BY <1>1, <1>2 DEF Rests
<1>3. ASSUME NEW rows, NEW e, Grows(w, rows, e)
      PROVE  /\ Len(journal[w]) <= Len(journal'[w])
             /\ \A i \in DOMAIN journal[w] :
                  \/ journal'[w][i] = journal[w][i]
                  \/ /\ journal[w][i].status = "COMPLETED"
                     /\ journal'[w][i] = [journal[w][i] EXCEPT !.status = "REVERSED"]
  <2>1. /\ rows \in Seq(EntryType) /\ Len(rows) = Len(journal[w]) /\ e \in EntryType
        /\ journal'[w] = Append(rows, e)
        /\ \A i \in 1..Len(rows) :
             \/ rows[i] = journal[w][i]
             \/ journal[w][i].status = "COMPLETED" /\ rows[i] = ReversedMark(journal[w][i])
    BY <1>3 DEF Grows
  <2>2. /\ Len(Append(rows, e)) = Len(rows) + 1
        /\ \A i \in 1..Len(rows) : Append(rows, e)[i] = rows[i]
    BY <2>1
  <2>3. Len(journal[w]) <= Len(journal'[w])
    BY <1>1, <2>1, <2>2
  <2>4. \A i \in DOMAIN journal[w] :
          \/ journal'[w][i] = journal[w][i]
          \/ journal[w][i].status = "COMPLETED" /\ journal'[w][i] = ReversedMark(journal[w][i])
    BY <1>1, <2>1, <2>2
  <2> QED BY <2>3, <2>4, Zenon DEF ReversedMark
<1> QED BY <1>2, <1>3, EveryStep DEF StepOn

\* Posted transactions are never removed or rewritten (ledger-rules.md, rules 2
\* and 3): whatever an operation does, it appends one row or none to a journal
\* and marks at most one that was COMPLETED.
THEOREM History == Spec => HistoryImmutable
<1>1. TypeInv /\ [Next]_vars => [RowsStand]_vars
  BY HistoryStep
<1>2. Spec => [][RowsStand]_vars
  BY <1>1, Invariance, PTL DEF Spec
<1> QED BY <1>2 DEF HistoryImmutable, RowsStand

\* A merged wallet stays merged, and only what was pending on it is undone.
StaysClosed ==
  \A w \in Wallets :
    wallet[w].status = "MERGED" =>
      /\ wallet'[w].status = "MERGED"
      /\ \A i \in DOMAIN journal'[w] \ DOMAIN journal[w] :
           journal'[w][i].type \in {"RELEASE", "REVERSAL", "EXPIRATION"}

LEMMA ClosedStep == ASSUME TypeInv, Next PROVE StaysClosed
<1> SUFFICES ASSUME NEW w \in Wallets, wallet[w].status = "MERGED"
             PROVE  /\ wallet'[w].status = "MERGED"
                    /\ \A i \in DOMAIN journal'[w] \ DOMAIN journal[w] :
                         journal'[w][i].type \in {"RELEASE", "REVERSAL", "EXPIRATION"}
  BY DEF StaysClosed
<1>1. journal[w] \in Seq(EntryType) /\ Len(journal[w]) \in Nat
      /\ DOMAIN journal[w] = 1..Len(journal[w])
  BY DEF TypeInv
<1>2. CASE Rests(w)
  BY <1>2 DEF Rests
<1>3. ASSUME NEW rows, NEW e, Grows(w, rows, e)
      PROVE  /\ wallet'[w].status = "MERGED"
             /\ \A i \in DOMAIN journal'[w] \ DOMAIN journal[w] :
                  journal'[w][i].type \in {"RELEASE", "REVERSAL", "EXPIRATION"}
  <2>1. /\ rows \in Seq(EntryType) /\ Len(rows) = Len(journal[w]) /\ e \in EntryType
        /\ journal'[w] = Append(rows, e)
        /\ wallet'[w].status = "MERGED" /\ e.type \in {"RELEASE", "REVERSAL", "EXPIRATION"}
    BY <1>3 DEF Grows
  <2>2. /\ DOMAIN Append(rows, e) = 1..(Len(rows) + 1)
        /\ Append(rows, e)[Len(rows) + 1] = e
    BY <2>1
  <2>3. \A i \in DOMAIN journal'[w] \ DOMAIN journal[w] : i = Len(rows) + 1
    BY <1>1, <2>1, <2>2
  <2> QED BY <2>1, <2>2, <2>3
<1> QED BY <1>2, <1>3, EveryStep DEF StepOn

\* A merged wallet is closed for good: only what was pending on it is undone.
\* Every operation that opens something new asks for an ACTIVE wallet under the
\* row lock.
THEOREM Closing == Spec => MergedWalletClosed
<1>1. TypeInv /\ [Next]_vars => [StaysClosed]_vars
  BY ClosedStep
<1>2. Spec => [][StaysClosed]_vars
  BY <1>1, Invariance, PTL DEF Spec
<1> QED BY <1>2 DEF MergedWalletClosed, StaysClosed

\* A new row starts where the last one ended.
LEMMA ChainStep ==
  ASSUME TypeInv, JournalChained, [Next]_vars PROVE JournalChained'
<1> SUFFICES ASSUME NEW w \in Wallets
             PROVE  /\ \A i \in DOMAIN journal'[w] :
                         journal'[w][i].before = IF i = 1 THEN 0 ELSE journal'[w][i-1].after
                    /\ wallet'[w].available =
                         IF journal'[w] = <<>> THEN 0 ELSE journal'[w][Len(journal'[w])].after
  BY DEF JournalChained
<1>1. journal[w] \in Seq(EntryType) /\ Len(journal[w]) \in Nat
      /\ DOMAIN journal[w] = 1..Len(journal[w])
  BY DEF TypeInv
<1>2. /\ \A i \in DOMAIN journal[w] :
           journal[w][i].before = IF i = 1 THEN 0 ELSE journal[w][i-1].after
      /\ wallet[w].available =
           IF journal[w] = <<>> THEN 0 ELSE journal[w][Len(journal[w])].after
  BY DEF JournalChained
<1>3. CASE Rests(w)
  BY <1>2, <1>3 DEF Rests
<1>4. ASSUME NEW rows, NEW e, Grows(w, rows, e)
      PROVE  /\ \A i \in DOMAIN journal'[w] :
                  journal'[w][i].before = IF i = 1 THEN 0 ELSE journal'[w][i-1].after
             /\ wallet'[w].available =
                  IF journal'[w] = <<>> THEN 0 ELSE journal'[w][Len(journal'[w])].after
  <2> DEFINE n == Len(journal[w])
  <2>1. /\ rows \in Seq(EntryType) /\ Len(rows) = n /\ e \in EntryType
        /\ journal'[w] = Append(rows, e)
        /\ e.before = wallet[w].available /\ e.after = wallet'[w].available
    BY <1>4 DEF Grows
  <2>2. \A i \in 1..n : rows[i].before = journal[w][i].before /\ rows[i].after = journal[w][i].after
    <3> SUFFICES ASSUME NEW i \in 1..n
                 PROVE  rows[i].before = journal[w][i].before /\ rows[i].after = journal[w][i].after
      OBVIOUS
    <3>1. journal[w][i] \in EntryType
      BY <1>1
    <3>2. rows[i] = journal[w][i] \/ rows[i] = ReversedMark(journal[w][i])
      BY <1>4, <2>1 DEF Grows
    <3> QED BY <3>1, <3>2 DEF ReversedMark, EntryType
  <2>3. /\ DOMAIN Append(rows, e) = 1..(n + 1) /\ Len(Append(rows, e)) = n + 1
        /\ Append(rows, e)[n + 1] = e /\ Append(rows, e) # <<>>
        /\ \A i \in 1..n : Append(rows, e)[i] = rows[i]
    BY <1>1, <2>1
  <2>4. e.before = IF n = 0 THEN 0 ELSE journal[w][n].after
    BY <1>1, <1>2, <2>1
  <2> HIDE DEF n
  <2>5. ASSUME NEW i \in 1..(n + 1)
        PROVE  Append(rows, e)[i].before = IF i = 1 THEN 0 ELSE Append(rows, e)[i-1].after
    <3>1. CASE i = n + 1
      BY <1>1, <2>2, <2>3, <2>4, <3>1 DEF n
    <3>2. CASE i # n + 1
      <4>1. i \in 1..n /\ (i # 1 => i - 1 \in 1..n)
        BY <1>1, <3>2 DEF n
      <4>2. Append(rows, e)[i] = rows[i] /\ rows[i].before = journal[w][i].before
        BY <2>2, <2>3, <4>1
      <4>3. journal[w][i].before = IF i = 1 THEN 0 ELSE journal[w][i-1].after
        BY <1>1, <1>2, <4>1 DEF n
      <4>4. i # 1 => /\ Append(rows, e)[i-1] = rows[i-1]
                     /\ rows[i-1].after = journal[w][i-1].after
        BY <2>2, <2>3, <4>1
      <4> QED BY <4>2, <4>3, <4>4
    <3> QED BY <3>1, <3>2
  <2> QED BY <2>1, <2>3, <2>5
<1>5. CASE UNCHANGED vars
  BY <1>2, <1>5 DEF vars
<1> QED BY <1>3, <1>4, <1>5, EveryStep DEF StepOn

\* Every change of an available balance is on the journal: each row starts from
\* the balance the one before it left, through marks, releases and merges.
THEOREM Chaining == Spec => []JournalChained
<1>1. Init => JournalChained
  BY DEF Init, JournalChained
<1>2. TypeInv /\ JournalChained /\ [Next]_vars => JournalChained'
  BY ChainStep
<1> QED BY <1>1, <1>2, Invariance, PTL DEF Spec

-----------------------------------------------------------------------------
(* reconcileWallet: the journal adds up to the balance                       *)

NotCounted == {"HOLD", "RELEASE"}

\* Of one wallet's rows, those that count.
CountedRows(rows, w, dir) ==
  {<<w, i>> : i \in {j \in DOMAIN rows : /\ rows[j].dir = dir
                                         /\ rows[j].status \in {"COMPLETED", "REVERSED"}
                                         /\ rows[j].type \notin NotCounted}}

LEMMA CountedAre ==
  ASSUME NEW w \in Wallets, NEW dir
  PROVE  /\ Counted(w, dir) = CountedRows(journal[w], w, dir)
         /\ Counted(w, dir)' = CountedRows(journal'[w], w, dir)
<1>1. Counted(w, dir) = CountedRows(journal[w], w, dir)
  BY DEF Counted, CountedRows, NotCounted, TxnIds, Txn
<1>2. Counted(w, dir)' = CountedRows(journal'[w], w, dir)
  BY DEF Counted, CountedRows, NotCounted, TxnIds, Txn
<1> QED BY <1>1, <1>2

\* A wallet's ids are finitely many.
LEMMA FewIds ==
  ASSUME TypeInv, NEW w \in Wallets, NEW S, S \subseteq {id \in TxnIds : id[1] = w}
  PROVE  IsFiniteSet(S)
<1> DEFINE n == Len(journal[w])
           all == {<<w, i>> : i \in 1..n}
<1>1. n \in Nat /\ DOMAIN journal[w] = 1..n
  BY DEF TypeInv
<1>2. IsFiniteSet(1..n)
  BY <1>1, FS_Interval
<1>3. IsFiniteSet({w})
  BY FS_Singleton
<1>4. IsFiniteSet({w} \X (1..n))
  BY <1>2, <1>3, FS_Product
<1>5. S \subseteq {w} \X (1..n)
  <2> SUFFICES ASSUME NEW id \in S PROVE id \in {w} \X (1..n)
    OBVIOUS
  <2>1. id \in TxnIds /\ id[1] = w /\ journal \in [Wallets -> Seq(EntryType)]
    BY DEF TypeInv
  <2>2. id[2] \in 1..n /\ id = <<w, id[2]>>
    BY <2>1, TxnTyped
  <2> QED BY <2>2
<1> QED BY <1>4, <1>5, FS_Subset

\* One more row: it is one more that counts, or none.
LEMMA CountedGrows ==
  ASSUME TypeInv, TypeInv', NEW w \in Wallets, NEW rows, NEW e, Grows(w, rows, e), NEW dir
  PROVE  /\ Total(AmountOf, Counted(w, dir)) \in Nat
         /\ Total(AmountOf, Counted(w, dir))' = Total(AmountOf, Counted(w, dir))
              + IF e.dir = dir /\ e.type \notin NotCounted THEN e.amount ELSE 0
<1>0. Len(journal[w]) \in Nat
  BY DEF TypeInv
<1> PICK n \in Nat : n = Len(journal[w])
  BY <1>0
<1> PICK k : k = <<w, n + 1>>
  OBVIOUS
<1> DEFINE S == Counted(w, dir)
<1>1. /\ journal[w] \in Seq(EntryType) /\ n \in Nat /\ DOMAIN journal[w] = 1..n
  BY DEF TypeInv
<1>2. /\ rows \in Seq(EntryType) /\ Len(rows) = n /\ e \in EntryType
      /\ journal'[w] = Append(rows, e)
      /\ e.type \notin NotCounted => e.status = "COMPLETED"
  BY DEF Grows, NotCounted
<1>3. /\ DOMAIN Append(rows, e) = 1..(n + 1)
      /\ Append(rows, e)[n + 1] = e
      /\ \A i \in 1..n : Append(rows, e)[i] = rows[i]
  BY <1>1, <1>2
<1>4. \A i \in 1..n :
        /\ rows[i].dir = journal[w][i].dir /\ rows[i].type = journal[w][i].type
        /\ rows[i].amount = journal[w][i].amount /\ rows[i].amount \in Nat
        /\ rows[i].status \in {"COMPLETED", "REVERSED"} <=>
             journal[w][i].status \in {"COMPLETED", "REVERSED"}
  <2> SUFFICES ASSUME NEW i \in 1..n
               PROVE  /\ rows[i].dir = journal[w][i].dir /\ rows[i].type = journal[w][i].type
                      /\ rows[i].amount = journal[w][i].amount /\ rows[i].amount \in Nat
                      /\ rows[i].status \in {"COMPLETED", "REVERSED"} <=>
                           journal[w][i].status \in {"COMPLETED", "REVERSED"}
    OBVIOUS
  <2>1. journal[w][i] \in EntryType
    BY <1>1
  <2>2. \/ rows[i] = journal[w][i]
        \/ journal[w][i].status = "COMPLETED" /\ rows[i] = ReversedMark(journal[w][i])
    BY <1>2 DEF Grows
  <2> QED BY <2>1, <2>2 DEF ReversedMark, EntryType
<1>5. S = CountedRows(journal[w], w, dir) /\ S' = CountedRows(journal'[w], w, dir)
  BY CountedAre
<1>6. S = {<<w, i>> : i \in {j \in 1..n : /\ journal[w][j].dir = dir
                                          /\ journal[w][j].status \in {"COMPLETED", "REVERSED"}
                                          /\ journal[w][j].type \notin NotCounted}}
  BY <1>1, <1>5 DEF CountedRows
<1>7. S' = S \cup IF e.dir = dir /\ e.type \notin NotCounted THEN {k} ELSE {}
  <2>1. S' = {<<w, i>> : i \in {j \in 1..(n + 1) :
                                  /\ Append(rows, e)[j].dir = dir
                                  /\ Append(rows, e)[j].status \in {"COMPLETED", "REVERSED"}
                                  /\ Append(rows, e)[j].type \notin NotCounted}}
    BY <1>2, <1>3, <1>5 DEF CountedRows
  <2>2. 1..(n + 1) = (1..n) \cup {n + 1} /\ n + 1 \notin 1..n
    BY <1>1
  <2>3. ASSUME NEW j \in 1..(n + 1)
        PROVE  (/\ Append(rows, e)[j].dir = dir
                /\ Append(rows, e)[j].status \in {"COMPLETED", "REVERSED"}
                /\ Append(rows, e)[j].type \notin NotCounted)
               <=> IF j = n + 1 THEN e.dir = dir /\ e.type \notin NotCounted
                   ELSE /\ journal[w][j].dir = dir
                        /\ journal[w][j].status \in {"COMPLETED", "REVERSED"}
                        /\ journal[w][j].type \notin NotCounted
    BY <1>2, <1>3, <1>4, <2>2
  <2> DEFINE Counts(j) == /\ journal[w][j].dir = dir
                          /\ journal[w][j].status \in {"COMPLETED", "REVERSED"}
                          /\ journal[w][j].type \notin NotCounted
             CountsNow(j) == /\ Append(rows, e)[j].dir = dir
                             /\ Append(rows, e)[j].status \in {"COMPLETED", "REVERSED"}
                             /\ Append(rows, e)[j].type \notin NotCounted
             new == e.dir = dir /\ e.type \notin NotCounted
  <2>4. /\ S' = {<<w, i>> : i \in {j \in 1..(n + 1) : CountsNow(j)}}
        /\ S = {<<w, i>> : i \in {j \in 1..n : Counts(j)}}
    BY <1>6, <2>1
  <2>5. (\A j \in 1..n : CountsNow(j) <=> Counts(j)) /\ (CountsNow(n + 1) <=> new)
    BY <2>2, <2>3
  <2> HIDE DEF S, Counts, CountsNow, new
  <2>6. {j \in 1..(n + 1) : CountsNow(j)}
        = {j \in 1..n : Counts(j)} \cup IF new THEN {n + 1} ELSE {}
    BY <2>2, <2>5
  <2>7. S' = S \cup IF new THEN {k} ELSE {}
    BY <2>4, <2>6
  <2> QED BY <2>7 DEF new
<1>8. k \notin S
  BY <1>1, <1>6
<1>9. \A id \in S : AmountOf'[id] = AmountOf[id] /\ AmountOf[id] \in Nat
  <2> SUFFICES ASSUME NEW i \in 1..n, <<w, i>> \in S
               PROVE  AmountOf'[<<w, i>>] = AmountOf[<<w, i>>] /\ AmountOf[<<w, i>>] \in Nat
    BY <1>6
  <2>1. <<w, i>> \in TxnIds /\ Txn(<<w, i>>) = journal[w][i]
    BY <1>1 DEF TxnIds, Txn
  <2>2. i \in DOMAIN journal'[w] /\ journal'[w][i] = rows[i]
    BY <1>1, <1>2, <1>3
  <2>3. <<w, i>> \in TxnIds' /\ Txn(<<w, i>>)' = rows[i]
    BY <2>2 DEF TxnIds, Txn
  <2> QED BY <1>4, <2>1, <2>3 DEF AmountOf
<1>10. AmountOf'[k] = e.amount /\ e.amount \in Nat
  <2>1. n + 1 \in DOMAIN journal'[w] /\ journal'[w][n + 1] = e
    BY <1>1, <1>2, <1>3
  <2>2. k \in TxnIds' /\ Txn(k)' = e
    BY <2>1 DEF TxnIds, Txn
  <2> QED BY <1>2, <2>2 DEF AmountOf, EntryType
<1>11. IsFiniteSet(S)
  <2>1. S \subseteq {id \in TxnIds : id[1] = w}
    BY DEF Counted
  <2> QED BY <2>1, FewIds
<1>12. Total(AmountOf, S) \in Nat
  BY <1>9, <1>11, TotalType
<1>13. Total(AmountOf', S) = Total(AmountOf, S)
  BY <1>9, TotalSame
<1>14. Total(AmountOf', S') = Total(AmountOf, S)
         + IF e.dir = dir /\ e.type \notin NotCounted THEN e.amount ELSE 0
  <2>1. CASE e.dir = dir /\ e.type \notin NotCounted
    <3>1. Total(AmountOf', S \cup {k}) = Total(AmountOf', S) + AmountOf'[k]
      BY ZenonT(60), <1>8, <1>9, <1>10, <1>11, TotalAdd
    <3> QED BY <1>7, <1>10, <1>13, <2>1, <3>1
  <2>2. CASE ~(e.dir = dir /\ e.type \notin NotCounted)
    <3>1. S' = S
      BY <1>7, <2>2
    <3> QED BY <1>12, <1>13, <2>2, <3>1
  <2> QED BY <2>1, <2>2
<1> QED BY <1>12, <1>14

\* What a row adds to the sums is what it adds to the balance.
LEMMA ReconcileStep ==
  ASSUME TypeInv, TypeInv', Reconciled, [Next]_vars PROVE Reconciled'
<1> SUFFICES ASSUME NEW w \in Wallets
             PROVE  wallet'[w].available = ComputedBalance(w)'
  BY DEF Reconciled
<1> DEFINE credits == Total(AmountOf, Counted(w, "CREDIT"))
           debits == Total(AmountOf, Counted(w, "DEBIT"))
<1>1. wallet[w].available = credits - debits - wallet[w].held
  BY DEF Reconciled, ComputedBalance
<1>2. ComputedBalance(w)' = credits' - debits' - wallet'[w].held
  BY DEF ComputedBalance
<1>3. wallet[w] \in WalletType /\ wallet'[w] \in WalletType
  BY DEF TypeInv
<1>4. ASSUME NEW rows, NEW e, Grows(w, rows, e)
      PROVE  wallet'[w].available = ComputedBalance(w)'
  <2>1. /\ credits \in Nat /\ debits \in Nat
        /\ credits' = credits + IF e.dir = "CREDIT" /\ e.type \notin NotCounted THEN e.amount ELSE 0
        /\ debits' = debits + IF e.dir = "DEBIT" /\ e.type \notin NotCounted THEN e.amount ELSE 0
    BY <1>4, CountedGrows
  <2>2. /\ wallet'[w].available = IF e.dir = "CREDIT" THEN wallet[w].available + e.amount
                                  ELSE wallet[w].available - e.amount
        /\ IF e.type \in NotCounted
           THEN wallet'[w].available + wallet'[w].held = wallet[w].available + wallet[w].held
           ELSE wallet'[w].held = wallet[w].held
        /\ e.dir \in {"CREDIT", "DEBIT"} /\ e.amount \in Nat
    BY <1>4 DEF Grows, NotCounted, EntryType
  <2>3. /\ wallet[w].available \in Int /\ wallet[w].held \in Int
        /\ wallet'[w].available \in Int /\ wallet'[w].held \in Int
    BY <1>3 DEF WalletType
  <2> HIDE DEF credits, debits
  <2> QED BY <1>1, <1>2, <2>1, <2>2, <2>3
<1>5. CASE Rests(w) \/ UNCHANGED vars
  <2>1. journal'[w] = journal[w] /\ wallet'[w].available = wallet[w].available
        /\ wallet'[w].held = wallet[w].held
    BY <1>5 DEF Rests, vars
  <2>2. ASSUME NEW dir PROVE Total(AmountOf, Counted(w, dir))' = Total(AmountOf, Counted(w, dir))
    <3>1. Counted(w, dir)' = Counted(w, dir)
      BY <2>1, CountedAre
    <3>2. \A id \in Counted(w, dir) : AmountOf'[id] = AmountOf[id]
      <4> SUFFICES ASSUME NEW id \in Counted(w, dir) PROVE AmountOf'[id] = AmountOf[id]
        OBVIOUS
      <4>1. id \in TxnIds /\ id[1] = w
        BY DEF Counted
      <4>2. id \in TxnIds'
        BY <3>1 DEF Counted
      <4> QED BY <2>1, <4>1, <4>2 DEF AmountOf, Txn
    <3> QED BY <3>1, <3>2, TotalSame
  <2>3. credits' = credits /\ debits' = debits
    BY <2>2
  <2> HIDE DEF credits, debits
  <2> QED BY <1>1, <1>2, <2>1, <2>3
<1> QED BY <1>4, <1>5, EveryStep DEF StepOn

\* The reconciliation never finds a difference: the rows that count add up to
\* the cached balance, whatever was held, released, reversed, expired or merged.
THEOREM Reconciliation == Spec => []Reconciled
<1>1. Init => Reconciled
  <2> SUFFICES ASSUME Init, NEW w \in Wallets PROVE wallet[w].available = ComputedBalance(w)
    BY DEF Reconciled
  <2>1. wallet[w].available = 0 /\ wallet[w].held = 0 /\ TxnIds = {}
    BY DEF Init, TxnIds
  <2>2. Counted(w, "CREDIT") = {} /\ Counted(w, "DEBIT") = {}
    BY <2>1 DEF Counted
  <2> QED BY <2>1, <2>2, TotalEmpty DEF ComputedBalance
<1>2. TypeInv /\ TypeInv' /\ Reconciled /\ [Next]_vars => Reconciled'
  BY ReconcileStep
<1> QED BY <1>1, <1>2, Invariance, PTL DEF Spec

-----------------------------------------------------------------------------
(* No balance is negative, and the holds add up to what is held              *)

\* Every debit is covered when it posts, and what a wallet has changes by what
\* is counted as credited or debited.
Paid(v) ==
  /\ wallet[v].available >= 0 => wallet'[v].available >= 0
  /\ wallet'[v].available + wallet'[v].held - wallet'[v].credited + wallet'[v].debited
     = wallet[v].available + wallet[v].held - wallet[v].credited + wallet[v].debited

\* Points put on or covered points taken off a wallet.
LEMMA MovedPaid ==
  ASSUME TypeInv, NEW w \in Wallets, NEW amount \in Nat, NEW v \in Wallets,
         \/ wallet' = Deposited(w, amount)
         \/ wallet' = Withdrawn(w, amount) /\ Covers(w, amount)
  PROVE  Paid(v)
<1>1. wallet \in [Wallets -> WalletType] /\ wallet[v] \in WalletType
  BY DEF TypeInv
<1>2. CASE v = w
  BY <1>1, <1>2 DEF Deposited, Withdrawn, Covers, Paid, WalletType
<1>3. CASE v # w
  BY <1>1, <1>3 DEF Deposited, Withdrawn, Paid, WalletType
<1> QED BY <1>2, <1>3

\* The source of a merge gives all it has available, or had nothing.
LEMMA MergeOfSource ==
  ASSUME TypeInv, NEW source \in Wallets, NEW target \in Wallets, NEW keyOut, NEW keyIn,
         Merge(source, target, keyOut, keyIn)
  PROVE  /\ wallet'[source].held = wallet[source].held
         /\ wallet'[source].credited = wallet[source].credited
         /\ \/ /\ wallet'[source].available = 0
               /\ wallet'[source].debited = wallet[source].debited + wallet[source].available
            \/ /\ wallet'[source].available = wallet[source].available
               /\ wallet'[source].debited = wallet[source].debited
<1>1. wallet \in [Wallets -> WalletType] /\ wallet[source] \in WalletType /\ source # target
  BY DEF TypeInv, Merge
<1>2. CASE wallet[source].available > 0
  <2>1. wallet'[source] = [wallet[source] EXCEPT !.available = 0,
                                                 !.debited = @ + wallet[source].available,
                                                 !.status = "MERGED"]
    BY <1>1, <1>2 DEF Merge
  <2> QED BY <1>1, <2>1 DEF WalletType
<1>3. CASE ~(wallet[source].available > 0)
  <2>1. wallet'[source] = [wallet[source] EXCEPT !.status = "MERGED"]
    BY <1>1, <1>3 DEF Merge
  <2> QED BY <1>1, <2>1 DEF WalletType
<1> QED BY <1>2, <1>3

\* Every other wallet is given something, or nothing.
LEMMA MergeOfOthers ==
  ASSUME TypeInv, NEW source \in Wallets, NEW target \in Wallets, NEW keyOut, NEW keyIn,
         Merge(source, target, keyOut, keyIn), NEW v \in Wallets, v # source
  PROVE  /\ wallet'[v].held = wallet[v].held
         /\ wallet'[v].debited = wallet[v].debited
         /\ \E amount \in Nat : /\ wallet'[v].available = wallet[v].available + amount
                              /\ wallet'[v].credited = wallet[v].credited + amount
<1>1. /\ wallet \in [Wallets -> WalletType] /\ wallet[v] \in WalletType
      /\ wallet[source].available \in Int
  BY DEF TypeInv, WalletType
<1>2. ASSUME wallet'[v] = wallet[v]
      PROVE  /\ wallet'[v].held = wallet[v].held
             /\ wallet'[v].debited = wallet[v].debited
             /\ \E amount \in Nat : /\ wallet'[v].available = wallet[v].available + amount
                                  /\ wallet'[v].credited = wallet[v].credited + amount
  <2>1. 0 \in Nat /\ wallet'[v].available = wallet[v].available + 0
        /\ wallet'[v].credited = wallet[v].credited + 0
    BY <1>1, <1>2 DEF WalletType
  <2> QED BY <1>2, <2>1
<1>3. CASE wallet[source].available > 0 /\ v = target
  <2>1. wallet'[v] = [wallet[v] EXCEPT !.available = @ + wallet[source].available,
                                       !.credited = @ + wallet[source].available]
    BY <1>1, <1>3 DEF Merge
  <2>2. wallet[source].available \in Nat
    BY <1>1, <1>3
  <2> QED BY <1>1, <2>1, <2>2 DEF WalletType
<1>4. CASE wallet[source].available > 0 /\ v # target
  <2>1. wallet'[v] = wallet[v]
    BY <1>1, <1>4 DEF Merge
  <2> QED BY <1>2, <2>1
<1>5. CASE ~(wallet[source].available > 0)
  <2>1. wallet'[v] = wallet[v]
    BY <1>1, <1>5 DEF Merge
  <2> QED BY <1>2, <2>1
<1> QED BY <1>3, <1>4, <1>5

LEMMA EveryStepPaid == ASSUME TypeInv, [Next]_vars, NEW v \in Wallets PROVE Paid(v)
<1>1. wallet \in [Wallets -> WalletType] /\ wallet[v] \in WalletType
  BY DEF TypeInv
<1>2. ASSUME NEW w \in Wallets, NEW key \in Keys, NEW amount \in Amounts, NEW days \in ExpiryDays,
             Credit(w, key, amount, days)
      PROVE  Paid(v)
  BY <1>2, MovedPaid DEF Credit
<1>3. ASSUME NEW w \in Wallets, NEW key \in Keys, NEW amount \in Amounts, Debit(w, key, amount)
      PROVE  Paid(v)
  BY <1>3, MovedPaid DEF Debit
<1>4. ASSUME NEW w \in Wallets, NEW key \in Keys, NEW amount \in Amounts, Hold(w, key, amount)
      PROVE  Paid(v)
  <2>1. /\ wallet' = [wallet EXCEPT ![w].available = @ - amount, ![w].held = @ + amount]
        /\ wallet[w].available >= amount /\ amount \in Nat
    BY <1>4 DEF Hold, Covers
  <2> QED BY <1>1, <2>1 DEF Paid, WalletType
<1>5. ASSUME NEW id \in DOMAIN hold, NEW key \in Keys, Release(id, key)
      PROVE  Paid(v)
  <2>1. wallet' = [wallet EXCEPT ![id[1]].available = @ + hold[id].amount,
                                 ![id[1]].held = @ - hold[id].amount]
    BY <1>5 DEF Release
  <2>2. id[1] \in Wallets /\ hold[id].amount \in Nat
    BY TxnIdsAre DEF TypeInv, HoldType
  <2> QED BY <1>1, <2>1, <2>2 DEF Paid, WalletType
<1>6. ASSUME NEW id \in TxnIds, NEW key \in Keys, Reverse(id, key)
      PROVE  Paid(v)
  <2>1. id[1] \in Wallets /\ Txn(id).amount \in Nat /\ Txn(id).dir \in {"CREDIT", "DEBIT"}
    BY TxnTyped DEF TypeInv, EntryType
  <2>2. \/ wallet' = Deposited(id[1], Txn(id).amount)
        \/ wallet' = Withdrawn(id[1], Txn(id).amount) /\ Covers(id[1], Txn(id).amount)
    BY <1>6, <2>1 DEF Reverse, Opposite
  <2> QED BY <2>1, <2>2, MovedPaid
<1>7. ASSUME NEW w \in Wallets, NEW cutoff \in 0..MaxTime, NEW key \in Keys, Expire(w, cutoff, key)
      PROVE  Paid(v)
  <2>1. PICK amount \in 1..wallet[w].available : wallet' = Withdrawn(w, amount)
    BY <1>7 DEF Expire
  <2>2. wallet[w].available \in Int
    BY DEF TypeInv, WalletType
  <2>3. amount \in Nat /\ Covers(w, amount)
    BY <2>2 DEF Covers
  <2> QED BY <2>1, <2>3, MovedPaid
<1>8. ASSUME NEW source \in Wallets, NEW target \in Wallets, NEW keyOut \in Keys, NEW keyIn \in Keys,
             Merge(source, target, keyOut, keyIn)
      PROVE  Paid(v)
  <2>1. source # target /\ wallet[source] \in WalletType
    BY <1>8 DEF Merge, TypeInv
  <2>2. CASE v = source
    <3>1. /\ wallet'[v].held = wallet[v].held /\ wallet'[v].credited = wallet[v].credited
          /\ \/ /\ wallet'[v].available = 0
                /\ wallet'[v].debited = wallet[v].debited + wallet[v].available
             \/ /\ wallet'[v].available = wallet[v].available
                /\ wallet'[v].debited = wallet[v].debited
      BY <1>8, <2>1, <2>2, MergeOfSource
    <3> QED BY <1>1, <3>1 DEF Paid, WalletType
  <2>3. CASE v # source
    <3>1. /\ wallet'[v].held = wallet[v].held /\ wallet'[v].debited = wallet[v].debited
          /\ \E amount \in Nat : /\ wallet'[v].available = wallet[v].available + amount
                               /\ wallet'[v].credited = wallet[v].credited + amount
      BY <1>8, <2>1, <2>3, MergeOfOthers
    <3> QED BY <1>1, <3>1 DEF Paid, WalletType
  <2> QED BY <2>2, <2>3
<1>9. CASE Tick \/ UNCHANGED vars
  <2>1. wallet' = wallet
    BY <1>9 DEF Tick, vars
  <2> QED BY <1>1, <2>1 DEF Paid, WalletType
<1> QED BY <1>2, <1>3, <1>4, <1>5, <1>6, <1>7, <1>8, <1>9 DEF Next

HoldAmount == [id \in DOMAIN hold |-> hold[id].amount]
HeldHolds(w) == {id \in DOMAIN hold : id[1] = w /\ hold[id].status = "HELD"}

\* What a wallet holds is its holds not yet released.
HoldsAddUp(v) == wallet[v].held = Total(HoldAmount, HeldHolds(v))

LEMMA HeldFew ==
  ASSUME TypeInv, NEW v \in Wallets
  PROVE  /\ IsFiniteSet(HeldHolds(v))
         /\ \A id \in DOMAIN hold : HoldAmount[id] = hold[id].amount /\ hold[id].amount \in Nat
         /\ HeldHolds(v) \subseteq DOMAIN hold
<1>1. HeldHolds(v) \subseteq {id \in TxnIds : id[1] = v}
  BY DEF HeldHolds, TypeInv
<1>2. \A id \in DOMAIN hold : hold[id] \in HoldType
  BY DEF TypeInv
<1> QED BY <1>1, <1>2, FewIds DEF HeldHolds, HoldAmount, HoldType

\* Neither the holds nor what is held changed on this wallet.
LEMMA HoldsRest ==
  ASSUME TypeInv, NEW v \in Wallets, HoldsAddUp(v), wallet'[v].held = wallet[v].held,
         HeldHolds(v)' = HeldHolds(v),
         \A id \in HeldHolds(v) : id \in DOMAIN hold' /\ hold'[id].amount = hold[id].amount
  PROVE  HoldsAddUp(v)'
<1>1. \A id \in HeldHolds(v) : HoldAmount'[id] = HoldAmount[id]
  BY HeldFew DEF HoldAmount
<1>2. Total(HoldAmount', HeldHolds(v)) = Total(HoldAmount, HeldHolds(v))
  BY <1>1, TotalSame
<1> QED BY <1>2 DEF HoldsAddUp

LEMMA HoldHolds ==
  ASSUME TypeInv, NEW w \in Wallets, NEW key \in Keys, NEW amount \in Amounts,
         Hold(w, key, amount), NEW v \in Wallets, HoldsAddUp(v)
  PROVE  HoldsAddUp(v)'
<1>1. PICK k : k = <<w, Len(journal[w]) + 1>>
  OBVIOUS
<1>2. k \notin DOMAIN hold
  <2>1. journal[w] \in Seq(EntryType) /\ Len(journal[w]) + 1 \notin 1..Len(journal[w])
    BY DEF TypeInv
  <2>2. k \notin TxnIds
    BY <1>1, <2>1, TxnIdsAre DEF TypeInv
  <2> QED BY <2>2 DEF TypeInv
<1>3. hold' = [id \in DOMAIN hold \cup {k} |->
                 IF id \in DOMAIN hold THEN hold[id] ELSE [amount |-> amount, status |-> "HELD"]]
  BY <1>1 DEF Hold
<1>4. wallet' = [wallet EXCEPT ![w].available = @ - amount, ![w].held = @ + amount]
  BY DEF Hold
<1>5. wallet \in [Wallets -> WalletType] /\ wallet[v] \in WalletType /\ amount \in Nat
  BY DEF TypeInv
<1>6. CASE v = w
  <2>1. HeldHolds(v)' = HeldHolds(v) \cup {k} /\ k \notin HeldHolds(v)
    BY <1>1, <1>2, <1>3, <1>6 DEF HeldHolds
  <2>2. HoldAmount'[k] = amount /\ \A id \in HeldHolds(v) : HoldAmount'[id] = HoldAmount[id]
    BY <1>2, <1>3 DEF HoldAmount, HeldHolds
  <2>3. Total(HoldAmount', HeldHolds(v)) = Total(HoldAmount, HeldHolds(v))
    BY <2>2, TotalSame
  <2>4. Total(HoldAmount', HeldHolds(v) \cup {k}) = Total(HoldAmount', HeldHolds(v)) + HoldAmount'[k]
    <3>1. IsFiniteSet(HeldHolds(v)) /\ \A id \in HeldHolds(v) : HoldAmount[id] \in Nat
      BY HeldFew
    <3> QED BY <1>5, <2>1, <2>2, <3>1, TotalAdd
  <2>5. wallet'[v].held = wallet[v].held + amount
    BY <1>4, <1>5, <1>6 DEF WalletType
  <2> QED BY <2>1, <2>2, <2>3, <2>4, <2>5 DEF HoldsAddUp
<1>7. CASE v # w
  <2>1. HeldHolds(v)' = HeldHolds(v)
    BY <1>1, <1>2, <1>3, <1>7 DEF HeldHolds
  <2>2. wallet'[v].held = wallet[v].held
    BY <1>4, <1>5, <1>7
  <2> QED BY <1>3, <2>1, <2>2, HoldsRest, HeldFew
<1> QED BY <1>6, <1>7

LEMMA ReleaseHolds ==
  ASSUME TypeInv, NEW id \in DOMAIN hold, NEW key \in Keys, Release(id, key),
         NEW v \in Wallets, HoldsAddUp(v)
  PROVE  HoldsAddUp(v)'
<1>1. /\ hold' = [hold EXCEPT ![id].status = "RELEASED"] /\ hold[id].status = "HELD"
      /\ wallet' = [wallet EXCEPT ![id[1]].available = @ + hold[id].amount,
                                  ![id[1]].held = @ - hold[id].amount]
  BY DEF Release, Releasable
<1>2. /\ wallet \in [Wallets -> WalletType] /\ wallet[v] \in WalletType
      /\ id[1] \in Wallets /\ hold \in [DOMAIN hold -> HoldType]
  BY TxnIdsAre DEF TypeInv
<1>3. DOMAIN hold' = DOMAIN hold /\ \A x \in DOMAIN hold : hold'[x].amount = hold[x].amount
  BY <1>1, <1>2 DEF HoldType
<1>4. \A x \in DOMAIN hold : hold'[x].status = IF x = id THEN "RELEASED" ELSE hold[x].status
  BY <1>1, <1>2 DEF HoldType
<1>5. CASE v = id[1]
  <2>1. HeldHolds(v)' = HeldHolds(v) \ {id} /\ id \in HeldHolds(v)
    BY <1>1, <1>3, <1>4, <1>5 DEF HeldHolds
  <2>2. \A x \in HeldHolds(v) \ {id} : HoldAmount'[x] = HoldAmount[x]
    BY <1>3 DEF HoldAmount, HeldHolds
  <2>3. Total(HoldAmount', HeldHolds(v) \ {id}) = Total(HoldAmount, HeldHolds(v) \ {id})
    BY <2>2, TotalSame
  <2>4. Total(HoldAmount, HeldHolds(v) \ {id}) = Total(HoldAmount, HeldHolds(v)) - HoldAmount[id]
    BY <2>1, HeldFew, TotalRemove
  <2>5. wallet'[v].held = wallet[v].held - hold[id].amount /\ HoldAmount[id] = hold[id].amount
    BY <1>1, <1>2, <1>5 DEF WalletType, HoldAmount
  <2> QED BY <2>1, <2>3, <2>4, <2>5 DEF HoldsAddUp
<1>6. CASE v # id[1]
  <2>1. HeldHolds(v)' = HeldHolds(v)
    BY <1>3, <1>4, <1>6 DEF HeldHolds
  <2>2. wallet'[v].held = wallet[v].held
    BY <1>1, <1>2, <1>6
  <2> QED BY <1>3, <2>1, <2>2, HoldsRest, HeldFew
<1> QED BY <1>5, <1>6

LEMMA EveryStepHolds ==
  ASSUME TypeInv, [Next]_vars, NEW v \in Wallets, HoldsAddUp(v)
  PROVE  HoldsAddUp(v)'
<1>1. wallet \in [Wallets -> WalletType] /\ wallet[v] \in WalletType
  BY DEF TypeInv
<1>2. ASSUME hold' = hold, wallet'[v].held = wallet[v].held PROVE HoldsAddUp(v)'
  BY <1>2 DEF HoldsAddUp, HoldAmount, HeldHolds
<1>3. ASSUME NEW w \in Wallets, NEW amount,
             wallet' = Deposited(w, amount) \/ wallet' = Withdrawn(w, amount)
      PROVE  wallet'[v].held = wallet[v].held
  BY <1>1, <1>3 DEF Deposited, Withdrawn, WalletType
<1>4. ASSUME NEW w \in Wallets, NEW key \in Keys, NEW amount \in Amounts, NEW days \in ExpiryDays,
             Credit(w, key, amount, days)
      PROVE  HoldsAddUp(v)'
  BY <1>2, <1>3, <1>4 DEF Credit
<1>5. ASSUME NEW w \in Wallets, NEW key \in Keys, NEW amount \in Amounts, Debit(w, key, amount)
      PROVE  HoldsAddUp(v)'
  BY <1>2, <1>3, <1>5 DEF Debit
<1>6. ASSUME NEW id \in TxnIds, NEW key \in Keys, Reverse(id, key)
      PROVE  HoldsAddUp(v)'
  <2>1. id[1] \in Wallets
    BY TxnTyped DEF TypeInv
  <2>2. /\ hold' = hold
        /\ \/ wallet' = Deposited(id[1], Txn(id).amount)
           \/ wallet' = Withdrawn(id[1], Txn(id).amount)
    BY <1>6 DEF Reverse
  <2> QED BY <1>2, <1>3, <2>1, <2>2
<1>7. ASSUME NEW w \in Wallets, NEW cutoff \in 0..MaxTime, NEW key \in Keys, Expire(w, cutoff, key)
      PROVE  HoldsAddUp(v)'
  <2>1. hold' = hold /\ \E amount : wallet' = Withdrawn(w, amount)
    BY <1>7 DEF Expire
  <2> QED BY <1>2, <1>3, <2>1
<1>8. ASSUME NEW source \in Wallets, NEW target \in Wallets, NEW keyOut \in Keys, NEW keyIn \in Keys,
             Merge(source, target, keyOut, keyIn)
      PROVE  HoldsAddUp(v)'
  <2>1. hold' = hold
    BY <1>8 DEF Merge
  <2>2. wallet'[v].held = wallet[v].held
    BY <1>8, MergeOfSource, MergeOfOthers
  <2> QED BY <1>2, <2>1, <2>2
<1>9. CASE Tick \/ UNCHANGED vars
  BY <1>2, <1>9 DEF Tick, vars
<1> QED BY <1>4, <1>5, <1>6, <1>7, <1>8, <1>9, HoldHolds, ReleaseHolds DEF Next

\* The inductive form of BalancesSound.
BalancesInv ==
  \A w \in Wallets :
    /\ wallet[w].available >= 0
    /\ wallet[w].available + wallet[w].held - wallet[w].credited + wallet[w].debited = 0
    /\ HoldsAddUp(w)

LEMMA BalancesAre == ASSUME TypeInv PROVE BalancesInv <=> BalancesSound
<1>1. ASSUME NEW w \in Wallets
      PROVE  /\ wallet[w].available \in Int /\ wallet[w].held \in Int
             /\ wallet[w].credited \in Int /\ wallet[w].debited \in Int
             /\ Total(HoldAmount, HeldHolds(w)) >= 0
  <2>1. wallet[w] \in WalletType
    BY DEF TypeInv
  <2>2. Total(HoldAmount, HeldHolds(w)) \in Nat
    BY HeldFew, TotalType
  <2> QED BY <2>1, <2>2 DEF WalletType
<1>2. BalancesSound <=>
        \A w \in Wallets :
          /\ wallet[w].available >= 0 /\ wallet[w].held >= 0
          /\ wallet[w].available + wallet[w].held = wallet[w].credited - wallet[w].debited
          /\ wallet[w].held = Total(HoldAmount, HeldHolds(w))
  BY DEF BalancesSound, HoldAmount, HeldHolds
<1> QED BY <1>1, <1>2 DEF BalancesInv, HoldsAddUp

LEMMA BalancesStep == ASSUME TypeInv, BalancesInv, [Next]_vars PROVE BalancesInv'
<1> SUFFICES ASSUME NEW w \in Wallets
             PROVE  /\ wallet'[w].available >= 0
                    /\ wallet'[w].available + wallet'[w].held - wallet'[w].credited
                       + wallet'[w].debited = 0
                    /\ HoldsAddUp(w)'
  BY DEF BalancesInv
<1>1. Paid(w) /\ HoldsAddUp(w)
  BY EveryStepPaid DEF BalancesInv
<1>2. HoldsAddUp(w)'
  BY <1>1, EveryStepHolds
<1> QED BY <1>1, <1>2 DEF Paid, BalancesInv

\* No wallet's available or held balance is ever negative (ledger-rules.md,
\* rule 4), and what is held is what the holds not yet released add up to.
THEOREM Balances == Spec => []BalancesSound
<1>1. Init => BalancesInv
  <2> SUFFICES ASSUME Init, NEW w \in Wallets
               PROVE  /\ wallet[w].available = 0 /\ wallet[w].held = 0
                      /\ wallet[w].credited = 0 /\ wallet[w].debited = 0
                      /\ HoldsAddUp(w)
    BY DEF BalancesInv
  <2>1. wallet[w] = [status |-> "ACTIVE", available |-> 0, held |-> 0, credited |-> 0, debited |-> 0]
    BY DEF Init
  <2>2. HeldHolds(w) = {}
    BY DEF Init, HeldHolds
  <2> QED BY <2>1, <2>2, TotalEmpty DEF HoldsAddUp
<1>2. TypeInv /\ BalancesInv /\ [Next]_vars => BalancesInv'
  BY BalancesStep
<1>3. TypeInv /\ BalancesInv => BalancesSound
  BY BalancesAre
<1> QED BY <1>1, <1>2, <1>3, Invariance, PTL DEF Spec

-----------------------------------------------------------------------------
(* Nothing is undone twice                                                   *)

\* The rows of that type that refer to id: its reversals, releases, expiries.
Undoers(type, id) == {r \in TxnIds : Txn(r).type = type /\ id \in Txn(r).refs}

\* A row refers to rows that were there before it, of its own wallet.
Referred == \A r \in TxnIds : Txn(r).refs \subseteq TxnIds /\ \A x \in Txn(r).refs : x[1] = r[1]

NewIds == TxnIds' \ TxnIds

\* What every step leaves of the rows there were, and what its own are like.
NewRows ==
  /\ TxnIds \subseteq TxnIds'
  /\ \A id \in TxnIds :
       /\ Txn(id)'.type = Txn(id).type /\ Txn(id)'.refs = Txn(id).refs
       /\ Txn(id)'.amount = Txn(id).amount /\ Txn(id)'.dir = Txn(id).dir
  /\ \A k \in NewIds :
       /\ Txn(k)'.status # "REVERSED"
       /\ Txn(k)'.refs \subseteq TxnIds /\ \A x \in Txn(k)'.refs : x[1] = k[1]

LEMMA ReferredKept == ASSUME Referred, NewRows PROVE Referred'
BY DEF Referred, NewRows, NewIds

LEMMA UndoersGrow ==
  ASSUME Referred, NewRows, NEW type, NEW id
  PROVE  /\ Undoers(type, id)' = Undoers(type, id)
              \cup {k \in NewIds : Txn(k)'.type = type /\ id \in Txn(k)'.refs}
         /\ id \notin TxnIds => Undoers(type, id)' = {}
<1>1. Undoers(type, id)' = {r \in TxnIds' : Txn(r)'.type = type /\ id \in Txn(r)'.refs}
  BY DEF Undoers
<1>2. \A r \in TxnIds' : r \in TxnIds \/ r \in NewIds
  BY DEF NewIds
<1>3. \A r \in TxnIds : Txn(r)'.type = Txn(r).type /\ Txn(r)'.refs = Txn(r).refs /\ r \in TxnIds'
  BY DEF NewRows
<1>4. \A r \in NewIds : r \in TxnIds'
  BY DEF NewIds
<1>5. \A r : r \in Undoers(type, id)' <=>
               \/ r \in Undoers(type, id)
               \/ r \in NewIds /\ Txn(r)'.type = type /\ id \in Txn(r)'.refs
  BY <1>1, <1>2, <1>3, <1>4 DEF Undoers
<1>6. ASSUME id \notin TxnIds PROVE Undoers(type, id)' = {}
  <2>1. \A r \in TxnIds' : Txn(r)'.refs \subseteq TxnIds
    BY <1>2, <1>3 DEF Referred, NewRows
  <2> QED BY <1>1, <1>6, <2>1
<1> QED BY <1>5, <1>6

\* A step that posts no row of that type that refers to id.
LEMMA UndoersRest ==
  ASSUME Referred, NewRows, NEW type, NEW id,
         \A k \in NewIds : Txn(k)'.type # type \/ id \notin Txn(k)'.refs
  PROVE  Undoers(type, id)' = Undoers(type, id)
BY UndoersGrow

\* ReversedOnce, ReleasedOnce and the first part of LotEndsOnce, of one row,
\* hold or lot.
ReversalOf(id) ==
  /\ Txn(id).status = "REVERSED" <=> Undoers("REVERSAL", id) # {}
  /\ \A r, s \in Undoers("REVERSAL", id) : r = s
  /\ \A r \in Undoers("REVERSAL", id) : /\ r[1] = id[1]
                                        /\ Txn(r).amount = Txn(id).amount
                                        /\ Txn(r).dir = Opposite(Txn(id).dir)

ReleaseOf(id) ==
  /\ hold[id].status = "RELEASED" <=> Undoers("RELEASE", id) # {}
  /\ \A r, s \in Undoers("RELEASE", id) : r = s
  /\ \A r \in Undoers("RELEASE", id) : r[1] = id[1] /\ Txn(r).amount = hold[id].amount

EndOf(id) ==
  /\ lot[id].state = "EXPIRED" <=> Undoers("EXPIRATION", id) # {}
  /\ \A e, f \in Undoers("EXPIRATION", id) : e = f
  /\ lot[id].state = "EXPIRED" => lot[id].expiresAt <= now
  /\ lot[id].state # "OPEN" => lot[id].remaining = 0
  /\ Txn(id).status = "REVERSED" => lot[id].state # "OPEN"

\* A lot is of its grant and has no more left than was granted.
LotOf(id) ==
  /\ lot[id].amount = Txn(id).amount /\ Txn(id).dir = "CREDIT"
  /\ lot[id].remaining <= lot[id].amount

CoveredExpiry(e) == Txn(e).type = "EXPIRATION" => Txn(e).amount <= Total(AmountOf, Txn(e).refs)

EndInv ==
  /\ Referred
  /\ \A id \in TxnIds : ReversalOf(id) /\ CoveredExpiry(id)
  /\ \A id \in DOMAIN hold : ReleaseOf(id)
  /\ \A id \in DOMAIN lot : EndOf(id) /\ LotOf(id)

LEMMA EndInvSuffices == ASSUME EndInv PROVE EndedOnce
<1>1. ReversedOnce
  BY DEF EndInv, ReversedOnce, ReversalOf, Undoers
<1>2. ReleasedOnce
  BY DEF EndInv, ReleasedOnce, ReleaseOf, Undoers
<1>3. LotEndsOnce
  BY DEF EndInv, LotEndsOnce, EndOf, CoveredExpiry, Undoers
<1> QED BY <1>1, <1>2, <1>3 DEF EndedOnce

\* Steps that reverse nothing.
LEMMA ReversalsRest ==
  ASSUME EndInv, NewRows, \A k \in NewIds : Txn(k)'.type # "REVERSAL",
         \A id \in TxnIds : Txn(id)'.status = Txn(id).status
  PROVE  \A id \in TxnIds' : ReversalOf(id)'
<1>1. ASSUME NEW id \in TxnIds PROVE ReversalOf(id)'
  <2>1. Undoers("REVERSAL", id)' = Undoers("REVERSAL", id) /\ ReversalOf(id)
    BY UndoersRest DEF EndInv
  <2>2. Undoers("REVERSAL", id) \subseteq TxnIds
    BY DEF Undoers
  <2>3. \A r \in TxnIds : Txn(r)'.amount = Txn(r).amount /\ Txn(r)'.dir = Txn(r).dir
    BY DEF NewRows
  <2> QED BY <2>1, <2>2, <2>3 DEF ReversalOf
<1>2. ASSUME NEW id \in NewIds PROVE ReversalOf(id)'
  <2>1. Undoers("REVERSAL", id)' = {}
    BY <1>2, UndoersGrow DEF NewIds, EndInv
  <2> QED BY <1>2, <2>1 DEF ReversalOf, NewRows
<1> QED BY <1>1, <1>2 DEF NewIds

\* Steps that release nothing: they leave the holds, or add one.
LEMMA ReleasesRest ==
  ASSUME EndInv, NewRows, \A k \in NewIds : Txn(k)'.type # "RELEASE",
         DOMAIN hold' \subseteq DOMAIN hold \cup NewIds, DOMAIN hold \subseteq TxnIds,
         \A id \in DOMAIN hold : hold'[id] = hold[id],
         \A id \in DOMAIN hold' : id \notin DOMAIN hold => hold'[id].status = "HELD"
  PROVE  \A id \in DOMAIN hold' : ReleaseOf(id)'
<1> SUFFICES ASSUME NEW id \in DOMAIN hold' PROVE ReleaseOf(id)'
  OBVIOUS
<1>1. CASE id \in DOMAIN hold
  <2>1. Undoers("RELEASE", id)' = Undoers("RELEASE", id) /\ ReleaseOf(id)
    BY <1>1, UndoersRest DEF EndInv
  <2>2. Undoers("RELEASE", id) \subseteq TxnIds
    BY DEF Undoers
  <2>3. \A r \in TxnIds : Txn(r)'.amount = Txn(r).amount
    BY DEF NewRows
  <2> QED BY <1>1, <2>1, <2>2, <2>3 DEF ReleaseOf
<1>2. CASE id \notin DOMAIN hold
  <2>1. Undoers("RELEASE", id)' = {}
    BY <1>2, UndoersGrow DEF NewIds, EndInv
  <2> QED BY <1>2, <2>1 DEF ReleaseOf
<1> QED BY <1>1, <1>2

\* What a step other than an expiry may do to a lot.
LotRests(id) ==
  /\ lot'[id].amount = lot[id].amount /\ lot'[id].expiresAt = lot[id].expiresAt
  /\ lot'[id].remaining <= lot[id].remaining
  /\ \/ lot'[id].state = lot[id].state /\ Txn(id)'.status = Txn(id).status
     \/ lot'[id].state = lot[id].state /\ lot[id].state # "OPEN"
     \/ lot[id].state = "OPEN" /\ lot'[id].state = "VOIDED" /\ lot'[id].remaining = 0

\* A lot a grant adds.
LotAdded(id) ==
  /\ lot'[id].amount = Txn(id)'.amount /\ Txn(id)'.dir = "CREDIT"
  /\ lot'[id].remaining = lot'[id].amount /\ lot'[id].state = "OPEN"

LEMMA LotsRest ==
  ASSUME TypeInv, TypeInv', EndInv, NewRows, \A k \in NewIds : Txn(k)'.type # "EXPIRATION",
         DOMAIN lot' \subseteq DOMAIN lot \cup NewIds, now <= now',
         \A id \in DOMAIN lot : LotRests(id),
         \A id \in DOMAIN lot' : id \notin DOMAIN lot => LotAdded(id)
  PROVE  \A id \in DOMAIN lot' : EndOf(id)' /\ LotOf(id)'
<1> SUFFICES ASSUME NEW id \in DOMAIN lot' PROVE EndOf(id)' /\ LotOf(id)'
  OBVIOUS
<1>1. lot'[id] \in LotType /\ now \in Int /\ now' \in Int
  BY DEF TypeInv
<1>2. CASE id \in DOMAIN lot
  <2>1. Undoers("EXPIRATION", id)' = Undoers("EXPIRATION", id)
    BY UndoersRest DEF EndInv
  <2>2. EndOf(id) /\ LotOf(id) /\ LotRests(id) /\ lot[id] \in LotType /\ id \in TxnIds
    BY <1>2 DEF EndInv, TypeInv
  <2>3. Txn(id)'.amount = Txn(id).amount /\ Txn(id)'.dir = Txn(id).dir
    BY <2>2 DEF NewRows
  <2>4. LotOf(id)'
    BY <1>1, <2>2, <2>3 DEF LotOf, LotRests, LotType
  <2>5. EndOf(id)'
    BY <1>1, <2>1, <2>2 DEF EndOf, LotRests, LotType
  <2> QED BY <2>4, <2>5
<1>3. CASE id \notin DOMAIN lot
  <2>1. id \in NewIds /\ LotAdded(id)
    BY <1>3
  <2>2. Undoers("EXPIRATION", id)' = {}
    BY <2>1, UndoersGrow DEF NewIds, EndInv
  <2>3. Txn(id)'.status # "REVERSED"
    BY <2>1 DEF NewRows
  <2>4. LotOf(id)'
    BY <1>1, <2>1 DEF LotOf, LotAdded, LotType
  <2>5. EndOf(id)'
    BY <1>1, <2>1, <2>2, <2>3 DEF EndOf, LotAdded
  <2> QED BY <2>4, <2>5
<1> QED BY <1>2, <1>3

\* An expiry already posted stays covered.
LEMMA ExpiriesRest ==
  ASSUME EndInv, NewRows, \A k \in NewIds : Txn(k)'.type # "EXPIRATION"
  PROVE  \A e \in TxnIds' : CoveredExpiry(e)'
<1>1. ASSUME NEW e \in TxnIds PROVE CoveredExpiry(e)'
  <2>1. Txn(e).refs \subseteq TxnIds /\ CoveredExpiry(e)
    BY DEF EndInv, Referred
  <2>2. \A x \in Txn(e).refs : AmountOf'[x] = AmountOf[x]
    BY <2>1 DEF NewRows, AmountOf
  <2>3. Total(AmountOf', Txn(e).refs) = Total(AmountOf, Txn(e).refs)
    BY <2>2, TotalSame
  <2>4. Txn(e)'.type = Txn(e).type /\ Txn(e)'.refs = Txn(e).refs /\ Txn(e)'.amount = Txn(e).amount
    BY DEF NewRows
  <2> QED BY <2>1, <2>3, <2>4 DEF CoveredExpiry
<1>2. ASSUME NEW e \in NewIds PROVE CoveredExpiry(e)'
  BY <1>2 DEF CoveredExpiry
<1> QED BY <1>1, <1>2 DEF NewIds

\* The step adds the row e as k and changes no other.
Adds(k, e) ==
  /\ NewRows /\ NewIds = {k} /\ k \notin TxnIds
  /\ \A id \in TxnIds : Txn(id)' = Txn(id)
  /\ Txn(k)' = e

\* A plain posting adds its row and changes no other.
LEMMA PostedRows ==
  ASSUME TypeInv, NEW w \in Wallets, NEW key \in Keys, NEW type \in TxnTypes,
         NEW dir \in {"CREDIT", "DEBIT"}, NEW status \in {"COMPLETED", "HELD"},
         NEW amount \in Nat \ {0}, NEW refs \in SUBSET TxnIds, \A x \in refs : x[1] = w,
         journal' = [journal EXCEPT ![w] = Posted(w, key, type, dir, status, amount, refs)],
         NEW k, k = <<w, Len(journal[w]) + 1>>
  PROVE  Adds(k, Entry(key, type, dir, status, amount, wallet[w].available, refs))
<1>1. refs \in SUBSET (Wallets \X Nat)
  BY TxnIdsAre DEF TypeInv
<1>2. PICK s, e : /\ s = journal[w]
                 /\ e = Entry(key, type, dir, status, amount, wallet[w].available, refs)
  OBVIOUS
<1>3. e \in EntryType /\ s \in Seq(EntryType) /\ Len(s) = Len(journal[w])
  BY <1>1, <1>2, PostedTyped
<1>4. journal' = [journal EXCEPT ![w] = Append(s, e)] /\ journal \in [Wallets -> Seq(EntryType)]
  BY <1>2 DEF Posted, TypeInv
<1>5. TxnIds' = TxnIds \cup {k} /\ k \notin TxnIds
  <2>1. TxnIds' = TxnIds \cup {k}
    BY <1>3, <1>4, OnePosted
  <2>2. k \notin TxnIds
    BY <1>3, <1>4, OnePosted
  <2> QED BY <2>1, <2>2
<1>6. \A id \in TxnIds : Txn(id)' = Txn(id)
  <2>1. \A id \in TxnIds : Txn(id)' = IF id[1] = w THEN s[id[2]] ELSE Txn(id)
    BY ZenonT(60), <1>3, <1>4, OnePosted
  <2> QED BY <1>2, <2>1 DEF Txn
<1>7. Txn(k)' = e
  <2>1. journal'[w] = Append(s, e) /\ Append(s, e)[Len(journal[w]) + 1] = e
    BY <1>3, <1>4
  <2> QED BY <2>1 DEF Txn
<1>8. Txn(k)'.status = status /\ Txn(k)'.refs = refs
  BY <1>2, <1>7 DEF Entry
<1>9. NewIds = {k}
  BY <1>5 DEF NewIds
<1>10. NewRows
  BY <1>5, <1>6, <1>8, <1>9 DEF NewRows
<1> QED BY <1>2, <1>5, <1>6, <1>7, <1>9, <1>10 DEF Adds

\* Steps that only leave what the lemmas above ask for.
Untouched ==
  /\ NewRows
  /\ \A id \in TxnIds : Txn(id)'.status = Txn(id).status
  /\ \A k \in NewIds : Txn(k)'.type \notin {"REVERSAL", "RELEASE", "EXPIRATION"}

LEMMA UntouchedEnds ==
  ASSUME TypeInv, TypeInv', EndInv, Untouched,
         DOMAIN hold' \subseteq DOMAIN hold \cup NewIds,
         \A id \in DOMAIN hold : hold'[id] = hold[id],
         \A id \in DOMAIN hold' : id \notin DOMAIN hold => hold'[id].status = "HELD",
         DOMAIN lot' \subseteq DOMAIN lot \cup NewIds, now <= now',
         \A id \in DOMAIN lot : LotRests(id),
         \A id \in DOMAIN lot' : id \notin DOMAIN lot => LotAdded(id)
  PROVE  EndInv'
<1>1. /\ NewRows /\ \A id \in TxnIds : Txn(id)'.status = Txn(id).status
      /\ \A k \in NewIds : Txn(k)'.type # "REVERSAL"
      /\ \A k \in NewIds : Txn(k)'.type # "RELEASE"
      /\ \A k \in NewIds : Txn(k)'.type # "EXPIRATION"
  BY DEF Untouched
<1>2. Referred'
  BY <1>1, ReferredKept DEF EndInv
<1>3. \A id \in TxnIds' : ReversalOf(id)'
  BY <1>1, ReversalsRest
<1>4. \A id \in TxnIds' : CoveredExpiry(id)'
  BY <1>1, ExpiriesRest
<1>5. \A id \in DOMAIN hold' : ReleaseOf(id)'
  BY <1>1, ReleasesRest DEF TypeInv
<1>6. \A id \in DOMAIN lot' : EndOf(id)' /\ LotOf(id)'
  BY <1>1, LotsRest
<1> QED BY <1>2, <1>3, <1>4, <1>5, <1>6 DEF EndInv

\* A lot that is not touched at all rests.
LEMMA LotSame ==
  ASSUME TypeInv, NEW id \in DOMAIN lot, lot'[id] = lot[id], Txn(id)'.status = Txn(id).status
  PROVE  LotRests(id)
<1>1. lot[id].remaining \in Nat
  BY DEF TypeInv, LotType
<1> QED BY <1>1 DEF LotRests

LEMMA CreditEnds ==
  ASSUME TypeInv, TypeInv', EndInv, NEW w \in Wallets, NEW key \in Keys, NEW amount \in Amounts,
         NEW days \in ExpiryDays, Credit(w, key, amount, days)
  PROVE  EndInv'
<1>1. PICK k : k = <<w, Len(journal[w]) + 1>>
  OBVIOUS
<1>2. /\ journal' = [journal EXCEPT ![w] = Posted(w, key, "GRANT", "CREDIT", "COMPLETED", amount, {})]
      /\ hold' = hold /\ now' = now
      /\ lot' = IF days = 0 THEN lot
                ELSE [id \in DOMAIN lot \cup {k} |->
                        IF id \in DOMAIN lot THEN lot[id]
                        ELSE [amount |-> amount, remaining |-> amount,
                              expiresAt |-> now + days, state |-> "OPEN"]]
  BY <1>1 DEF Credit
<1>3. "GRANT" \in TxnTypes /\ amount \in Nat \ {0} /\ {} \in SUBSET TxnIds /\ now \in Int
  BY DEF TxnTypes, TypeInv
<1>4. /\ NewRows /\ NewIds = {k} /\ k \notin TxnIds
      /\ \A id \in TxnIds : Txn(id)' = Txn(id)
      /\ Txn(k)' = Entry(key, "GRANT", "CREDIT", "COMPLETED", amount, wallet[w].available, {})
  <2>1. Adds(k, Entry(key, "GRANT", "CREDIT", "COMPLETED", amount, wallet[w].available, {}))
    BY <1>1, <1>2, <1>3, PostedRows
  <2> QED BY <2>1 DEF Adds
<1>5. Txn(k)'.type = "GRANT" /\ Txn(k)'.dir = "CREDIT" /\ Txn(k)'.amount = amount
  BY <1>4 DEF Entry
<1>6. Untouched
  BY <1>4, <1>5 DEF Untouched
<1>7. \A id \in DOMAIN lot : LotRests(id)
  BY <1>2, <1>4, LotSame DEF TypeInv
<1>8. \A id \in DOMAIN lot' : id \notin DOMAIN lot => id = k /\ LotAdded(id)
  BY <1>2, <1>5 DEF LotAdded
<1> QED BY <1>2, <1>3, <1>4, <1>6, <1>7, <1>8, UntouchedEnds

LEMMA DebitEnds ==
  ASSUME TypeInv, TypeInv', EndInv, NEW w \in Wallets, NEW key \in Keys, NEW amount \in Amounts,
         Debit(w, key, amount)
  PROVE  EndInv'
<1>1. PICK k : k = <<w, Len(journal[w]) + 1>>
  OBVIOUS
<1>2. /\ journal' = [journal EXCEPT ![w] = Posted(w, key, "USE", "DEBIT", "COMPLETED", amount, {})]
      /\ hold' = hold /\ now' = now
  BY DEF Debit
<1>3. "USE" \in TxnTypes /\ amount \in Nat \ {0} /\ {} \in SUBSET TxnIds /\ now \in Int
  BY DEF TxnTypes, TypeInv
<1>4. /\ NewRows /\ NewIds = {k} /\ k \notin TxnIds
      /\ \A id \in TxnIds : Txn(id)' = Txn(id)
      /\ Txn(k)' = Entry(key, "USE", "DEBIT", "COMPLETED", amount, wallet[w].available, {})
  <2>1. Adds(k, Entry(key, "USE", "DEBIT", "COMPLETED", amount, wallet[w].available, {}))
    BY <1>1, <1>2, <1>3, PostedRows
  <2> QED BY <2>1 DEF Adds
<1>5. Untouched
  BY <1>4 DEF Untouched, Entry
<1>6. PICK taken \in [Spendable(w) -> 0..amount] :
        lot' = [id \in DOMAIN lot |->
                  IF id \in Spendable(w) THEN [lot[id] EXCEPT !.remaining = @ - taken[id]]
                  ELSE lot[id]]
  BY DEF Debit, ConsumeLots
<1>7. ASSUME NEW id \in DOMAIN lot PROVE LotRests(id)
  <2>1. lot[id] \in LotType /\ Txn(id)'.status = Txn(id).status
    BY <1>4 DEF TypeInv
  <2>2. CASE id \in Spendable(w)
    <3>1. taken[id] \in Nat
      BY <1>3, <2>2
    <3> QED BY <1>6, <2>1, <2>2, <3>1 DEF LotRests, LotType
  <2>3. CASE id \notin Spendable(w)
    BY <1>6, <2>1, <2>3, LotSame
  <2> QED BY <2>2, <2>3
<1>8. DOMAIN lot' = DOMAIN lot
  BY <1>6
<1> QED BY <1>2, <1>3, <1>4, <1>5, <1>7, <1>8, UntouchedEnds

LEMMA HoldEnds ==
  ASSUME TypeInv, TypeInv', EndInv, NEW w \in Wallets, NEW key \in Keys, NEW amount \in Amounts,
         Hold(w, key, amount)
  PROVE  EndInv'
<1>1. PICK k : k = <<w, Len(journal[w]) + 1>>
  OBVIOUS
<1>2. /\ journal' = [journal EXCEPT ![w] = Posted(w, key, "HOLD", "DEBIT", "HELD", amount, {})]
      /\ hold' = [id \in DOMAIN hold \cup {k} |->
                    IF id \in DOMAIN hold THEN hold[id] ELSE [amount |-> amount, status |-> "HELD"]]
      /\ lot' = lot /\ now' = now
  BY <1>1 DEF Hold
<1>3. "HOLD" \in TxnTypes /\ amount \in Nat \ {0} /\ {} \in SUBSET TxnIds /\ now \in Int
  BY DEF TxnTypes, TypeInv
<1>4. /\ NewRows /\ NewIds = {k} /\ k \notin TxnIds
      /\ \A id \in TxnIds : Txn(id)' = Txn(id)
      /\ Txn(k)' = Entry(key, "HOLD", "DEBIT", "HELD", amount, wallet[w].available, {})
  <2>1. Adds(k, Entry(key, "HOLD", "DEBIT", "HELD", amount, wallet[w].available, {}))
    BY <1>1, <1>2, <1>3, PostedRows
  <2> QED BY <2>1 DEF Adds
<1>5. Untouched
  BY <1>4 DEF Untouched, Entry
<1>6. \A id \in DOMAIN lot : LotRests(id)
  BY <1>2, <1>4, LotSame DEF TypeInv
<1>7. /\ DOMAIN hold' \subseteq DOMAIN hold \cup NewIds
      /\ \A id \in DOMAIN hold : hold'[id] = hold[id]
      /\ \A id \in DOMAIN hold' : id \notin DOMAIN hold => hold'[id].status = "HELD"
  BY <1>2, <1>4
<1> QED BY <1>2, <1>3, <1>5, <1>6, <1>7, UntouchedEnds

\* A merge adds rows that refer to none, one on each side or none.
LEMMA MergeRows ==
  ASSUME TypeInv, NEW source \in Wallets, NEW target \in Wallets,
         NEW keyOut \in Keys, NEW keyIn \in Keys, Merge(source, target, keyOut, keyIn)
  PROVE  /\ TxnIds \subseteq TxnIds'
         /\ \A id \in TxnIds : Txn(id)' = Txn(id)
         /\ \A k \in NewIds : /\ Txn(k)'.type \in {"ACCOUNT_MERGE_OUT", "ACCOUNT_MERGE_IN"}
                              /\ Txn(k)'.status = "COMPLETED" /\ Txn(k)'.refs = {}
<1>1. PICK amount : amount = wallet[source].available
  OBVIOUS
<1>2. amount \in Int /\ source # target
  BY <1>1 DEF TypeInv, WalletType, Merge
<1>3. CASE ~(amount > 0)
  <2>1. journal' = journal
    BY <1>1, <1>3 DEF Merge
  <2> QED BY <2>1 DEF TxnIds, Txn, NewIds
<1>4. CASE amount > 0
  <2>1. PICK out, in :
          /\ out = Entry(keyOut, "ACCOUNT_MERGE_OUT", "DEBIT", "COMPLETED", amount,
                         wallet[source].available, {})
          /\ in = Entry(keyIn, "ACCOUNT_MERGE_IN", "CREDIT", "COMPLETED", amount,
                        wallet[target].available, {})
    OBVIOUS
  <2>2. journal' = [journal EXCEPT ![source] = Append(journal[source], out),
                                   ![target] = Append(journal[target], in)]
    BY <1>1, <1>4, <2>1 DEF Merge, Posted
  <2>3. /\ out.type = "ACCOUNT_MERGE_OUT" /\ out.status = "COMPLETED" /\ out.refs = {}
        /\ in.type = "ACCOUNT_MERGE_IN" /\ in.status = "COMPLETED" /\ in.refs = {}
    BY <2>1 DEF Entry
  <2>4. out \in EntryType /\ in \in EntryType
    <3>1. amount \in Nat \ {0} /\ {} \in SUBSET (Wallets \X Nat)
      BY <1>2, <1>4
    <3> QED BY <2>1, <3>1, PostedTyped DEF TxnTypes
  <2>5. journal \in [Wallets -> Seq(EntryType)]
    BY DEF TypeInv
  <2>6. ASSUME NEW w \in Wallets
        PROVE  \/ journal'[w] = journal[w]
               \/ \E e \in {out, in} : journal'[w] = Append(journal[w], e)
    BY <1>2, <2>2, <2>5
  <2>7. ASSUME NEW w \in Wallets
        PROVE  /\ \A i \in DOMAIN journal[w] : i \in DOMAIN journal'[w] /\ journal'[w][i] = journal[w][i]
               /\ \A i \in DOMAIN journal'[w] \ DOMAIN journal[w] : journal'[w][i] \in {out, in}
    <3>1. journal[w] \in Seq(EntryType)
      BY <2>5
    <3>2. CASE journal'[w] = journal[w]
      BY <3>2
    <3>3. ASSUME NEW e \in {out, in}, journal'[w] = Append(journal[w], e)
          PROVE  /\ \A i \in DOMAIN journal[w] : i \in DOMAIN journal'[w] /\ journal'[w][i] = journal[w][i]
                 /\ \A i \in DOMAIN journal'[w] \ DOMAIN journal[w] : journal'[w][i] \in {out, in}
      <4>1. e \in EntryType
        BY <2>4
      <4>2. /\ DOMAIN Append(journal[w], e) = 1..(Len(journal[w]) + 1)
            /\ Append(journal[w], e)[Len(journal[w]) + 1] = e
            /\ \A i \in 1..Len(journal[w]) : Append(journal[w], e)[i] = journal[w][i]
            /\ DOMAIN journal[w] = 1..Len(journal[w]) /\ Len(journal[w]) \in Nat
        BY <3>1, <4>1
      <4> QED BY <3>3, <4>2
    <3> QED BY <2>6, <3>2, <3>3
  <2>8. TxnIds \subseteq TxnIds'
    BY <2>7 DEF TxnIds
  <2>9. \A id \in TxnIds : Txn(id)' = Txn(id)
    BY <2>5, <2>7, TxnTyped DEF Txn, TxnIds
  <2>10. ASSUME NEW k \in NewIds PROVE Txn(k)' \in {out, in}
    <3>1. PICK w \in Wallets : \E i \in DOMAIN journal'[w] : k = <<w, i>>
      BY DEF NewIds, TxnIds
    <3>2. PICK i \in DOMAIN journal'[w] : k = <<w, i>>
      BY <3>1
    <3>3. i \notin DOMAIN journal[w]
      BY <3>2 DEF NewIds, TxnIds
    <3> QED BY <2>7, <3>2, <3>3 DEF Txn
  <2> QED BY <2>3, <2>8, <2>9, <2>10
<1> QED BY <1>3, <1>4

LEMMA MergeEnds ==
  ASSUME TypeInv, TypeInv', EndInv, NEW source \in Wallets, NEW target \in Wallets,
         NEW keyOut \in Keys, NEW keyIn \in Keys, Merge(source, target, keyOut, keyIn)
  PROVE  EndInv'
<1>1. hold' = hold /\ lot' = lot /\ now' = now /\ now \in Int /\ source # target
  BY DEF Merge, TypeInv
<1>2. /\ TxnIds \subseteq TxnIds'
      /\ \A id \in TxnIds : Txn(id)' = Txn(id)
      /\ \A k \in NewIds : /\ Txn(k)'.type \in {"ACCOUNT_MERGE_OUT", "ACCOUNT_MERGE_IN"}
                           /\ Txn(k)'.status = "COMPLETED" /\ Txn(k)'.refs = {}
  BY MergeRows
<1>3. Untouched
  BY <1>2 DEF Untouched, NewRows
<1>4. \A id \in DOMAIN lot : LotRests(id)
  BY <1>1, <1>2, LotSame DEF TypeInv
<1> QED BY <1>1, <1>3, <1>4, UntouchedEnds

LEMMA TickEnds ==
  ASSUME TypeInv, TypeInv', EndInv, Tick \/ UNCHANGED vars
  PROVE  EndInv'
<1>1. /\ hold' = hold /\ lot' = lot /\ journal' = journal
      /\ now <= now'
  BY DEF Tick, vars, TypeInv
<1>2. TxnIds' = TxnIds /\ \A id : Txn(id)' = Txn(id)
  BY <1>1 DEF TxnIds, Txn
<1>3. Untouched
  BY <1>2 DEF Untouched, NewRows, NewIds
<1>4. \A id \in DOMAIN lot : LotRests(id)
  BY <1>1, <1>2, LotSame
<1> QED BY <1>1, <1>3, <1>4, UntouchedEnds

LEMMA ReleaseEnds ==
  ASSUME TypeInv, TypeInv', EndInv, NEW id \in DOMAIN hold, NEW key \in Keys, Release(id, key)
  PROVE  EndInv'
<1>1. /\ id \in TxnIds /\ id[1] \in Wallets /\ hold[id] \in HoldType
      /\ hold[id].amount \in Nat \ {0} /\ now \in Int
  BY TxnIdsAre DEF TypeInv, HoldType
<1>2. PICK w, amount, k :
        w = id[1] /\ amount = hold[id].amount /\ k = <<id[1], Len(journal[id[1]]) + 1>>
  OBVIOUS
<1>3. /\ journal' = [journal EXCEPT ![w] =
                       Posted(w, key, "RELEASE", "CREDIT", "COMPLETED", amount, {id})]
      /\ hold' = [hold EXCEPT ![id].status = "RELEASED"] /\ hold[id].status = "HELD"
      /\ lot' = lot /\ now' = now
  BY <1>2 DEF Release, Releasable
<1>4. /\ w \in Wallets /\ amount \in Nat \ {0} /\ {id} \in SUBSET TxnIds
      /\ \A x \in {id} : x[1] = w
      /\ k = <<w, Len(journal[w]) + 1>> /\ "RELEASE" \in TxnTypes
  BY <1>1, <1>2 DEF TxnTypes
<1>5. Adds(k, Entry(key, "RELEASE", "CREDIT", "COMPLETED", amount, wallet[w].available, {id}))
  BY <1>3, <1>4, PostedRows
<1>6. /\ NewRows /\ NewIds = {k} /\ k \notin TxnIds
      /\ \A x \in TxnIds : Txn(x)' = Txn(x)
      /\ Txn(k)'.type = "RELEASE" /\ Txn(k)'.amount = amount /\ Txn(k)'.refs = {id}
  BY <1>5 DEF Adds, Entry
<1>7. Referred'
  BY <1>6, ReferredKept DEF EndInv
<1>8. \A x \in TxnIds' : ReversalOf(x)'
  BY <1>6, ReversalsRest
<1>9. \A x \in TxnIds' : CoveredExpiry(x)'
  BY <1>6, ExpiriesRest
<1>10. \A x \in DOMAIN lot' : EndOf(x)' /\ LotOf(x)'
  <2>1. \A x \in DOMAIN lot : LotRests(x)
    BY <1>3, <1>6, LotSame DEF TypeInv
  <2>2. \A e \in NewIds : Txn(e)'.type # "EXPIRATION"
    BY <1>6
  <2> QED BY <1>1, <1>3, <1>6, <2>1, <2>2, LotsRest
<1>11. ASSUME NEW x \in DOMAIN hold' PROVE ReleaseOf(x)'
  <2>1. /\ x \in DOMAIN hold /\ hold'[x].amount = hold[x].amount
        /\ hold'[x].status = IF x = id THEN "RELEASED" ELSE hold[x].status
    BY <1>1, <1>3 DEF TypeInv, HoldType
  <2>2. ReleaseOf(x)
    BY <2>1 DEF EndInv
  <2>3. Undoers("RELEASE", x) \subseteq TxnIds
        /\ \A r \in TxnIds : Txn(r)'.amount = Txn(r).amount
    BY <1>6 DEF Undoers
  <2>4. CASE x = id
    <3>1. Undoers("RELEASE", x) = {}
      BY <1>3, <2>2, <2>4 DEF ReleaseOf
    <3>2. Undoers("RELEASE", x)' = {k}
      BY <1>6, <2>4, <3>1, UndoersGrow DEF EndInv
    <3>3. k[1] = x[1]
      BY <1>2, <2>4
    <3> QED BY <1>2, <1>6, <2>1, <2>4, <3>2, <3>3 DEF ReleaseOf
  <2>5. CASE x # id
    <3>1. Undoers("RELEASE", x)' = Undoers("RELEASE", x)
      BY <1>6, <2>5, UndoersRest DEF EndInv
    <3> QED BY <2>1, <2>2, <2>3, <2>5, <3>1 DEF ReleaseOf
  <2> QED BY <2>4, <2>5
<1> QED BY <1>7, <1>8, <1>9, <1>10, <1>11 DEF EndInv

LEMMA ReverseEnds ==
  ASSUME TypeInv, TypeInv', EndInv, NEW id \in TxnIds, NEW key \in Keys, Reverse(id, key)
  PROVE  EndInv'
<1>1. /\ Txn(id) \in EntryType /\ Txn(id).status = "COMPLETED" /\ now \in Int
      /\ hold' = hold /\ lot' = VoidedLots(id) /\ now' = now
  BY TxnTyped DEF Reverse, Reversible, TypeInv
<1>2. PICK k : k = <<id[1], Len(journal[id[1]]) + 1>>
  OBVIOUS
<1>3. TxnIds' = TxnIds \cup {k} /\ k \notin TxnIds
  <2>1. TxnIds' = TxnIds \cup {k}
    BY <1>2, ReversedJournal
  <2>2. k \notin TxnIds
    BY <1>2, ReversedJournal
  <2> QED BY <2>1, <2>2
<1>4. \A x \in TxnIds : Txn(x)' = IF x = id THEN ReversedMark(Txn(id)) ELSE Txn(x)
  BY <1>2, ReversedJournal
<1>5. Txn(k)' = Entry(key, "REVERSAL", Opposite(Txn(id).dir), "COMPLETED",
                      Txn(id).amount, wallet[id[1]].available, {id})
  BY <1>2, ReversedJournal
<1>6. /\ Txn(k)'.type = "REVERSAL" /\ Txn(k)'.status = "COMPLETED" /\ Txn(k)'.refs = {id}
      /\ Txn(k)'.amount = Txn(id).amount /\ Txn(k)'.dir = Opposite(Txn(id).dir)
  BY <1>5 DEF Entry
<1>7. /\ Txn(id)'.type = Txn(id).type /\ Txn(id)'.refs = Txn(id).refs
      /\ Txn(id)'.amount = Txn(id).amount /\ Txn(id)'.dir = Txn(id).dir
      /\ Txn(id)'.status = "REVERSED"
  BY <1>1, <1>4 DEF ReversedMark, EntryType
<1>8. NewIds = {k}
  BY <1>3 DEF NewIds
<1>9. NewRows
  <2>1. \A x \in TxnIds : /\ Txn(x)'.type = Txn(x).type /\ Txn(x)'.refs = Txn(x).refs
                          /\ Txn(x)'.amount = Txn(x).amount /\ Txn(x)'.dir = Txn(x).dir
    BY <1>4, <1>7
  <2>2. k[1] = id[1]
    BY <1>2
  <2> QED BY <1>3, <1>6, <1>8, <2>1, <2>2 DEF NewRows
<1>10. Referred'
  BY <1>9, ReferredKept DEF EndInv
<1>11. \A x \in TxnIds' : CoveredExpiry(x)'
  BY <1>6, <1>8, <1>9, ExpiriesRest
<1>12. \A x \in DOMAIN hold' : ReleaseOf(x)'
  BY <1>1, <1>6, <1>8, <1>9, ReleasesRest DEF TypeInv
<1>13. \A x \in DOMAIN lot' : EndOf(x)' /\ LotOf(x)'
  <2>1. DOMAIN lot' = DOMAIN lot
    BY <1>1 DEF VoidedLots
  <2>2. ASSUME NEW x \in DOMAIN lot PROVE LotRests(x)
    <3>1. x \in TxnIds /\ lot[x] \in LotType /\ LotOf(x)
      BY DEF TypeInv, EndInv
    <3>2. CASE x # id
      <4>1. lot'[x] = lot[x] /\ Txn(x)'.status = Txn(x).status
        BY <1>1, <1>4, <3>1, <3>2 DEF VoidedLots
      <4> QED BY <4>1, LotSame
    <3>3. CASE x = id /\ lot[x].state = "OPEN"
      <4>1. lot' = [lot EXCEPT ![id].state = "VOIDED", ![id].remaining = 0]
        BY <1>1, <3>1, <3>3 DEF VoidedLots, LotOf
      <4>2. lot'[x] = [lot[x] EXCEPT !.state = "VOIDED", !.remaining = 0]
        BY <3>3, <4>1
      <4>3. /\ lot'[x].state = "VOIDED" /\ lot'[x].remaining = 0 /\ lot[x].remaining \in Nat
            /\ lot'[x].amount = lot[x].amount /\ lot'[x].expiresAt = lot[x].expiresAt
        BY <3>1, <4>2 DEF LotType
      <4> QED BY <3>3, <4>3 DEF LotRests
    <3>4. CASE x = id /\ lot[x].state # "OPEN"
      <4>1. lot'[x] = lot[x]
        BY <1>1, <3>4 DEF VoidedLots
      <4> QED BY <3>1, <3>4, <4>1 DEF LotRests, LotType
    <3> QED BY <3>2, <3>3, <3>4
  <2>3. \A e \in NewIds : Txn(e)'.type # "EXPIRATION"
    BY <1>6, <1>8
  <2> QED BY <1>1, <1>9, <2>1, <2>2, <2>3, LotsRest
<1>14. ASSUME NEW x \in TxnIds' PROVE ReversalOf(x)'
  <2>1. CASE x = k
    <3>1. Undoers("REVERSAL", x)' = {}
      BY <1>3, <1>9, <2>1, UndoersGrow DEF EndInv
    <3> QED BY <1>6, <2>1, <3>1 DEF ReversalOf
  <2>2. CASE x = id
    <3>1. ReversalOf(id) /\ Undoers("REVERSAL", id) = {}
      BY <1>1 DEF EndInv, ReversalOf
    <3>2. Undoers("REVERSAL", id)' = {k}
      BY <1>6, <1>8, <1>9, <3>1, UndoersGrow DEF EndInv
    <3>3. k[1] = id[1]
      BY <1>2
    <3> QED BY <1>6, <1>7, <2>2, <3>2, <3>3 DEF ReversalOf
  <2>3. CASE x # k /\ x # id
    <3>1. x \in TxnIds /\ ReversalOf(x) /\ Txn(x)' = Txn(x)
      BY <1>3, <1>4, <2>3 DEF EndInv
    <3>2. Undoers("REVERSAL", x)' = Undoers("REVERSAL", x)
      BY <1>6, <1>8, <1>9, <2>3, UndoersRest DEF EndInv
    <3>3. Undoers("REVERSAL", x) \subseteq TxnIds
          /\ \A r \in TxnIds : Txn(r)'.amount = Txn(r).amount /\ Txn(r)'.dir = Txn(r).dir
      BY <1>9 DEF Undoers, NewRows
    <3> QED BY <3>1, <3>2, <3>3 DEF ReversalOf
  <2> QED BY <2>1, <2>2, <2>3
<1> QED BY <1>10, <1>11, <1>12, <1>13, <1>14 DEF EndInv

LEMMA ExpireEnds ==
  ASSUME TypeInv, TypeInv', EndInv, NEW w \in Wallets, NEW cutoff \in 0..MaxTime,
         NEW key \in Keys, Expire(w, cutoff, key)
  PROVE  EndInv'
<1>1. PICK k, due : k = <<w, Len(journal[w]) + 1>> /\ due = DueLots(w, cutoff)
  OBVIOUS
<1>2. PICK amount \in 1..wallet[w].available :
        /\ amount = Smaller(Total(Remaining, due), wallet[w].available)
        /\ journal' = [journal EXCEPT ![w] =
                         Posted(w, key, "EXPIRATION", "DEBIT", "COMPLETED", amount, due)]
  BY <1>1 DEF Expire
<1>3. /\ hold' = hold /\ now' = now /\ now \in Int /\ cutoff <= now /\ cutoff \in Int
      /\ wallet[w].available \in Int /\ amount \in Nat \ {0}
  <2>1. hold' = hold /\ now' = now /\ cutoff <= now
    BY DEF Expire
  <2>2. wallet[w].available \in Int /\ now \in Int /\ cutoff \in Int
    BY DEF TypeInv, WalletType
  <2> QED BY <1>2, <2>1, <2>2
<1>4. lot' = [id \in DOMAIN lot |->
                IF id \in due THEN [lot[id] EXCEPT !.state = "EXPIRED", !.remaining = 0]
                ELSE lot[id]]
  BY <1>1 DEF Expire
<1>5. /\ due \subseteq DOMAIN lot /\ due \subseteq TxnIds /\ due \subseteq {id \in TxnIds : id[1] = w}
      /\ \A id \in due : id[1] = w /\ lot[id].state = "OPEN" /\ lot[id].expiresAt <= cutoff
  BY <1>1 DEF DueLots, TypeInv
<1>6. Adds(k, Entry(key, "EXPIRATION", "DEBIT", "COMPLETED", amount, wallet[w].available, due))
  <2>1. "EXPIRATION" \in TxnTypes /\ due \in SUBSET TxnIds /\ \A x \in due : x[1] = w
    BY <1>5 DEF TxnTypes
  <2> QED BY <1>1, <1>2, <1>3, <2>1, PostedRows
<1>7. /\ NewRows /\ NewIds = {k} /\ k \notin TxnIds
      /\ \A x \in TxnIds : Txn(x)' = Txn(x)
      /\ Txn(k)'.type = "EXPIRATION" /\ Txn(k)'.amount = amount /\ Txn(k)'.refs = due
  BY <1>6 DEF Adds, Entry
<1>8. Referred'
  BY <1>7, ReferredKept DEF EndInv
<1>9. \A x \in TxnIds' : ReversalOf(x)'
  BY <1>7, ReversalsRest
<1>10. \A x \in DOMAIN hold' : ReleaseOf(x)'
  BY <1>3, <1>7, ReleasesRest DEF TypeInv
<1>11. ASSUME NEW x \in DOMAIN lot' PROVE EndOf(x)' /\ LotOf(x)'
  <2>1. x \in DOMAIN lot /\ lot[x] \in LotType /\ x \in TxnIds /\ EndOf(x) /\ LotOf(x)
    BY <1>4 DEF TypeInv, EndInv
  <2>2. CASE x \in due
    <3>1. Undoers("EXPIRATION", x) = {}
      BY <1>5, <2>1, <2>2 DEF EndOf
    <3>2. Undoers("EXPIRATION", x)' = {k}
      BY <1>7, <2>2, <3>1, UndoersGrow DEF EndInv
    <3>3. /\ lot'[x].state = "EXPIRED" /\ lot'[x].remaining = 0
          /\ lot'[x].amount = lot[x].amount /\ lot'[x].expiresAt = lot[x].expiresAt
      BY <1>4, <2>1, <2>2 DEF LotType
    <3>4. lot[x].expiresAt <= now
      BY <1>3, <1>5, <2>1, <2>2 DEF LotType
    <3>5. EndOf(x)'
      BY <1>3, <3>2, <3>3, <3>4 DEF EndOf
    <3>6. LotOf(x)'
      BY <1>7, <2>1, <3>3 DEF LotOf, LotType
    <3> QED BY <3>5, <3>6
  <2>3. CASE x \notin due
    <3>1. Undoers("EXPIRATION", x)' = Undoers("EXPIRATION", x)
      BY <1>7, <2>3, UndoersRest DEF EndInv
    <3>2. lot'[x] = lot[x] /\ Txn(x)' = Txn(x)
      BY <1>4, <1>7, <2>1, <2>3
    <3> QED BY <1>3, <2>1, <3>1, <3>2 DEF EndOf, LotOf
  <2> QED BY <2>2, <2>3
<1>12. amount <= Total(AmountOf, due)
  <2>1. IsFiniteSet(due)
    BY <1>5, FewIds
  <2>2. \A x \in due : Remaining[x] \in Nat /\ AmountOf[x] \in Nat /\ Remaining[x] <= AmountOf[x]
    <3> SUFFICES ASSUME NEW x \in due
                 PROVE  Remaining[x] \in Nat /\ AmountOf[x] \in Nat /\ Remaining[x] <= AmountOf[x]
      OBVIOUS
    <3>1. lot[x] \in LotType /\ LotOf(x)
      BY <1>5 DEF TypeInv, EndInv
    <3>2. Remaining[x] = lot[x].remaining /\ AmountOf[x] = Txn(x).amount
      BY <1>5 DEF Remaining, AmountOf
    <3> QED BY <3>1, <3>2 DEF LotOf, LotType
  <2>3. Total(Remaining, due) <= Total(AmountOf, due)
    BY <2>1, <2>2, TotalAtMost
  <2>4. Total(Remaining, due) \in Nat
    BY <2>1, <2>2, TotalType
  <2>5. Total(AmountOf, due) \in Nat
    BY <2>1, <2>2, TotalType
  <2> QED BY <1>2, <1>3, <2>3, <2>4, <2>5 DEF Smaller
<1>13. ASSUME NEW e \in TxnIds' PROVE CoveredExpiry(e)'
  <2>1. \A x \in TxnIds : AmountOf'[x] = AmountOf[x]
    BY <1>7 DEF NewRows, AmountOf
  <2>2. CASE e = k
    <3>1. Total(AmountOf', due) = Total(AmountOf, due)
      BY <1>5, <2>1, TotalSame
    <3> QED BY <1>7, <1>12, <2>2, <3>1 DEF CoveredExpiry
  <2>3. CASE e # k
    <3>1. e \in TxnIds /\ CoveredExpiry(e) /\ Txn(e).refs \subseteq TxnIds /\ Txn(e)' = Txn(e)
      BY <1>7, <2>3 DEF NewIds, EndInv, Referred
    <3>2. Total(AmountOf', Txn(e).refs) = Total(AmountOf, Txn(e).refs)
      BY <2>1, <3>1, TotalSame
    <3> QED BY <3>1, <3>2 DEF CoveredExpiry
  <2> QED BY <2>2, <2>3
<1> QED BY <1>8, <1>9, <1>10, <1>11, <1>13 DEF EndInv

LEMMA EndStep ==
  ASSUME TypeInv, TypeInv', EndInv, [Next]_vars PROVE EndInv'
<1>1. CASE Tick \/ UNCHANGED vars
  BY <1>1, TickEnds
<1> QED BY <1>1, CreditEnds, DebitEnds, HoldEnds, ReleaseEnds, ReverseEnds, ExpireEnds,
           MergeEnds DEF Next

\* Nothing is undone twice: one reversal per transaction, one release per hold,
\* one end per lot, each for what it undoes, whatever calls come in what order.
\* The proof carries along what the code relies on without checking it: rows
\* refer only to earlier rows of their wallet, and a lot has no more left than
\* its grant was for.
THEOREM Ending == Spec => []EndedOnce
<1>1. Init => EndInv
  BY DEF Init, EndInv, Referred, TxnIds
<1>2. TypeInv /\ TypeInv' /\ EndInv /\ [Next]_vars => EndInv'
  BY EndStep
<1> QED BY <1>1, <1>2, EndInvSuffices, Invariance, PTL DEF Spec

-----------------------------------------------------------------------------
(* The liability report rolls forward                                        *)

BalanceOf == [w \in Wallets |-> wallet[w].available + wallet[w].held]

Settled == {"COMPLETED", "REVERSED"}

\* With finitely many wallets there are finitely many transactions.
LEMMA FewTxns == ASSUME TypeInv, IsFiniteSet(Wallets) PROVE IsFiniteSet(TxnIds)
<1> DEFINE row == [w \in Wallets |-> {<<w, i>> : i \in DOMAIN journal[w]}]
<1> DEFINE rows == {{<<w, i>> : i \in DOMAIN journal[w]} : w \in Wallets}
<1>1. row \in Surjection(Wallets, rows)
  BY DEF Surjection
<1>2. IsFiniteSet(rows)
  BY <1>1, FS_Surjection
<1>3. ASSUME NEW w \in Wallets PROVE IsFiniteSet({<<w, i>> : i \in DOMAIN journal[w]})
  <2>1. {<<w, i>> : i \in DOMAIN journal[w]} \subseteq {id \in TxnIds : id[1] = w}
    BY DEF TxnIds
  <2> QED BY <2>1, FewIds
<1>4. IsFiniteSet(UNION rows)
  BY <1>2, <1>3, FS_UNION
<1> QED BY <1>4 DEF TxnIds

\* Old rows keep counting, or not counting, as movements.
Standing == NewRows /\ \A id \in TxnIds : Txn(id)'.status \in Settled <=> Txn(id).status \in Settled

LEMMA MovementGrows ==
  ASSUME Standing, NEW dir
  PROVE  /\ Movement(dir)' = Movement(dir) \cup
              {k \in NewIds : /\ Txn(k)'.dir = dir /\ Txn(k)'.status \in Settled
                              /\ Txn(k)'.type \notin BalanceNeutralTypes}
         /\ \A id \in Movement(dir) : AmountOf'[id] = AmountOf[id]
<1>1. Movement(dir)' = {id \in TxnIds' : /\ Txn(id)'.dir = dir /\ Txn(id)'.status \in Settled
                                         /\ Txn(id)'.type \notin BalanceNeutralTypes}
  BY DEF Movement, Settled, BalanceNeutralTypes
<1>2. Movement(dir) = {id \in TxnIds : /\ Txn(id).dir = dir /\ Txn(id).status \in Settled
                                       /\ Txn(id).type \notin BalanceNeutralTypes}
  BY DEF Movement, Settled, BalanceNeutralTypes
<1>3. \A id : id \in TxnIds' <=> id \in TxnIds \/ id \in NewIds
  BY DEF NewIds, Standing, NewRows
<1>4. \A id \in TxnIds : /\ Txn(id)'.dir = Txn(id).dir /\ Txn(id)'.type = Txn(id).type
                         /\ Txn(id)'.amount = Txn(id).amount
                         /\ Txn(id)'.status \in Settled <=> Txn(id).status \in Settled
  BY DEF Standing, NewRows
<1>5. \A id \in Movement(dir) : AmountOf'[id] = AmountOf[id]
  BY <1>2, <1>3, <1>4 DEF AmountOf
<1> QED BY <1>1, <1>2, <1>3, <1>4, <1>5

LEMMA MovementType ==
  ASSUME TypeInv, IsFiniteSet(Wallets), NEW dir
  PROVE  /\ IsFiniteSet(Movement(dir)) /\ Total(AmountOf, Movement(dir)) \in Nat
         /\ \A id \in Movement(dir) : AmountOf[id] \in Nat
<1>1. Movement(dir) \subseteq TxnIds
  BY DEF Movement
<1>2. IsFiniteSet(Movement(dir))
  BY <1>1, FewTxns, FS_Subset
<1>3. \A id \in Movement(dir) : AmountOf[id] \in Nat
  BY <1>1, TxnTyped DEF AmountOf, EntryType, TypeInv
<1> QED BY <1>2, <1>3, TotalType

\* New rows that do not count leave the sums of the movements alone.
LEMMA MovementRests ==
  ASSUME Standing, NEW dir,
         \A k \in NewIds : \/ Txn(k)'.dir # dir \/ Txn(k)'.status \notin Settled
                           \/ Txn(k)'.type \in BalanceNeutralTypes
  PROVE  Total(AmountOf, Movement(dir))' = Total(AmountOf, Movement(dir))
<1>1. {k \in NewIds : /\ Txn(k)'.dir = dir /\ Txn(k)'.status \in Settled
                     /\ Txn(k)'.type \notin BalanceNeutralTypes} = {}
  OBVIOUS
<1>2. Movement(dir)' = Movement(dir)
  BY <1>1, MovementGrows
<1>3. \A id \in Movement(dir) : AmountOf'[id] = AmountOf[id]
  BY MovementGrows
<1> QED BY <1>2, <1>3, TotalSame

\* One that counts adds its amount.
LEMMA MovementAdds ==
  ASSUME TypeInv, IsFiniteSet(Wallets), Standing, NEW dir, NEW k, NewIds = {k},
         Txn(k)'.dir = dir, Txn(k)'.status \in Settled, Txn(k)'.type \notin BalanceNeutralTypes,
         Txn(k)'.amount \in Nat
  PROVE  Total(AmountOf, Movement(dir))' = Total(AmountOf, Movement(dir)) + Txn(k)'.amount
<1>1. /\ Movement(dir)' = Movement(dir) \cup {k}
      /\ \A id \in Movement(dir) : AmountOf'[id] = AmountOf[id]
  BY MovementGrows
<1>2. k \in TxnIds' /\ k \notin Movement(dir)
  BY DEF NewIds, Movement
<1>3. AmountOf'[k] = Txn(k)'.amount
  BY <1>2 DEF AmountOf
<1>4. IsFiniteSet(Movement(dir)) /\ \A id \in Movement(dir) : AmountOf[id] \in Nat
  BY MovementType
<1>5. \A id \in Movement(dir) : AmountOf'[id] \in Nat
  BY <1>1, <1>4
<1>6. Total(AmountOf', Movement(dir) \cup {k}) = Total(AmountOf', Movement(dir)) + AmountOf'[k]
  BY <1>2, <1>3, <1>4, <1>5, TotalAdd
<1>7. Total(AmountOf', Movement(dir)) = Total(AmountOf, Movement(dir))
  BY <1>1, TotalSame
<1> QED BY <1>1, <1>3, <1>6, <1>7

\* A step other than a merge: one row on one wallet, whose balance it says.
Rolls(w, k) ==
  /\ Standing /\ NewIds = {k}
  /\ Txn(k)'.type \notin {"ACCOUNT_MERGE_OUT", "ACCOUNT_MERGE_IN"}
  /\ Txn(k)'.type \notin {"HOLD", "RELEASE"} => Txn(k)'.status = "COMPLETED"
  /\ Txn(k)'.dir \in {"CREDIT", "DEBIT"} /\ Txn(k)'.amount \in Nat
  /\ \A v \in Wallets \ {w} : BalanceOf'[v] = BalanceOf[v]
  /\ BalanceOf'[w] = IF Txn(k)'.type \in {"HOLD", "RELEASE"} THEN BalanceOf[w]
                     ELSE IF Txn(k)'.dir = "CREDIT" THEN BalanceOf[w] + Txn(k)'.amount
                     ELSE BalanceOf[w] - Txn(k)'.amount

LEMMA BalanceType ==
  ASSUME TypeInv, BalancesSound, NEW w \in Wallets
  PROVE  BalanceOf[w] = wallet[w].available + wallet[w].held /\ BalanceOf[w] \in Nat
<1>1. wallet[w] \in WalletType /\ wallet[w].available >= 0 /\ wallet[w].held >= 0
  BY DEF TypeInv, BalancesSound
<1> QED BY <1>1 DEF BalanceOf, WalletType

LEMMA RollsForward ==
  ASSUME TypeInv, TypeInv', BalancesSound, BalancesSound', IsFiniteSet(Wallets),
         LiabilityRollsForward, NEW w \in Wallets, NEW k, Rolls(w, k)
  PROVE  LiabilityRollsForward'
<1> DEFINE all == Total(BalanceOf, Wallets)
           credits == Total(AmountOf, Movement("CREDIT"))
           debits == Total(AmountOf, Movement("DEBIT"))
<1>1. all = credits - debits
  BY DEF LiabilityRollsForward, WalletBalances, BalanceOf
<1>2. LiabilityRollsForward' <=> all' = credits' - debits'
  BY DEF LiabilityRollsForward, WalletBalances, BalanceOf
<1>3. \A v \in Wallets : BalanceOf[v] \in Nat /\ BalanceOf'[v] \in Nat
  <2>1. \A v \in Wallets : BalanceOf[v] \in Nat
    BY BalanceType
  <2>2. ASSUME NEW v \in Wallets PROVE BalanceOf'[v] \in Nat
    <3>1. wallet'[v] \in WalletType /\ wallet'[v].available >= 0 /\ wallet'[v].held >= 0
      BY DEF TypeInv, BalancesSound
    <3> QED BY <3>1 DEF BalanceOf, WalletType
  <2> QED BY <2>1, <2>2
<1>4. all' = all - BalanceOf[w] + BalanceOf'[w] /\ all \in Nat
  <2>1. \A v \in Wallets \ {w} : BalanceOf[v] = BalanceOf'[v]
    BY DEF Rolls
  <2>2. all' = all - BalanceOf[w] + BalanceOf'[w]
    BY <1>3, <2>1, TotalChange
  <2> QED BY <1>3, <2>2, TotalType
<1>5. credits \in Nat /\ debits \in Nat
  BY MovementType
<1>6. /\ Standing /\ NewIds = {k}
      /\ Txn(k)'.type \notin {"ACCOUNT_MERGE_OUT", "ACCOUNT_MERGE_IN"}
      /\ Txn(k)'.type \notin {"HOLD", "RELEASE"} => Txn(k)'.status = "COMPLETED"
      /\ Txn(k)'.dir \in {"CREDIT", "DEBIT"} /\ Txn(k)'.amount \in Nat
      /\ BalanceOf'[w] = IF Txn(k)'.type \in {"HOLD", "RELEASE"} THEN BalanceOf[w]
                         ELSE IF Txn(k)'.dir = "CREDIT" THEN BalanceOf[w] + Txn(k)'.amount
                         ELSE BalanceOf[w] - Txn(k)'.amount
  BY DEF Rolls
<1>7. BalanceOf[w] \in Nat
  BY <1>3
<1>8. CASE Txn(k)'.type \in {"HOLD", "RELEASE"}
  <2>1. Txn(k)'.type \in BalanceNeutralTypes
    BY <1>8 DEF BalanceNeutralTypes
  <2>2. credits' = credits /\ debits' = debits
    BY <1>6, <2>1, MovementRests
  <2> HIDE DEF all, credits, debits
  <2> QED BY <1>1, <1>2, <1>4, <1>5, <1>6, <1>7, <1>8, <2>2
<1>9. CASE Txn(k)'.type \notin {"HOLD", "RELEASE"}
  <2>1. Txn(k)'.type \notin BalanceNeutralTypes /\ Txn(k)'.status \in Settled
    BY <1>6, <1>9 DEF BalanceNeutralTypes, Settled
  <2>2. CASE Txn(k)'.dir = "CREDIT"
    <3>1. credits' = credits + Txn(k)'.amount
      BY <1>6, <2>1, <2>2, MovementAdds
    <3>2. debits' = debits
      BY <1>6, <2>2, MovementRests
    <3> HIDE DEF all, credits, debits
    <3> QED BY <1>1, <1>2, <1>4, <1>5, <1>6, <1>7, <1>9, <2>2, <3>1, <3>2
  <2>3. CASE Txn(k)'.dir = "DEBIT"
    <3>1. debits' = debits + Txn(k)'.amount
      BY <1>6, <2>1, <2>3, MovementAdds
    <3>2. credits' = credits
      BY <1>6, <2>3, MovementRests
    <3> HIDE DEF all, credits, debits
    <3> QED BY <1>1, <1>2, <1>4, <1>5, <1>6, <1>7, <1>9, <2>3, <3>1, <3>2
  <2> QED BY <1>6, <2>2, <2>3
<1> QED BY <1>8, <1>9

\* A plain posting rolls.
LEMMA PostedRolls ==
  ASSUME TypeInv, NEW w \in Wallets, NEW k, NEW e \in EntryType, Adds(k, e),
         e.type \notin {"ACCOUNT_MERGE_OUT", "ACCOUNT_MERGE_IN"},
         e.type \notin {"HOLD", "RELEASE"} => e.status = "COMPLETED",
         \A v \in Wallets \ {w} : wallet'[v] = wallet[v],
         wallet'[w].available + wallet'[w].held =
           IF e.type \in {"HOLD", "RELEASE"} THEN wallet[w].available + wallet[w].held
           ELSE IF e.dir = "CREDIT" THEN wallet[w].available + wallet[w].held + e.amount
           ELSE wallet[w].available + wallet[w].held - e.amount
  PROVE  Rolls(w, k)
<1>1. /\ NewRows /\ NewIds = {k} /\ Txn(k)' = e
      /\ \A id \in TxnIds : Txn(id)' = Txn(id)
  BY DEF Adds
<1>2. Standing
  BY <1>1 DEF Standing
<1>3. \A v \in Wallets : /\ BalanceOf[v] = wallet[v].available + wallet[v].held
                         /\ BalanceOf'[v] = wallet'[v].available + wallet'[v].held
  BY DEF BalanceOf
<1>4. e.dir \in {"CREDIT", "DEBIT"} /\ e.amount \in Nat
  BY DEF EntryType
<1>5. BalanceOf'[w] = IF e.type \in {"HOLD", "RELEASE"} THEN BalanceOf[w]
                      ELSE IF e.dir = "CREDIT" THEN BalanceOf[w] + e.amount
                      ELSE BalanceOf[w] - e.amount
  <2>1. /\ BalanceOf[w] = wallet[w].available + wallet[w].held
        /\ BalanceOf'[w] = wallet'[w].available + wallet'[w].held
    BY <1>3
  <2> wallet[w].available \in Int /\ wallet[w].held \in Int
    BY DEF TypeInv, WalletType
  <2>2. CASE e.type \in {"HOLD", "RELEASE"}
    BY <2>1, <2>2
  <2>3. CASE e.type \notin {"HOLD", "RELEASE"} /\ e.dir = "CREDIT"
    BY <2>1, <2>3
  <2>4. CASE e.type \notin {"HOLD", "RELEASE"} /\ e.dir # "CREDIT"
    BY <1>4, <2>1, <2>4
  <2> QED BY <2>2, <2>3, <2>4
<1>6. \A v \in Wallets \ {w} : BalanceOf'[v] = BalanceOf[v]
  BY <1>3
<1>7. e.type \notin {"HOLD", "RELEASE"} => e.status = "COMPLETED"
  OBVIOUS
<1>8. e.type \notin {"ACCOUNT_MERGE_OUT", "ACCOUNT_MERGE_IN"}
  OBVIOUS
<1> QED BY <1>1, <1>2, <1>4, <1>5, <1>6, <1>7, <1>8 DEF Rolls

LEMMA CreditRolls ==
  ASSUME TypeInv, NEW w \in Wallets, NEW key \in Keys, NEW amount \in Amounts,
         NEW days \in ExpiryDays, Credit(w, key, amount, days)
  PROVE  \E k : Rolls(w, k)
<1>1. PICK k, e : /\ k = <<w, Len(journal[w]) + 1>>
                 /\ e = Entry(key, "GRANT", "CREDIT", "COMPLETED", amount, wallet[w].available, {})
  OBVIOUS
<1>2. "GRANT" \in TxnTypes /\ amount \in Nat \ {0} /\ {} \in SUBSET TxnIds
      /\ {} \in SUBSET (Wallets \X Nat)
  BY DEF TxnTypes
<1>3. Adds(k, e)
  BY <1>1, <1>2, PostedRows DEF Credit
<1>4. e \in EntryType
  BY <1>1, <1>2, PostedTyped
<1>5. e.type = "GRANT" /\ e.dir = "CREDIT" /\ e.status = "COMPLETED" /\ e.amount = amount
  BY <1>1 DEF Entry
<1>6. /\ \A v \in Wallets \ {w} : wallet'[v] = wallet[v]
      /\ wallet'[w].available = wallet[w].available + amount /\ wallet'[w].held = wallet[w].held
      /\ wallet[w].available \in Int /\ wallet[w].held \in Int
  BY DEF Credit, Deposited, TypeInv, WalletType
<1> QED BY <1>2, <1>3, <1>4, <1>5, <1>6, PostedRolls

LEMMA DebitRolls ==
  ASSUME TypeInv, NEW w \in Wallets, NEW key \in Keys, NEW amount \in Amounts,
         Debit(w, key, amount)
  PROVE  \E k : Rolls(w, k)
<1>1. PICK k, e : /\ k = <<w, Len(journal[w]) + 1>>
                 /\ e = Entry(key, "USE", "DEBIT", "COMPLETED", amount, wallet[w].available, {})
  OBVIOUS
<1>2. "USE" \in TxnTypes /\ amount \in Nat \ {0} /\ {} \in SUBSET TxnIds
      /\ {} \in SUBSET (Wallets \X Nat)
  BY DEF TxnTypes
<1>3. Adds(k, e)
  BY <1>1, <1>2, PostedRows DEF Debit
<1>4. e \in EntryType
  BY <1>1, <1>2, PostedTyped
<1>5. e.type = "USE" /\ e.dir = "DEBIT" /\ e.status = "COMPLETED" /\ e.amount = amount
  BY <1>1 DEF Entry
<1>6. /\ \A v \in Wallets \ {w} : wallet'[v] = wallet[v]
      /\ wallet'[w].available = wallet[w].available - amount /\ wallet'[w].held = wallet[w].held
      /\ wallet[w].available \in Int /\ wallet[w].held \in Int
  BY DEF Debit, Withdrawn, TypeInv, WalletType
<1> QED BY <1>2, <1>3, <1>4, <1>5, <1>6, PostedRolls

LEMMA HoldRolls ==
  ASSUME TypeInv, NEW w \in Wallets, NEW key \in Keys, NEW amount \in Amounts,
         Hold(w, key, amount)
  PROVE  \E k : Rolls(w, k)
<1>1. PICK k, e : /\ k = <<w, Len(journal[w]) + 1>>
                 /\ e = Entry(key, "HOLD", "DEBIT", "HELD", amount, wallet[w].available, {})
  OBVIOUS
<1>2. "HOLD" \in TxnTypes /\ amount \in Nat \ {0} /\ {} \in SUBSET TxnIds
      /\ {} \in SUBSET (Wallets \X Nat)
  BY DEF TxnTypes
<1>3. Adds(k, e)
  BY <1>1, <1>2, PostedRows DEF Hold
<1>4. e \in EntryType
  BY <1>1, <1>2, PostedTyped
<1>5. e.type = "HOLD"
  BY <1>1 DEF Entry
<1>6. /\ \A v \in Wallets \ {w} : wallet'[v] = wallet[v]
      /\ wallet'[w].available = wallet[w].available - amount
      /\ wallet'[w].held = wallet[w].held + amount
      /\ wallet[w].available \in Int /\ wallet[w].held \in Int
  BY DEF Hold, TypeInv, WalletType
<1> QED BY <1>2, <1>3, <1>4, <1>5, <1>6, PostedRolls

LEMMA ReleaseRolls ==
  ASSUME TypeInv, NEW id \in DOMAIN hold, NEW key \in Keys, Release(id, key)
  PROVE  \E w \in Wallets : \E k : Rolls(w, k)
<1>1. PICK w, amount, k, e :
        /\ w = id[1] /\ amount = hold[id].amount /\ k = <<w, Len(journal[w]) + 1>>
        /\ e = Entry(key, "RELEASE", "CREDIT", "COMPLETED", amount, wallet[w].available, {id})
  OBVIOUS
<1>2. /\ "RELEASE" \in TxnTypes /\ w \in Wallets /\ amount \in Nat \ {0}
      /\ {id} \in SUBSET TxnIds /\ {id} \in SUBSET (Wallets \X Nat)
      /\ \A x \in {id} : x[1] = w
  BY <1>1, TxnIdsAre DEF TxnTypes, TypeInv, HoldType
<1>3. Adds(k, e)
  <2>1. journal' = [journal EXCEPT ![w] =
                      Posted(w, key, "RELEASE", "CREDIT", "COMPLETED", amount, {id})]
    BY <1>1 DEF Release
  <2> QED BY <1>1, <1>2, <2>1, PostedRows
<1>4. e \in EntryType
  BY <1>1, <1>2, PostedTyped
<1>5. e.type = "RELEASE"
  BY <1>1 DEF Entry
<1>6. /\ \A v \in Wallets \ {w} : wallet'[v] = wallet[v]
      /\ wallet'[w].available = wallet[w].available + amount
      /\ wallet'[w].held = wallet[w].held - amount
      /\ wallet[w].available \in Int /\ wallet[w].held \in Int
  <2>1. wallet' = [wallet EXCEPT ![w].available = @ + amount, ![w].held = @ - amount]
    BY <1>1 DEF Release
  <2> QED BY <1>2, <2>1 DEF TypeInv, WalletType
<1> QED BY <1>2, <1>3, <1>4, <1>5, <1>6, PostedRolls

LEMMA ExpireRolls ==
  ASSUME TypeInv, NEW w \in Wallets, NEW cutoff \in 0..MaxTime, NEW key \in Keys,
         Expire(w, cutoff, key)
  PROVE  \E k : Rolls(w, k)
<1>1. PICK due : due = DueLots(w, cutoff)
  OBVIOUS
<1>2. PICK amount \in 1..wallet[w].available :
        /\ journal' = [journal EXCEPT ![w] =
                         Posted(w, key, "EXPIRATION", "DEBIT", "COMPLETED", amount, due)]
        /\ wallet' = Withdrawn(w, amount)
  BY <1>1 DEF Expire
<1>3. PICK k, e :
        /\ k = <<w, Len(journal[w]) + 1>>
        /\ e = Entry(key, "EXPIRATION", "DEBIT", "COMPLETED", amount, wallet[w].available, due)
  OBVIOUS
<1>4. wallet[w].available \in Int /\ wallet[w].held \in Int /\ amount \in Nat \ {0}
  <2>1. wallet[w].available \in Int /\ wallet[w].held \in Int
    BY DEF TypeInv, WalletType
  <2> QED BY <1>2, <2>1
<1>5. /\ "EXPIRATION" \in TxnTypes /\ due \in SUBSET TxnIds /\ due \in SUBSET (Wallets \X Nat)
      /\ \A x \in due : x[1] = w
  <2>1. due \in SUBSET TxnIds /\ \A x \in due : x[1] = w
    BY <1>1 DEF DueLots, TypeInv
  <2>2. due \in SUBSET (Wallets \X Nat)
    BY <2>1, TxnIdsAre DEF TypeInv
  <2> QED BY <2>1, <2>2 DEF TxnTypes
<1>6. Adds(k, e)
  BY <1>2, <1>3, <1>4, <1>5, PostedRows
<1>7. e \in EntryType
  BY <1>3, <1>4, <1>5, PostedTyped
<1>8. e.type = "EXPIRATION" /\ e.dir = "DEBIT" /\ e.status = "COMPLETED" /\ e.amount = amount
  BY <1>3 DEF Entry
<1>9. /\ \A v \in Wallets \ {w} : wallet'[v] = wallet[v]
      /\ wallet'[w].available = wallet[w].available - amount /\ wallet'[w].held = wallet[w].held
  BY <1>2 DEF Withdrawn, TypeInv, WalletType
<1> QED BY <1>4, <1>6, <1>7, <1>8, <1>9, PostedRolls

LEMMA ReverseRolls ==
  ASSUME TypeInv, NEW id \in TxnIds, NEW key \in Keys, Reverse(id, key)
  PROVE  \E w \in Wallets : \E k : Rolls(w, k)
<1>1. PICK w, amount, k :
        w = id[1] /\ amount = Txn(id).amount /\ k = <<id[1], Len(journal[id[1]]) + 1>>
  OBVIOUS
<1>2. /\ Txn(id) \in EntryType /\ Txn(id).status = "COMPLETED" /\ w \in Wallets
      /\ amount \in Nat \ {0} /\ Txn(id).dir \in {"CREDIT", "DEBIT"}
  BY <1>1, TxnTyped DEF Reverse, Reversible, TypeInv, EntryType
<1>3. TxnIds' = TxnIds \cup {k}
  BY <1>1, ReversedJournal
<1>4. k \notin TxnIds
  BY <1>1, ReversedJournal
<1>5. \A x \in TxnIds : Txn(x)' = IF x = id THEN ReversedMark(Txn(id)) ELSE Txn(x)
  BY <1>1, ReversedJournal
<1>6. Txn(k)' = Entry(key, "REVERSAL", Opposite(Txn(id).dir), "COMPLETED",
                      Txn(id).amount, wallet[id[1]].available, {id})
  BY <1>1, ReversedJournal
<1>7. /\ Txn(k)'.type = "REVERSAL" /\ Txn(k)'.status = "COMPLETED" /\ Txn(k)'.refs = {id}
      /\ Txn(k)'.amount = amount /\ Txn(k)'.dir = Opposite(Txn(id).dir)
  BY <1>1, <1>6 DEF Entry
<1>8. /\ Txn(id)'.type = Txn(id).type /\ Txn(id)'.refs = Txn(id).refs
      /\ Txn(id)'.amount = Txn(id).amount /\ Txn(id)'.dir = Txn(id).dir
      /\ Txn(id)'.status = "REVERSED"
  BY <1>2, <1>5 DEF ReversedMark, EntryType
<1>9. NewIds = {k}
  BY <1>3, <1>4 DEF NewIds
<1>10. Standing
  <2>1. \A x \in TxnIds : /\ Txn(x)'.type = Txn(x).type /\ Txn(x)'.refs = Txn(x).refs
                          /\ Txn(x)'.amount = Txn(x).amount /\ Txn(x)'.dir = Txn(x).dir
                          /\ Txn(x)'.status \in Settled <=> Txn(x).status \in Settled
    BY <1>2, <1>5, <1>8 DEF Settled
  <2>2. k[1] = id[1]
    BY <1>1
  <2> QED BY <1>3, <1>7, <1>9, <2>1, <2>2 DEF Standing, NewRows
<1>11. /\ \A v \in Wallets \ {w} : wallet'[v] = wallet[v]
       /\ wallet'[w].held = wallet[w].held
       /\ wallet'[w].available = IF Opposite(Txn(id).dir) = "CREDIT" THEN wallet[w].available + amount
                                 ELSE wallet[w].available - amount
       /\ wallet[w].available \in Int /\ wallet[w].held \in Int
  <2>1. wallet' = IF Opposite(Txn(id).dir) = "CREDIT" THEN Deposited(w, amount)
                  ELSE Withdrawn(w, amount)
    BY <1>1 DEF Reverse
  <2>2. wallet \in [Wallets -> WalletType] /\ wallet[w] \in WalletType
    BY <1>2 DEF TypeInv
  <2> QED BY <1>2, <2>1, <2>2 DEF Deposited, Withdrawn, WalletType
<1>12. \A v \in Wallets : /\ BalanceOf[v] = wallet[v].available + wallet[v].held
                          /\ BalanceOf'[v] = wallet'[v].available + wallet'[v].held
  BY DEF BalanceOf
<1>13. Txn(k)'.dir \in {"CREDIT", "DEBIT"}
  BY <1>2, <1>7 DEF Opposite
<1>14. Rolls(w, k)
  BY <1>2, <1>7, <1>9, <1>10, <1>11, <1>12, <1>13 DEF Rolls
<1> QED BY <1>2, <1>14

\* Points that move between wallets are not a movement.
LEMMA MergeRolls ==
  ASSUME TypeInv, TypeInv', BalancesSound, BalancesSound', IsFiniteSet(Wallets),
         LiabilityRollsForward, NEW source \in Wallets, NEW target \in Wallets,
         NEW keyOut \in Keys, NEW keyIn \in Keys, Merge(source, target, keyOut, keyIn)
  PROVE  LiabilityRollsForward'
<1>1. /\ TxnIds \subseteq TxnIds'
      /\ \A id \in TxnIds : Txn(id)' = Txn(id)
      /\ \A k \in NewIds : /\ Txn(k)'.type \in {"ACCOUNT_MERGE_OUT", "ACCOUNT_MERGE_IN"}
                           /\ Txn(k)'.status = "COMPLETED" /\ Txn(k)'.refs = {}
  BY MergeRows
<1>2. Standing
  BY <1>1 DEF Standing, NewRows
<1>3. \A k \in NewIds : Txn(k)'.type \in BalanceNeutralTypes
  BY <1>1 DEF BalanceNeutralTypes
<1>4. ASSUME NEW dir PROVE Total(AmountOf, Movement(dir))' = Total(AmountOf, Movement(dir))
  BY <1>2, <1>3, MovementRests
<1>5. \A v \in Wallets : BalanceOf[v] \in Nat /\ BalanceOf'[v] \in Nat
  <2>1. \A v \in Wallets : BalanceOf[v] \in Nat
    BY BalanceType
  <2>2. ASSUME NEW v \in Wallets PROVE BalanceOf'[v] \in Nat
    <3>1. wallet'[v] \in WalletType /\ wallet'[v].available >= 0 /\ wallet'[v].held >= 0
      BY DEF TypeInv, BalancesSound
    <3> QED BY <3>1 DEF BalanceOf, WalletType
  <2> QED BY <2>1, <2>2
<1>6. \A v \in Wallets : /\ BalanceOf[v] = wallet[v].available + wallet[v].held
                         /\ BalanceOf'[v] = wallet'[v].available + wallet'[v].held
  BY DEF BalanceOf
<1>7. PICK amount : amount = wallet[source].available
  OBVIOUS
<1>8. /\ amount \in Int /\ source # target
      /\ wallet \in [Wallets -> WalletType]
      /\ wallet[source] \in WalletType /\ wallet[target] \in WalletType
  BY <1>7 DEF TypeInv, WalletType, Merge
<1>9. Total(BalanceOf', Wallets) = Total(BalanceOf, Wallets)
  <2>1. CASE amount > 0
    <3>1. /\ \A v \in Wallets \ {source, target} : wallet'[v] = wallet[v]
          /\ wallet'[source] = [wallet[source] EXCEPT !.available = 0, !.debited = @ + amount,
                                                      !.status = "MERGED"]
          /\ wallet'[target] = [wallet[target] EXCEPT !.available = @ + amount,
                                                      !.credited = @ + amount]
      BY <1>7, <1>8, <2>1 DEF Merge
    <3>2. \A v \in Wallets \ {source, target} : BalanceOf[v] = BalanceOf'[v]
      BY <1>6, <3>1
    <3>3. /\ wallet'[source].available = 0 /\ wallet'[source].held = wallet[source].held
          /\ wallet'[target].available = wallet[target].available + amount
          /\ wallet'[target].held = wallet[target].held
          /\ wallet[source].held \in Int /\ wallet[target].held \in Int
          /\ wallet[target].available \in Int
      BY <1>8, <3>1 DEF WalletType
    <3>4. BalanceOf[source] + BalanceOf[target] = BalanceOf'[source] + BalanceOf'[target]
      BY <1>6, <1>7, <1>8, <3>3
    <3> QED BY <1>5, <1>8, <3>2, <3>4, TotalShift
  <2>2. CASE ~(amount > 0)
    <3>1. wallet' = [wallet EXCEPT ![source].status = "MERGED"]
      BY <1>7, <2>2 DEF Merge
    <3>2. \A v \in Wallets : wallet'[v].available = wallet[v].available
                             /\ wallet'[v].held = wallet[v].held
      BY <1>8, <3>1 DEF WalletType
    <3>3. \A v \in Wallets : BalanceOf'[v] = BalanceOf[v]
      BY <1>6, <3>2
    <3> QED BY <3>3, TotalSame
  <2> QED BY <2>1, <2>2
<1> QED BY <1>4, <1>9 DEF LiabilityRollsForward, WalletBalances, BalanceOf

LEMMA LiabilityStep ==
  ASSUME IsFiniteSet(Wallets), TypeInv, TypeInv', BalancesSound, BalancesSound',
         LiabilityRollsForward, [Next]_vars
  PROVE  LiabilityRollsForward'
<1>1. CASE Tick \/ UNCHANGED vars
  <2>1. wallet' = wallet /\ journal' = journal
    BY <1>1 DEF Tick, vars
  <2>2. TxnIds' = TxnIds /\ (\A id : Txn(id)' = Txn(id)) /\ BalanceOf' = BalanceOf
    BY <2>1 DEF TxnIds, Txn, BalanceOf
  <2>3. AmountOf' = AmountOf
    BY <2>2 DEF AmountOf
  <2>4. ASSUME NEW dir PROVE Movement(dir)' = Movement(dir)
    BY <2>2 DEF Movement
  <2>5. ASSUME NEW dir PROVE Total(AmountOf, Movement(dir))' = Total(AmountOf, Movement(dir))
    BY <2>3, <2>4
  <2>6. Total(BalanceOf, Wallets)' = Total(BalanceOf, Wallets)
    BY <2>2
  <2> QED BY <2>5, <2>6 DEF LiabilityRollsForward, WalletBalances, BalanceOf
<1>2. ASSUME NEW w \in Wallets, NEW k, Rolls(w, k) PROVE LiabilityRollsForward'
  BY <1>2, RollsForward
<1>3. \/ \E w \in Wallets : \E k : Rolls(w, k)
      \/ Tick \/ UNCHANGED vars
      \/ \E source, target \in Wallets, keyOut, keyIn \in Keys :
           Merge(source, target, keyOut, keyIn)
  BY CreditRolls, DebitRolls, HoldRolls, ReleaseRolls, ReverseRolls, ExpireRolls DEF Next
<1> QED BY <1>1, <1>2, <1>3, MergeRolls

\* The point liability report rolls forward without a difference: what all
\* wallets hold is what was credited less what was debited, with merges and
\* holds left out on both sides, for any finite number of wallets.
THEOREM Liability ==
  ASSUME IsFiniteSet(Wallets)
  PROVE  Spec => []LiabilityRollsForward
<1>1. Init => LiabilityRollsForward
  <2> SUFFICES ASSUME Init PROVE LiabilityRollsForward
    OBVIOUS
  <2>1. TxnIds = {} /\ \A w \in Wallets : BalanceOf[w] = 0
    BY DEF Init, TxnIds, BalanceOf
  <2>2. \A dir : Movement(dir) = {}
    BY <2>1 DEF Movement
  <2>3. Total(BalanceOf, Wallets) = 0
    <3>1. Points(BalanceOf, Wallets) = {}
      BY <2>1 DEF Points
    <3> QED BY <3>1, FS_EmptySet DEF Total
  <2>4. Total(AmountOf, Movement("CREDIT")) = 0 /\ Total(AmountOf, Movement("DEBIT")) = 0
    BY <2>2, TotalEmpty
  <2> QED BY <2>3, <2>4 DEF LiabilityRollsForward, WalletBalances, BalanceOf
<1>2. TypeInv /\ TypeInv' /\ BalancesSound /\ BalancesSound' /\ LiabilityRollsForward /\ [Next]_vars
        => LiabilityRollsForward'
  BY LiabilityStep
<1> QED BY <1>1, <1>2, Invariance, Balances, PTL DEF Spec

=============================================================================
