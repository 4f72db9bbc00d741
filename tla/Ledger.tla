------------------------------- MODULE Ledger -------------------------------
(***************************************************************************)
(* The OVE point ledger, packages/ledger: wallets, the transactions posted  *)
(* on them, admin holds, and the credit lots that make granted points       *)
(* expire.  Every operation of the package changes the database in one      *)
(* transaction that first takes the wallet's row lock and re-reads what it  *)
(* decides on, so one action here is one committed transaction.             *)
(* LedgerRequests opens that transaction up and shows that the interleaved  *)
(* requests implement these actions.                                        *)
(***************************************************************************)
EXTENDS Integers, Sequences, FiniteSets, PointTotals

CONSTANTS
  Wallets,      \* wallets (each belongs to one OVE account)
  Keys,         \* idempotency keys, unique in ove_transactions
  Amounts,      \* amounts a request may carry
  ExpiryDays,   \* reward_rules.expiry_days a grant may carry; 0 is "does not expire"
  MaxTime       \* bound on the clock

ASSUME AmountsAssumption == Amounts \subseteq Nat \ {0}
ASSUME ExpiryDaysAssumption == ExpiryDays \subseteq Nat
ASSUME MaxTimeAssumption == MaxTime \in Nat

VARIABLES
  wallet,       \* wallets: status and the cached balance columns
  journal,      \* ove_transactions, per wallet in posting order
  hold,         \* wallet_holds, by the id of their HOLD transaction
  lot,          \* ove_credit_lots, by the id of their CREDIT transaction
  now           \* the clock

vars == <<wallet, journal, hold, lot, now>>

-----------------------------------------------------------------------------
(* A transaction's id is its wallet and its place in that wallet's journal. *)
TxnIds == UNION {{<<w, i>> : i \in DOMAIN journal[w]} : w \in Wallets}
Txn(id) == journal[id[1]][id[2]]
UsedKeys == {Txn(id).key : id \in TxnIds}

(* "GRANT" stands for the transaction types of creditWallet and "USE" for   *)
(* those of debitWallet.                                                    *)
TxnTypes == {"GRANT", "USE", "HOLD", "RELEASE", "REVERSAL", "EXPIRATION",
             "ACCOUNT_MERGE_OUT", "ACCOUNT_MERGE_IN"}

Smaller(a, b) == IF a < b THEN a ELSE b
Opposite(dir) == IF dir = "CREDIT" THEN "DEBIT" ELSE "CREDIT"

(* refs: relatedTransactionId of a REVERSAL, metadata.walletHoldId of a     *)
(* RELEASE, metadata.lotIds of an EXPIRATION.                               *)
Entry(key, type, dir, status, amount, before, refs) ==
  [key |-> key, type |-> type, dir |-> dir, status |-> status,
   amount |-> amount, before |-> before,
   after |-> IF dir = "CREDIT" THEN before + amount ELSE before - amount,
   refs |-> refs]

\* Mutant: the new row continues from everything the wallet has, held too.
PostedOnTotal(w, key, type, dir, status, amount, refs) ==
  Append(journal[w],
         Entry(key, type, dir, status, amount,
               wallet[w].available + wallet[w].held, refs))

Posted(w, key, type, dir, status, amount, refs) ==
  Append(journal[w],
         Entry(key, type, dir, status, amount, wallet[w].available, refs))

Deposited(w, amount) ==
  [wallet EXCEPT ![w].available = @ + amount, ![w].credited = @ + amount]

\* Mutant: lifetime_debited is not incremented.
WithdrawnUncounted(w, amount) == [wallet EXCEPT ![w].available = @ - amount]

Withdrawn(w, amount) ==
  [wallet EXCEPT ![w].available = @ - amount, ![w].debited = @ + amount]

-----------------------------------------------------------------------------
Init ==
  /\ wallet = [w \in Wallets |-> [status |-> "ACTIVE", available |-> 0,
                                  held |-> 0, credited |-> 0, debited |-> 0]]
  /\ journal = [w \in Wallets |-> <<>>]
  /\ hold = [id \in {} |-> {}]
  /\ lot = [id \in {} |-> {}]
  /\ now = 0

\* Mutant: the check is left out.
ActiveUnchecked(w) == TRUE

Active(w) == wallet[w].status = "ACTIVE"
Covers(w, amount) == wallet[w].available >= amount

(* creditWallet / creditWalletInTransaction *)
Credit(w, key, amount, days) ==
  /\ key \notin UsedKeys
  /\ Active(w)
  /\ journal' = [journal EXCEPT ![w] =
                   Posted(w, key, "GRANT", "CREDIT", "COMPLETED", amount, {})]
  /\ wallet' = Deposited(w, amount)
  /\ lot' = IF days = 0 THEN lot
            ELSE [id \in DOMAIN lot \cup {<<w, Len(journal[w]) + 1>>} |->
                    IF id \in DOMAIN lot THEN lot[id]
                    ELSE [amount |-> amount, remaining |-> amount,
                          expiresAt |-> now + days, state |-> "OPEN"]]
  /\ UNCHANGED <<hold, now>>

(* consumeCreditLotsFifo: the lots of w it may touch, and what it takes from *)
(* each: as much of the amount as they hold, the earliest due first; lots    *)
(* due at the same time come in no fixed order, but one at a time.           *)
Spendable(w) ==
  {id \in DOMAIN lot : /\ id[1] = w
                       /\ lot[id].state = "OPEN"
                       /\ lot[id].remaining > 0
                       /\ lot[id].expiresAt > now}

Remaining == [id \in DOMAIN lot |-> lot[id].remaining]

FifoConsumption(taken, lots, amount) ==
  /\ \A l \in lots : taken[l] <= lot[l].remaining
  /\ Total(taken, lots) = Smaller(amount, Total(Remaining, lots))
  /\ \A l, m \in lots :
       taken[m] > 0 /\ lot[l].expiresAt < lot[m].expiresAt
         => taken[l] = lot[l].remaining
  /\ \A l, m \in lots :
       l # m /\ taken[l] > 0 /\ taken[m] > 0
         => taken[l] = lot[l].remaining \/ taken[m] = lot[m].remaining

ConsumeLots(w, amount) ==
  \E taken \in [Spendable(w) -> 0..amount] :
    /\ FifoConsumption(taken, Spendable(w), amount)
    /\ lot' = [id \in DOMAIN lot |->
                 IF id \in Spendable(w)
                 THEN [lot[id] EXCEPT !.remaining = @ - taken[id]]
                 ELSE lot[id]]

(* debitWallet *)
Debit(w, key, amount) ==
  /\ key \notin UsedKeys
  /\ Active(w)
  /\ Covers(w, amount)
  /\ journal' = [journal EXCEPT ![w] =
                   Posted(w, key, "USE", "DEBIT", "COMPLETED", amount, {})]
  /\ wallet' = Withdrawn(w, amount)
  /\ ConsumeLots(w, amount)
  /\ UNCHANGED <<hold, now>>

(* holdBalance: the HOLD row keeps the status HELD for ever *)
Hold(w, key, amount) ==
  /\ key \notin UsedKeys
  /\ Active(w)
  /\ Covers(w, amount)
  /\ journal' = [journal EXCEPT ![w] =
                   Posted(w, key, "HOLD", "DEBIT", "HELD", amount, {})]
  /\ wallet' = [wallet EXCEPT ![w].available = @ - amount, ![w].held = @ + amount]
  /\ hold' = [id \in DOMAIN hold \cup {<<w, Len(journal[w]) + 1>>} |->
                IF id \in DOMAIN hold THEN hold[id]
                ELSE [amount |-> amount, status |-> "HELD"]]
  /\ UNCHANGED <<lot, now>>

Releasable(id) == hold[id].status = "HELD"

(* releaseHold: allowed whatever the status of the wallet *)
Release(id, key) ==
  LET w == id[1]
      amount == hold[id].amount
  IN /\ key \notin UsedKeys
     /\ Releasable(id)
     /\ journal' = [journal EXCEPT ![w] =
                      Posted(w, key, "RELEASE", "CREDIT", "COMPLETED", amount, {id})]
     /\ hold' = [hold EXCEPT ![id].status = "RELEASED"]
     /\ wallet' = [wallet EXCEPT ![w].available = @ + amount, ![w].held = @ - amount]
     /\ UNCHANGED <<lot, now>>

AlreadyReversed(id) ==
  \E r \in TxnIds : Txn(r).type = "REVERSAL" /\ id \in Txn(r).refs

Reversible(id) == Txn(id).status = "COMPLETED" /\ ~AlreadyReversed(id)

\* Mutant: the original is rewritten as if it had never moved anything.
ReversedMarkEmptied(entry) == [entry EXCEPT !.status = "REVERSED", !.amount = 0]

ReversedMark(entry) == [entry EXCEPT !.status = "REVERSED"]

(* Reversing a grant voids its lot, whatever is left of it. *)
\* Mutant: the lot of a reversed grant stays open.
VoidedLotsForgotten(id) == lot

VoidedLots(id) ==
  IF id \in DOMAIN lot /\ Txn(id).dir = "CREDIT" /\ lot[id].state = "OPEN"
  THEN [lot EXCEPT ![id].state = "VOIDED", ![id].remaining = 0]
  ELSE lot

(* reverseTransaction: any COMPLETED transaction, whatever its type and     *)
(* whatever the status of the wallet                                        *)
Reverse(id, key) ==
  LET w == id[1]
      dir == Opposite(Txn(id).dir)
      amount == Txn(id).amount
      marked == [journal[w] EXCEPT ![id[2]] = ReversedMark(Txn(id))]
  IN /\ key \notin UsedKeys
     /\ Reversible(id)
     /\ dir = "DEBIT" => Covers(w, amount)
     /\ journal' = [journal EXCEPT ![w] =
                      Append(marked, Entry(key, "REVERSAL", dir, "COMPLETED", amount,
                                           wallet[w].available, {id}))]
     /\ wallet' = IF dir = "CREDIT" THEN Deposited(w, amount) ELSE Withdrawn(w, amount)
     /\ lot' = VoidedLots(id)
     /\ UNCHANGED <<hold, now>>

DueLots(w, cutoff) ==
  {id \in DOMAIN lot : /\ id[1] = w
                       /\ lot[id].state = "OPEN"
                       /\ lot[id].remaining > 0
                       /\ lot[id].expiresAt <= cutoff}

(* expireDueCreditLots for one wallet: the batch took its time "cutoff"     *)
(* when it started, and caps what is due by what is available.  When        *)
(* nothing is available the lots stay open.  The key is a generated one.    *)
Expire(w, cutoff, key) ==
  LET due == DueLots(w, cutoff)
  IN /\ cutoff <= now
     /\ key \notin UsedKeys
     /\ due # {}
     /\ \E amount \in 1..wallet[w].available :
          /\ amount = Smaller(Total(Remaining, due), wallet[w].available)
          /\ journal' = [journal EXCEPT ![w] =
                           Posted(w, key, "EXPIRATION", "DEBIT", "COMPLETED", amount, due)]
          /\ wallet' = Withdrawn(w, amount)
     /\ lot' = [id \in DOMAIN lot |->
                  IF id \in due
                  THEN [lot[id] EXCEPT !.state = "EXPIRED", !.remaining = 0]
                  ELSE lot[id]]
     /\ UNCHANGED <<hold, now>>

(* mergeAccounts: the available balance moves, held points and lots stay.   *)
(* The two keys are the ":OUT" and ":IN" forms of the merge's own key.      *)
Merge(source, target, keyOut, keyIn) ==
  LET amount == wallet[source].available
  IN /\ source # target
     /\ Active(source)
     /\ Active(target)
     /\ IF amount > 0
        THEN /\ {keyOut, keyIn} \cap UsedKeys = {}
             /\ keyOut # keyIn
             /\ journal' = [journal EXCEPT
                  ![source] = Posted(source, keyOut, "ACCOUNT_MERGE_OUT", "DEBIT",
                                     "COMPLETED", amount, {}),
                  ![target] = Posted(target, keyIn, "ACCOUNT_MERGE_IN", "CREDIT",
                                     "COMPLETED", amount, {})]
             /\ wallet' = [wallet EXCEPT
                  ![source] = [wallet[source] EXCEPT !.available = 0, !.debited = @ + amount,
                                                     !.status = "MERGED"],
                  ![target] = [wallet[target] EXCEPT !.available = @ + amount,
                                                     !.credited = @ + amount]]
        ELSE /\ wallet' = [wallet EXCEPT ![source].status = "MERGED"]
             /\ UNCHANGED journal
     /\ UNCHANGED <<hold, lot, now>>

Tick ==
  /\ now < MaxTime
  /\ now' = now + 1
  /\ UNCHANGED <<wallet, journal, hold, lot>>

Next ==
  \/ \E w \in Wallets, key \in Keys, amount \in Amounts, days \in ExpiryDays :
       Credit(w, key, amount, days)
  \/ \E w \in Wallets, key \in Keys, amount \in Amounts : Debit(w, key, amount)
  \/ \E w \in Wallets, key \in Keys, amount \in Amounts : Hold(w, key, amount)
  \/ \E id \in DOMAIN hold, key \in Keys : Release(id, key)
  \/ \E id \in TxnIds, key \in Keys : Reverse(id, key)
  \/ \E w \in Wallets, cutoff \in 0..MaxTime, key \in Keys : Expire(w, cutoff, key)
  \/ \E source, target \in Wallets, keyOut, keyIn \in Keys :
       Merge(source, target, keyOut, keyIn)
  \/ Tick

Spec == Init /\ [][Next]_vars

-----------------------------------------------------------------------------
(* Properties                                                               *)

EntryType ==
  [key : Keys, type : TxnTypes, dir : {"CREDIT", "DEBIT"},
   status : {"COMPLETED", "HELD", "REVERSED"}, amount : Nat \ {0},
   before : Int, after : Int, refs : SUBSET (Wallets \X Nat)]

\* Type invariant of the rows the package writes.
TypeOK ==
  /\ wallet \in [Wallets -> [status : {"ACTIVE", "MERGED"}, available : Int,
                             held : Int, credited : Nat, debited : Nat]]
  /\ journal \in [Wallets -> Seq(EntryType)]
  /\ DOMAIN hold \subseteq TxnIds
  /\ hold \in [DOMAIN hold -> [amount : Nat \ {0}, status : {"HELD", "RELEASED"}]]
  /\ DOMAIN lot \subseteq TxnIds
  /\ lot \in [DOMAIN lot -> [amount : Nat \ {0}, remaining : Nat, expiresAt : Nat,
                             state : {"OPEN", "EXPIRED", "VOIDED"}]]
  /\ now \in 0..MaxTime

\* No wallet's available or held balance is ever negative (ledger-rules.md,
\* rule 4): every debit, reversal, expiry and merge is covered when it posts.
\* What it has, available or held, is what it was ever credited minus what it
\* was ever debited, and what is held is the sum of the holds still HELD.
BalancesSound ==
  \A w \in Wallets :
    /\ wallet[w].available >= 0 /\ wallet[w].held >= 0
    /\ wallet[w].available + wallet[w].held = wallet[w].credited - wallet[w].debited
    /\ wallet[w].held =
         Total([id \in DOMAIN hold |-> hold[id].amount],
               {id \in DOMAIN hold : id[1] = w /\ hold[id].status = "HELD"})

\* Every change of an available balance is on the journal: each transaction
\* starts from the balance the one before it left, and the cached balance is
\* the one the last transaction left.
JournalChained ==
  \A w \in Wallets :
    /\ \A i \in DOMAIN journal[w] :
         journal[w][i].before = IF i = 1 THEN 0 ELSE journal[w][i-1].after
    /\ wallet[w].available =
         IF journal[w] = <<>> THEN 0 ELSE journal[w][Len(journal[w])].after

(* reconcileWallet: which transactions count, and the balance they make     *)
\* Mutant: RELEASE rows count although the HOLD they undo does not.
CountedWithRelease(w, dir) ==
  {id \in TxnIds : /\ id[1] = w
                   /\ Txn(id).dir = dir
                   /\ Txn(id).status \in {"COMPLETED", "REVERSED"}
                   /\ Txn(id).type # "HOLD"}

Counted(w, dir) ==
  {id \in TxnIds : /\ id[1] = w
                   /\ Txn(id).dir = dir
                   /\ Txn(id).status \in {"COMPLETED", "REVERSED"}
                   /\ Txn(id).type \notin {"HOLD", "RELEASE"}}

AmountOf == [id \in TxnIds |-> Txn(id).amount]

ComputedBalance(w) ==
  Total(AmountOf, Counted(w, "CREDIT")) - Total(AmountOf, Counted(w, "DEBIT"))
    - wallet[w].held

\* The periodic reconciliation never finds a difference: the journal always
\* adds up to the cached balance of every wallet, reversals, holds, releases
\* and merges included.
Reconciled == \A w \in Wallets : wallet[w].available = ComputedBalance(w)

\* A transaction is REVERSED exactly when one REVERSAL refers to it: one, for
\* the same amount, the other way, on the same wallet.
ReversedOnce ==
  \A id \in TxnIds :
    LET reversals == {r \in TxnIds : Txn(r).type = "REVERSAL" /\ id \in Txn(r).refs}
    IN /\ Txn(id).status = "REVERSED" <=> reversals # {}
       /\ \A r, s \in reversals : r = s
       /\ \A r \in reversals : /\ r[1] = id[1]
                               /\ Txn(r).amount = Txn(id).amount
                               /\ Txn(r).dir = Opposite(Txn(id).dir)

\* A hold is RELEASED exactly when one RELEASE refers to it, for the held
\* amount: two releases of one hold never both pay out.
ReleasedOnce ==
  \A id \in DOMAIN hold :
    LET releases == {r \in TxnIds : Txn(r).type = "RELEASE" /\ id \in Txn(r).refs}
    IN /\ hold[id].status = "RELEASED" <=> releases # {}
       /\ \A r, s \in releases : r = s
       /\ \A r \in releases : r[1] = id[1] /\ Txn(r).amount = hold[id].amount

\* A lot ends in one way.  It is EXPIRED exactly when one EXPIRATION names it,
\* never before it was due, and together with its other lots for no more than
\* was granted; a reversed grant's lot is closed, so reversing a grant and
\* expiring it never both take the same points after the reversal.
LotEndsOnce ==
  /\ \A id \in DOMAIN lot :
       LET expirations == {e \in TxnIds : Txn(e).type = "EXPIRATION" /\ id \in Txn(e).refs}
       IN /\ lot[id].state = "EXPIRED" <=> expirations # {}
          /\ \A e, f \in expirations : e = f
          /\ lot[id].state = "EXPIRED" => lot[id].expiresAt <= now
          /\ lot[id].state # "OPEN" => lot[id].remaining = 0
          /\ Txn(id).status = "REVERSED" => lot[id].state # "OPEN"
  /\ \A e \in TxnIds :
       Txn(e).type = "EXPIRATION" => Txn(e).amount <= Total(AmountOf, Txn(e).refs)

\* Nothing is undone twice: no transaction reversed, no hold released and no
\* lot closed by two transactions, or by one that says something else.
EndedOnce == ReversedOnce /\ ReleasedOnce /\ LotEndsOnce

(* PointLiabilityService: the points outstanding, and the transactions that  *)
(* its roll-forward table counts as movements of them                        *)
BalanceNeutralTypes == {"HOLD", "RELEASE", "ACCOUNT_MERGE_IN", "ACCOUNT_MERGE_OUT"}

WalletBalances == Total([w \in Wallets |-> wallet[w].available + wallet[w].held], Wallets)

\* Mutant: a reversed transaction no longer counts, its reversal does.
MovementCompletedOnly(dir) ==
  {id \in TxnIds : /\ Txn(id).dir = dir
                   /\ Txn(id).status = "COMPLETED"
                   /\ Txn(id).type \notin BalanceNeutralTypes}

Movement(dir) ==
  {id \in TxnIds : /\ Txn(id).dir = dir
                   /\ Txn(id).status \in {"COMPLETED", "REVERSED"}
                   /\ Txn(id).type \notin BalanceNeutralTypes}

\* The report of point-liability.md rolls forward without a difference: the
\* points all wallets hold are those credited minus those debited, transfers
\* between available and held and between wallets left out on both sides.
LiabilityRollsForward ==
  WalletBalances = Total(AmountOf, Movement("CREDIT")) - Total(AmountOf, Movement("DEBIT"))

\* Posted transactions are never removed or rewritten: the only thing that may
\* change on one is its status, from COMPLETED to REVERSED (ledger-rules.md,
\* rules 2 and 3).
HistoryImmutable ==
  [][\A w \in Wallets :
       /\ Len(journal[w]) <= Len(journal'[w])
       /\ \A i \in DOMAIN journal[w] :
            \/ journal'[w][i] = journal[w][i]
            \/ /\ journal[w][i].status = "COMPLETED"
               /\ journal'[w][i] = [journal[w][i] EXCEPT !.status = "REVERSED"]]_vars

\* A merged wallet is closed to business for good: nothing is granted to it,
\* spent, held or merged again; only what was pending on it is still undone
\* (releases, reversals, expiries).
MergedWalletClosed ==
  [][\A w \in Wallets :
       wallet[w].status = "MERGED" =>
         /\ wallet'[w].status = "MERGED"
         /\ \A i \in DOMAIN journal'[w] \ DOMAIN journal[w] :
              journal'[w][i].type \in {"RELEASE", "REVERSAL", "EXPIRATION"}]_vars

\* credit-expiry.md: "what the user has already used up does not expire".
\* Once a debit has emptied a wallet that has no held points, the lots granted
\* before it are spent, and no later expiry names one of them.
SpentPointsDoNotExpire ==
  \A w \in Wallets : \A c, d, e \in DOMAIN journal[w] :
    (/\ c < d /\ d < e
     /\ journal[w][d].type = "USE"
     /\ journal[w][d].after = 0
     /\ journal[w][e].type = "EXPIRATION"
     /\ \A i \in DOMAIN journal[w] : journal[w][i].type # "HOLD")
      => <<w, c>> \notin journal[w][e].refs

=============================================================================
