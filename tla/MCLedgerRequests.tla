-------------------------- MODULE MCLedgerRequests --------------------------
(* Concurrent calls on a small ledger: the first wallet was granted three    *)
(* points of which one is held, the second was granted one, a third nothing. *)
EXTENDS LedgerRequests, TLC

CONSTANTS a, b, g1, g2, h

Funds(available, held) ==
  [status |-> "ACTIVE", available |-> available, held |-> held,
   credited |-> available + held, debited |-> 0]

MCWallet0 ==
  [w \in Wallets |-> CASE w = 1 -> Funds(2, 1) [] w = 2 -> Funds(1, 0) [] OTHER -> Funds(0, 0)]

MCJournal0 ==
  [w \in Wallets |->
     CASE w = 1 -> <<L!Entry(g1, "GRANT", "CREDIT", "COMPLETED", 3, 0, {}),
                     L!Entry(h, "HOLD", "DEBIT", "HELD", 1, 3, {})>>
       [] w = 2 -> <<L!Entry(g2, "GRANT", "CREDIT", "COMPLETED", 1, 0, {})>>
       [] OTHER -> <<>>]

MCHold0 == <<1, 2>> :> [amount |-> 1, status |-> "HELD"]

Simple(op, w, key, amount) == [op |-> op, wallet |-> w, key |-> key, amount |-> amount]
Undo(op, id, key) == [op |-> op, id |-> id, key |-> key]
MergeInto(w, target, key) == [op |-> "MERGE", wallet |-> w, target |-> target, key |-> key]

(* Calls that meet on one wallet, one hold, one transaction or one key, and  *)
(* merges that go round three wallets.                                       *)
MCRequests ==
  {Simple("GRANT", 1, a, 1), Simple("USE", 1, a, 2), Simple("HOLD", 1, b, 1),
   Undo("RELEASE", <<1, 2>>, a), Undo("RELEASE", <<1, 2>>, b),
   Undo("REVERSE", <<2, 1>>, a), Undo("REVERSE", <<2, 1>>, b),
   MergeInto(1, 2, b), MergeInto(2, 1, a), MergeInto(2, 3, b), MergeInto(3, 1, a)}

=============================================================================
