------------------------------ MODULE MCOutbox ------------------------------
(* Small instances of Outbox for TLC. *)
EXTENDS Outbox, TLC

Symmetry == Permutations(Events) \cup Permutations(Dispatchers)

=============================================================================
