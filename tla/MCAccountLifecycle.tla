------------------------- MODULE MCAccountLifecycle -------------------------
EXTENDS AccountLifecycle, TLC

Symmetry == Permutations(Logins) \cup Permutations(Requests) \cup Permutations(AccountIds)

=============================================================================
