--------------------------- MODULE MCScheduledJobs ---------------------------
(* The day before the month's end and the day after, two instances, one      *)
(* transaction and two accounts with a lot each.                             *)
EXTENDS ScheduledJobs, TLC

CONSTANTS a, b

MCLots == {[account |-> a, expires |-> 2], [account |-> b, expires |-> 3]}

Symmetry == Permutations(Instances)

=============================================================================
