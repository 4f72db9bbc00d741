---------------------------- MODULE MCDailyBonus ----------------------------
EXTENDS DailyBonus, TLC

MCSchedule == <<10, 10, 20>>

Symmetry == Permutations(Claims)

=============================================================================
