-------------------------- MODULE MCCommonUserLinks --------------------------
(* Two accounts and two ids: merges that name the ids in both orders, links   *)
(* of one id to both accounts and of both ids to one account.                *)
EXTENDS CommonUserLinks, TLC

CONSTANTS ann, bob, i1, i2

MCRank == i1 :> 1 @@ i2 :> 2
MCGiven == {ann :> None @@ bob :> None, ann :> i1 @@ bob :> None, ann :> i1 @@ bob :> i2}

Symmetry == Permutations(Calls) \cup Permutations(Agencies)

=============================================================================
