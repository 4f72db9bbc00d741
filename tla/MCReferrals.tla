----------------------------- MODULE MCReferrals -----------------------------
(* Two people who register and one whose bonus was left half done. *)
EXTENDS Referrals, TLC

CONSTANTS old, ann, bob, s0, s1, s2, k0, k1, k2

MCHalfway == old :> s0
OwnLinks == [s \in Sessions |-> CASE s = s0 -> k0 [] s = s1 -> k1 [] s = s2 -> k2]

\* Two visits of one link: its key says nothing of the person.
SharedLink == [s \in Sessions |-> IF s = s0 THEN k0 ELSE k1]

Symmetry == {p @@ q : p \in Permutations(Workers), q \in Permutations({ann, bob})}

=============================================================================
