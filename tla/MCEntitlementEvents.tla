------------------------ MODULE MCEntitlementEvents ------------------------
(* A small instance of EntitlementEvents for TLC: two events, each of which   *)
(* may come with several bodies, so that any two of these messages may meet   *)
(* under one event id or under two.                                           *)
EXTENDS EntitlementEvents, TLC

CONSTANTS w1, w2, a1, e1, e2, m1, m2, t1, t2, card

Grant(e, t) == [kind |-> "grant", entitlement |-> e, terms |-> t]
Revoke(e) == [kind |-> "revoke", entitlement |-> e]

MCWorkers == {w1, w2}
Symmetry == Permutations(MCWorkers)
MCAdmins == {a1}
MCCallers == {w1, w2, a1}
MCEntitled == {e1, e2}
MCTerms == {t1, t2}
MCAssetOf == [t \in {t1, t2} |-> card]
MCEvents == {m1, m2}
MCDeliveries ==
  {<<m1, Grant(e1, t1)>>, <<m1, Revoke(e1)>>,
   <<m2, Grant(e1, t2)>>, <<m2, Grant(e2, t1)>>, <<m2, Revoke(e1)>>}
MCBodies == {d[2] : d \in MCDeliveries}

=============================================================================
