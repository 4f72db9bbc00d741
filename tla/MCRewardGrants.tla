--------------------------- MODULE MCRewardGrants ---------------------------
(* Requests that meet on a rule, on the integration's daily limit or on a    *)
(* key: one user has an account, the other gets it with a first grant.       *)
EXTENDS RewardGrants, TLC

CONSTANTS old, new, k1, k2, k3, k4, k5, k6, k7, k8

Request(route, key, user, event, amount) ==
  [route |-> route, key |-> key, user |-> user, event |-> event, amount |-> amount]

(* One key comes in two requests of the service, of different types. *)
MCRequests ==
  {Request("JOURNEY", k1, new, k1, 1), Request("JOURNEY", k2, new, k1, 1),
   Request("OTHER", k2, old, k2, 1), Request("PURCHASE", k3, old, k3, 2),
   Request("AWARD", k4, old, k4, 1),
   Request("EVENT", k5, old, k5, 2), Request("EVENT", k6, old, k6, 1),
   Request("MILESTONE", k7, old, k7, 1), Request("MILESTONE", k8, old, k8, 1)}

Unlimited == [active |-> TRUE, starts |-> 0, ends |-> MaxDay, perUser |-> 0, perEvent |-> 0,
              monthlyCount |-> 0, monthly |-> 0, total |-> 0]
Stopped == [Unlimited EXCEPT !.active = FALSE]

(* Registrations end with the first day and count once for an event; the     *)
(* agency's awards begin on the second; a purchase is above its rule's limit *)
(* and the rule not required; reward.granted has its limits changed; one     *)
(* milestone is counted in a month.                                          *)
MCSettings ==
  [route \in Ruled |->
     CASE route = "JOURNEY" -> {[Unlimited EXCEPT !.ends = 0, !.perEvent = 1]}
       [] route = "PURCHASE" -> {[Unlimited EXCEPT !.monthly = 1], Stopped}
       [] route = "AWARD" -> {[Unlimited EXCEPT !.starts = 1]}
       [] route = "EVENT" -> {[Unlimited EXCEPT !.total = 2], [Unlimited EXCEPT !.perUser = 1], Stopped}
       [] route = "MILESTONE" -> {[Unlimited EXCEPT !.monthlyCount = 1]}]

Symmetry == Permutations(Calls)

=============================================================================
