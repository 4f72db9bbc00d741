------------------------- MODULE MCApprovalWorkflow -------------------------
(* Small instances of ApprovalWorkflow for TLC. *)
EXTENDS ApprovalWorkflow, TLC

Symmetry == Permutations(Admins) \cup Permutations(ApprovalRequests)

(* Two users, one of them on two lines *)
MCOldUsers == {"u", "v"}
MCCsv == [f \in Files |-> <<"u", "v">>]

(* Requests with different payloads share no key: one subject at a time. *)
OneSubject == Cardinality({request[r].payload : r \in DOMAIN request} \cup direct) <= 1

=============================================================================
