---------------------------- MODULE Grants_proofs ----------------------------
(***************************************************************************)
(* Theorems about the two ways points are given out under a rule: by two     *)
(* administrators (ApprovalWorkflow), for any admins, requests and keys and  *)
(* any number of crashes; and by services, events and milestones             *)
(* (RewardGrants), for any calls, users, requests, rules and limits and any  *)
(* number of days.  The two share no state.                                  *)
(***************************************************************************)
EXTENDS ApprovalWorkflow, RewardGrants, PointTotals_proofs, FiniteSetTheorems, TLAPS

-----------------------------------------------------------------------------
(* Approval                                                                 *)

RequestRow == [status : {"PENDING", "APPROVED", "REJECTED"}, requestedBy : Admins,
               approvedBy : Admins \cup {NoAdmin}, payload : PayloadKeys \cup Files]
CallRow == [step : Steps, request : ApprovalRequests \cup {NoAdmin},
            batch : Nat, line : Nat, errors : SUBSET Nat]
BatchRow == [request : ApprovalRequests, sourceDataHash : Files,
             status : {"RUNNING", "COMPLETED"}, errors : SUBSET Nat]
EffectRow == [request : ApprovalRequests, line : Nat, by : Admins]
Busy == {"execute", "lines", "takeBack"}

\* What a call is about to do to a request is another admin's to do.
OthersDecide ==
  \A a \in Admins : call[a].step # "idle" => request[Of(a)].requestedBy # a

\* A request that is being executed was taken out of PENDING, and nothing but
\* its executor puts it back.
ExecutedIsDecided ==
  \A a \in Admins : call[a].step \in Busy => request[Of(a)].status # "PENDING"

\* What is under a key on the ledger is what the key is for.
KeysArePurposes ==
  \A k \in DOMAIN executed :
    executed[k].request \in DOMAIN request /\ Purpose(executed[k].request, executed[k].line) = k

\* A batch has the content that its request was made with.
BatchesAreOfRequests ==
  \A b \in DOMAIN batches :
    batches[b].request \in DOMAIN request /\ batches[b].sourceDataHash = Payload(batches[b].request)

\* The loop invariant of a migration: its batch is the request's latest, and
\* every line before the present one is accounted for.
UnderWay(a) ==
  call[a].step = "lines" =>
    LET r == Of(a)
    IN  /\ LatestBatch(call[a].batch, r)
        /\ call[a].line \in 1..(Len(Csv[Payload(r)]) + 1)
        /\ \A i \in 1..(call[a].line - 1) : Used(Purpose(r, i)) \/ i \in call[a].errors

AllUnderWay == \A a \in Admins : UnderWay(a)

\* Everything that a request asks for is accounted for.
Complete(r) ==
  IF Migrates(r)
  THEN \E b \in DOMAIN batches :
         /\ LatestBatch(b, r) /\ batches[b].status = "COMPLETED"
         /\ \A i \in DOMAIN Csv[Payload(r)] : Used(Purpose(r, i)) \/ i \in batches[b].errors
  ELSE Used(Payload(r))

ApprovedIsComplete ==
  \A r \in DOMAIN request :
    request[r].status = "APPROVED" =>
      (\E a \in Admins : Executing(a, r)) \/ crashes > 0 \/ Complete(r)

(* The inductive invariant *)
IInv ==
  /\ ApprovalTypeOK
  /\ OthersDecide
  /\ ExecutedIsDecided
  /\ OneExecutor
  /\ KeysArePurposes
  /\ TwoAdmins
  /\ BatchesAreOfRequests
  /\ AllUnderWay
  /\ ApprovedIsComplete

USE DEF Of

-----------------------------------------------------------------------------
LEMMA InitInv == ApprovalInit => IInv
  <1>1. ASSUME ApprovalInit PROVE IInv
    <2>1. DOMAIN request = {} /\ request \in [DOMAIN request -> RequestRow]
      BY <1>1 DEF ApprovalInit
    <2>2. \A a \in Admins : call[a].step = "idle" /\ call[a].request = NoAdmin
      BY <1>1 DEF ApprovalInit, Idle
    <2>3. DOMAIN executed = {} /\ executed \in [DOMAIN executed -> EffectRow] /\ direct = {}
      BY <1>1 DEF ApprovalInit
    <2>4. call \in [Admins -> CallRow]
      BY <1>1 DEF ApprovalInit, CallRow, Steps, Idle
    <2>5. batches \in Seq(BatchRow) /\ DOMAIN batches = {} /\ crashes \in 0..MaxCrashes
      BY <1>1, BoundsAssumption DEF ApprovalInit
    <2>6. ApprovalTypeOK
      BY <2>1, <2>2, <2>3, <2>4, <2>5 DEF ApprovalTypeOK, RequestRow, CallRow, BatchRow, EffectRow
    <2>7. OthersDecide /\ ExecutedIsDecided /\ OneExecutor /\ AllUnderWay
      BY <2>2 DEF OthersDecide, ExecutedIsDecided, OneExecutor, Executing, AllUnderWay, UnderWay, Busy
    <2>8. KeysArePurposes /\ TwoAdmins /\ BatchesAreOfRequests
      BY <2>1, <2>3, <2>5 DEF KeysArePurposes, TwoAdmins, BatchesAreOfRequests
    <2>9. ApprovedIsComplete
      BY <2>1 DEF ApprovedIsComplete
    <2>10. QED
      BY <2>6, <2>7, <2>8, <2>9 DEF IInv
  <1>2. QED
    BY <1>1

(* Facts about the rows that most steps need. *)
LEMMA Rows ==
  ASSUME ApprovalTypeOK
  PROVE  /\ DOMAIN request \subseteq ApprovalRequests
         /\ request \in [DOMAIN request -> RequestRow]
         /\ call \in [Admins -> CallRow]
         /\ \A a \in Admins : call[a].step # "idle" => call[a].request \in DOMAIN request
         /\ \A a \in Admins : call[a].step = "idle" => call[a].request = NoAdmin
         /\ \A a \in Admins : call[a].step = "lines" => call[a].batch \in DOMAIN batches
         /\ batches \in Seq(BatchRow)
         /\ DOMAIN executed \subseteq LedgerKeys
         /\ executed \in [DOMAIN executed -> EffectRow]
         /\ direct \subseteq PayloadKeys
         /\ crashes \in 0..MaxCrashes
  <1>1. /\ DOMAIN request \subseteq ApprovalRequests
        /\ request \in [DOMAIN request -> RequestRow]
    BY DEF ApprovalTypeOK, RequestRow
  <1>2. call \in [Admins -> CallRow]
    <2>1. call \in [Admins -> [step : Steps, request : ApprovalRequests \cup {NoAdmin},
                               batch : Nat, line : Nat, errors : SUBSET Nat]]
      BY Zenon DEF ApprovalTypeOK
    <2>2. QED BY <2>1 DEF CallRow
  <1>3. \A a \in Admins : /\ call[a].step # "idle" => call[a].request \in DOMAIN request
                          /\ call[a].step = "idle" => call[a].request = NoAdmin
                          /\ call[a].step = "lines" => call[a].batch \in DOMAIN batches
    BY DEF ApprovalTypeOK
  <1>4. batches \in Seq(BatchRow)
    BY DEF ApprovalTypeOK, BatchRow
  <1>5. /\ DOMAIN executed \subseteq LedgerKeys
        /\ executed \in [DOMAIN executed -> EffectRow]
        /\ direct \subseteq PayloadKeys /\ crashes \in 0..MaxCrashes
    BY DEF ApprovalTypeOK, EffectRow
  <1>6. QED
    BY <1>1, <1>2, <1>3, <1>4, <1>5

(* The same, to prove that the types hold after a step. *)
LEMMA RowsTyped ==
  ASSUME DOMAIN request' \subseteq ApprovalRequests,
         request' \in [DOMAIN request' -> RequestRow],
         call' \in [Admins -> CallRow],
         \A a \in Admins : call'[a].step # "idle" => call'[a].request \in DOMAIN request',
         \A a \in Admins : call'[a].step = "idle" => call'[a].request = NoAdmin,
         \A a \in Admins : call'[a].step = "lines" => call'[a].batch \in DOMAIN batches',
         batches' \in Seq(BatchRow),
         DOMAIN executed' \subseteq LedgerKeys,
         executed' \in [DOMAIN executed' -> EffectRow],
         direct' \subseteq PayloadKeys,
         crashes' \in 0..MaxCrashes
  PROVE  ApprovalTypeOK'
  BY DEF ApprovalTypeOK, RequestRow, CallRow, BatchRow, EffectRow

(* A step leaves what a request is for alone: its content, what was posted    *)
(* for it, its batches.                                                       *)
Undisturbed(r) ==
  /\ r \in DOMAIN request' /\ request'[r].payload = request[r].payload
  /\ \A k : Used(k) => Used(k)'
  /\ \A b \in DOMAIN batches : batches[b].request = r => b \in DOMAIN batches' /\ batches'[b] = batches[b]
  /\ \A b \in DOMAIN batches' : batches'[b].request = r => b \in DOMAIN batches /\ batches[b].request = r

LEMMA CompleteStands ==
  ASSUME NEW r \in DOMAIN request, Complete(r), Undisturbed(r)
  PROVE  Complete(r)'
  <1>1. Payload(r)' = Payload(r) /\ Migrates(r)' = Migrates(r)
    BY DEF Undisturbed, Payload, Migrates
  <1>2. \A i : Purpose(r, i)' = Purpose(r, i)
    BY <1>1 DEF Purpose
  <1>3. CASE Migrates(r)
    <2>1. PICK b \in DOMAIN batches :
            /\ LatestBatch(b, r) /\ batches[b].status = "COMPLETED"
            /\ \A i \in DOMAIN Csv[Payload(r)] : Used(Purpose(r, i)) \/ i \in batches[b].errors
      BY <1>3 DEF Complete
    <2>2. b \in DOMAIN batches' /\ batches'[b] = batches[b]
      BY <2>1 DEF Undisturbed, LatestBatch
    <2>3. LatestBatch(b, r)'
      BY <2>1, <2>2 DEF Undisturbed, LatestBatch
    <2>4. \A i \in DOMAIN Csv[Payload(r)] : Used(Purpose(r, i)) => Used(Purpose(r, i))'
      BY <1>2 DEF Undisturbed, Used
    <2>5. QED
      BY <1>1, <1>3, <2>1, <2>2, <2>3, <2>4 DEF Complete
  <1>4. CASE ~Migrates(r)
    <2>1. Used(Payload(r))'
      BY <1>1, <1>4 DEF Undisturbed, Complete, Used
    <2>2. QED BY <1>1, <1>4, <2>1 DEF Complete
  <1>5. QED BY <1>3, <1>4

LEMMA UnderWayStands ==
  ASSUME NEW a \in Admins, UnderWay(a), call'[a] = call[a], Undisturbed(Of(a)),
         call[a].step = "lines" => call[a].batch \in DOMAIN batches
  PROVE  UnderWay(a)'
  <1> DEFINE r == call[a].request
  <1>1. Payload(r)' = Payload(r)
    BY DEF Undisturbed, Payload
  <1>2. \A i : Purpose(r, i)' = Purpose(r, i)
    BY <1>1 DEF Purpose, Migrates
  <1>3. \A i : Used(Purpose(r, i)) => Used(Purpose(r, i))'
    BY <1>2 DEF Undisturbed, Used
  <1>4. call[a].step = "lines" => LatestBatch(call[a].batch, r)'
    BY DEF UnderWay, Undisturbed, LatestBatch
  <1>5. QED
    BY <1>1, <1>3, <1>4 DEF UnderWay

(* The calls other than a's are where they were.                              *)
LEMMA ApprovedStays ==
  ASSUME IInv, NEW a \in Admins, DOMAIN request' = DOMAIN request,
         \A b \in Admins \ {a} : call'[b] = call[b],
         crashes > 0 => crashes' > 0,
         \A r \in DOMAIN request : request'[r].status = "APPROVED" =>
           request[r].status = "APPROVED" \/ Executing(a, r)',
         \A r \in DOMAIN request : request'[r].status = "APPROVED" /\ Executing(a, r) =>
           Executing(a, r)' \/ Complete(r)' \/ crashes' > 0,
         \A r \in DOMAIN request : Complete(r) => Complete(r)' \/ Executing(a, r)'
  PROVE  ApprovedIsComplete'
  <1> SUFFICES ASSUME NEW r \in DOMAIN request, request'[r].status = "APPROVED"
               PROVE  (\E b \in Admins : Executing(b, r)') \/ crashes' > 0 \/ Complete(r)'
    BY DEF ApprovedIsComplete
  <1>1. \A b \in Admins \ {a} : Executing(b, r)' <=> Executing(b, r)
    BY DEF Executing
  <1>2. QED
    BY <1>1 DEF IInv, ApprovedIsComplete

LEMMA RequestKeeps ==
  ASSUME IInv, NEW a \in Admins, NEW r \in ApprovalRequests, NEW p \in PayloadKeys \cup Files,
         Request(a, r, p)
  PROVE  IInv'
  <1>1. ApprovalTypeOK BY DEF IInv
  <1>2. /\ r \notin DOMAIN request
        /\ DOMAIN request' = DOMAIN request \cup {r}
        /\ \A q \in DOMAIN request : request'[q] = request[q]
        /\ request'[r] = [status |-> "PENDING", requestedBy |-> a, approvedBy |-> NoAdmin, payload |-> p]
        /\ UNCHANGED <<call, batches, executed, direct, crashes>>
    BY DEF Request
  <1>3. request'[r] \in RequestRow
    BY <1>2 DEF RequestRow
  <1>4. request' \in [DOMAIN request' -> RequestRow]
    <2>1. \A q \in DOMAIN request' : request'[q] \in RequestRow
      BY <1>1, <1>2, <1>3, Rows
    <2>2. request' = [q \in DOMAIN request' |-> request'[q]]
      BY DEF Request
    <2>3. QED
      BY <2>1, <2>2
  <1>5. ApprovalTypeOK'
    BY <1>1, <1>2, <1>4, Rows, RowsTyped
  <1>6. \A b \in Admins : call[b].step # "idle" => call[b].request \in DOMAIN request
    BY <1>1, Rows
  <1>7. OthersDecide' /\ ExecutedIsDecided'
    BY <1>2, <1>6 DEF IInv, OthersDecide, ExecutedIsDecided, Busy
  <1>8. OneExecutor'
    BY <1>2, <1>6 DEF IInv, OneExecutor, Executing
  <1>9. \A q \in DOMAIN request : \A i : Purpose(q, i)' = Purpose(q, i)
    BY <1>2 DEF Purpose, Migrates, Payload
  <1>10. KeysArePurposes'
    BY <1>2, <1>9 DEF IInv, KeysArePurposes
  <1>11. TwoAdmins'
    <2>1. request'[r].approvedBy # request'[r].requestedBy
      BY <1>2, NoAdminAssumption
    <2>2. QED
      BY <1>2, <2>1 DEF IInv, TwoAdmins, KeysArePurposes
  <1>12. BatchesAreOfRequests'
    BY <1>2 DEF IInv, BatchesAreOfRequests, Payload
  <1>13. \A q \in DOMAIN request : Undisturbed(q)
    BY <1>2 DEF Undisturbed, Used
  <1>14. AllUnderWay'
    <2> SUFFICES ASSUME NEW b \in Admins PROVE UnderWay(b)'
      BY DEF AllUnderWay
    <2>1. CASE call[b].step = "lines"
      BY <1>1, <1>2, <1>6, <1>13, <2>1, Rows, UnderWayStands DEF IInv, AllUnderWay
    <2>2. CASE call[b].step # "lines"
      BY <1>2, <2>2 DEF UnderWay
    <2>3. QED BY <2>1, <2>2
  <1>15. ApprovedIsComplete'
    <2>1. \A q \in DOMAIN request : Complete(q) => Complete(q)'
      BY <1>13, CompleteStands
    <2>2. \A q, b : Executing(b, q)' <=> Executing(b, q)
      BY <1>2 DEF Executing
    <2>3. QED
      BY <1>2, <2>1, <2>2 DEF IInv, ApprovedIsComplete
  <1>16. QED
    BY <1>5, <1>7, <1>8, <1>10, <1>11, <1>12, <1>14, <1>15 DEF IInv

(* A decision changes the status and the decider of one row. *)
LEMMA Decided ==
  ASSUME ApprovalTypeOK, NEW r \in DOMAIN request, NEW a \in Admins \cup {NoAdmin},
         NEW status \in {"PENDING", "APPROVED", "REJECTED"}, Decide(r, status, a)
  PROVE  /\ request' \in [DOMAIN request' -> RequestRow]
         /\ DOMAIN request' = DOMAIN request
         /\ request'[r].status = status /\ request'[r].approvedBy = a
         /\ \A q \in DOMAIN request : /\ request'[q].requestedBy = request[q].requestedBy
                                      /\ request'[q].payload = request[q].payload
         /\ \A q \in DOMAIN request \ {r} : request'[q] = request[q]
  <1>1. request \in [DOMAIN request -> RequestRow]
    BY Rows
  <1>2. request[r] \in RequestRow
    BY <1>1
  <1>3. request' = [request EXCEPT ![r] = [request[r] EXCEPT !.status = status, !.approvedBy = a]]
    BY <1>1, <1>2 DEF Decide, RequestRow
  <1>4. [request[r] EXCEPT !.status = status, !.approvedBy = a] \in RequestRow
    BY <1>2 DEF RequestRow
  <1>5. QED
    BY <1>1, <1>2, <1>3, <1>4 DEF RequestRow

(* A call moves on: only its own record changes. *)
LEMMA Proceeded ==
  ASSUME ApprovalTypeOK, NEW a \in Admins, NEW step \in Steps, NEW r \in ApprovalRequests \cup {NoAdmin},
         Proceed(a, step, r)
  PROVE  /\ call' \in [Admins -> CallRow]
         /\ call'[a].step = step /\ call'[a].request = r
         /\ \A b \in Admins \ {a} : call'[b] = call[b]
  BY Rows DEF Proceed, CallRow, Idle

LEMMA Returned ==
  ASSUME ApprovalTypeOK, NEW a \in Admins, Return(a)
  PROVE  /\ call' \in [Admins -> CallRow]
         /\ call'[a].step = "idle" /\ call'[a].request = NoAdmin
         /\ \A b \in Admins \ {a} : call'[b] = call[b]
  BY Rows DEF Return, CallRow, Idle, Steps

(* What was posted and the batches stand while decisions change.              *)
LEMMA DecisionsOnly ==
  ASSUME IInv, NEW a \in Admins, UNCHANGED <<batches, executed, direct>>,
         DOMAIN request' = DOMAIN request,
         \A q \in DOMAIN request : /\ request'[q].requestedBy = request[q].requestedBy
                                   /\ request'[q].payload = request[q].payload,
         \A b \in Admins \ {a} : call'[b] = call[b],
         call'[a].step # "lines"
  PROVE  /\ KeysArePurposes' /\ BatchesAreOfRequests' /\ AllUnderWay'
         /\ \A k \in DOMAIN executed' :
              executed'[k].by # request'[executed'[k].request].requestedBy
         /\ \A q \in DOMAIN request : Complete(q) => Complete(q)'
  <1>1. ApprovalTypeOK BY DEF IInv
  <1>2. \A q \in DOMAIN request : Undisturbed(q)
    BY DEF Undisturbed, Used
  <1>3. \A q \in DOMAIN request : \A i : Purpose(q, i)' = Purpose(q, i)
    BY DEF Purpose, Migrates, Payload
  <1>4. KeysArePurposes'
    BY <1>3 DEF IInv, KeysArePurposes
  <1>5. BatchesAreOfRequests'
    BY DEF IInv, BatchesAreOfRequests, Payload
  <1>6. AllUnderWay'
    <2> SUFFICES ASSUME NEW b \in Admins, call'[b].step = "lines" PROVE UnderWay(b)'
      BY DEF AllUnderWay, UnderWay
    <2>1. b # a /\ call'[b] = call[b] /\ call[b].request \in DOMAIN request
      BY <1>1, Rows
    <2>2. QED
      BY <1>1, <1>2, <2>1, Rows, UnderWayStands DEF IInv, AllUnderWay
  <1>7. QED
    BY <1>2, <1>4, <1>5, <1>6, CompleteStands DEF IInv, TwoAdmins, KeysArePurposes

LEMMA ReadKeeps ==
  ASSUME IInv, NEW a \in Admins, NEW r \in ApprovalRequests, NEW step \in {"approve", "reject"},
         Read(a, r, step)
  PROVE  IInv'
  <1>1. ApprovalTypeOK BY DEF IInv
  <1>2. /\ r \in DOMAIN request /\ request[r].requestedBy # a
        /\ call[a].step = "idle"
        /\ UNCHANGED <<request, batches, executed, direct, crashes>>
    BY DEF Read, MayDecide
  <1>3. /\ call' \in [Admins -> CallRow]
        /\ call'[a].step = step /\ call'[a].request = r
        /\ \A b \in Admins \ {a} : call'[b] = call[b]
    <2>1. step \in Steps BY DEF Steps
    <2>2. QED BY <1>1, <2>1, Proceeded DEF Read
  <1>4. ApprovalTypeOK'
    BY <1>1, <1>2, <1>3, Rows, RowsTyped
  <1>5. OthersDecide' /\ ExecutedIsDecided'
    BY <1>2, <1>3 DEF IInv, OthersDecide, ExecutedIsDecided, Busy
  <1>6. \A b \in Admins : \A q : Executing(b, q)' <=> Executing(b, q)
    BY <1>2, <1>3 DEF Executing
  <1>7. OneExecutor'
    BY <1>2, <1>6 DEF IInv, OneExecutor
  <1>8. /\ KeysArePurposes' /\ BatchesAreOfRequests' /\ AllUnderWay'
        /\ \A q \in DOMAIN request : Complete(q) => Complete(q)'
    BY <1>2, <1>3, DecisionsOnly
  <1>9. TwoAdmins'
    BY <1>2 DEF IInv, TwoAdmins
  <1>10. ApprovedIsComplete'
    BY <1>2, <1>6, <1>8 DEF IInv, ApprovedIsComplete
  <1>11. QED
    BY <1>4, <1>5, <1>7, <1>8, <1>9, <1>10 DEF IInv

LEMMA ClaimKeeps ==
  ASSUME IInv, NEW a \in Admins, Claim(a)
  PROVE  IInv'
  <1> DEFINE r == call[a].request
  <1>1. ApprovalTypeOK BY DEF IInv
  <1>2. /\ call[a].step = "approve"
        /\ r \in DOMAIN request
        /\ request[r].requestedBy # a
        /\ UNCHANGED <<batches, executed, direct, crashes>>
    BY <1>1, Rows DEF Claim, IInv, OthersDecide
  <1>3. CASE Claimable(r)
    <2>1. Decide(r, "APPROVED", a) /\ Proceed(a, "execute", r) /\ request[r].status = "PENDING"
      BY <1>3 DEF Claim, Claimable
    <2>2. /\ request' \in [DOMAIN request' -> RequestRow]
          /\ DOMAIN request' = DOMAIN request
          /\ request'[r].status = "APPROVED" /\ request'[r].approvedBy = a
          /\ \A q \in DOMAIN request : /\ request'[q].requestedBy = request[q].requestedBy
                                       /\ request'[q].payload = request[q].payload
          /\ \A q \in DOMAIN request \ {r} : request'[q] = request[q]
      BY <1>1, <1>2, <2>1, Decided
    <2>3. /\ call' \in [Admins -> CallRow]
          /\ call'[a].step = "execute" /\ call'[a].request = r
          /\ \A b \in Admins \ {a} : call'[b] = call[b]
      BY <1>1, <1>2, <2>1, Proceeded, Rows DEF Steps
    <2>4. ApprovalTypeOK'
      <3>1. /\ \A b \in Admins : call'[b].step # "idle" => call'[b].request \in DOMAIN request'
            /\ \A b \in Admins : call'[b].step = "idle" => call'[b].request = NoAdmin
            /\ \A b \in Admins : call'[b].step = "lines" => call'[b].batch \in DOMAIN batches'
        BY <1>1, <1>2, <2>2, <2>3, Rows
      <3>2. /\ DOMAIN request' \subseteq ApprovalRequests
            /\ batches' \in Seq(BatchRow)
            /\ DOMAIN executed' \subseteq LedgerKeys
            /\ executed' \in [DOMAIN executed' -> EffectRow]
            /\ direct' \subseteq PayloadKeys
            /\ crashes' \in 0..MaxCrashes
        BY <1>1, <1>2, <2>2, Rows
      <3>3. QED
        BY <2>2, <2>3, <3>1, <3>2, RowsTyped
    <2>5. OthersDecide'
      BY <1>1, <1>2, <2>2, <2>3, Rows DEF IInv, OthersDecide
    <2>6. ExecutedIsDecided'
      BY <1>1, <1>2, <2>2, <2>3, Rows DEF IInv, ExecutedIsDecided, Busy
    <2>7. \A b \in Admins : ~Executing(b, r)
      BY <2>1 DEF IInv, ExecutedIsDecided, Executing, Busy
    <2>8. /\ \A b \in Admins \ {a} : \A q : Executing(b, q)' <=> Executing(b, q)
          /\ \A q : Executing(a, q)' <=> (q = r)
      BY <2>3 DEF Executing
    <2>9. OneExecutor'
      <3> SUFFICES ASSUME NEW b \in Admins, NEW c \in Admins, NEW q \in DOMAIN request,
                          Executing(b, q)', Executing(c, q)'
                   PROVE  b = c
        BY <2>2 DEF OneExecutor
      <3>1. CASE q = r
        BY <2>7, <2>8, <3>1
      <3>2. CASE q # r
        BY <2>8, <3>2 DEF IInv, OneExecutor
      <3>3. QED BY <3>1, <3>2
    <2>10. /\ KeysArePurposes' /\ BatchesAreOfRequests' /\ AllUnderWay'
           /\ \A k \in DOMAIN executed' :
                executed'[k].by # request'[executed'[k].request].requestedBy
           /\ \A q \in DOMAIN request : Complete(q) => Complete(q)'
      BY <1>2, <2>2, <2>3, DecisionsOnly
    <2>11. TwoAdmins'
      BY <1>2, <2>2, <2>10 DEF IInv, TwoAdmins
    <2>12. ApprovedIsComplete'
      <3>1. \A q : ~Executing(a, q)
        BY <1>2 DEF Executing
      <3>2. \A q \in DOMAIN request : request'[q].status = "APPROVED" =>
              request[q].status = "APPROVED" \/ Executing(a, q)'
        BY <2>2, <2>8
      <3>3. QED
        BY <1>2, <2>2, <2>3, <2>10, <3>1, <3>2, ApprovedStays
    <2>13. QED
      BY <2>4, <2>5, <2>6, <2>9, <2>10, <2>11, <2>12 DEF IInv
  <1>4. CASE ~Claimable(r)
    <2>1. Return(a) /\ UNCHANGED request
      BY <1>4 DEF Claim
    <2>2. /\ call' \in [Admins -> CallRow]
          /\ call'[a].step = "idle" /\ call'[a].request = NoAdmin
          /\ \A b \in Admins \ {a} : call'[b] = call[b]
      BY <1>1, <2>1, Returned
    <2>3. ApprovalTypeOK'
      BY <1>1, <1>2, <2>1, <2>2, Rows, RowsTyped
    <2>4. OthersDecide' /\ ExecutedIsDecided'
      BY <2>1, <2>2 DEF IInv, OthersDecide, ExecutedIsDecided, Busy
    <2>5. \A b \in Admins : \A q : Executing(b, q)' <=> Executing(b, q)
      BY <1>2, <2>2 DEF Executing
    <2>6. /\ KeysArePurposes' /\ BatchesAreOfRequests' /\ AllUnderWay'
          /\ \A q \in DOMAIN request : Complete(q) => Complete(q)'
      BY <1>2, <2>1, <2>2, DecisionsOnly
    <2>7. OneExecutor' /\ ApprovedIsComplete'
      BY <1>2, <2>1, <2>5, <2>6 DEF IInv, OneExecutor, ApprovedIsComplete
    <2>8. TwoAdmins'
      BY <1>2, <2>1 DEF IInv, TwoAdmins
    <2>9. QED
      BY <2>3, <2>4, <2>6, <2>7, <2>8 DEF IInv
  <1>5. QED
    BY <1>3, <1>4

(* What the ledger does with a line of a request: nothing is undone, and the  *)
(* key of what the line is for is used afterwards.                            *)
LEMMA Applied ==
  ASSUME IInv, NEW a \in Admins, NEW r \in DOMAIN request, request[r].requestedBy # a,
         NEW i \in Nat, NEW k \in LedgerKeys, Purpose(r, i) = k,
         Apply(a, r, i, k), UNCHANGED <<request, direct>>
  PROVE  /\ DOMAIN executed' \subseteq LedgerKeys
         /\ executed' \in [DOMAIN executed' -> EffectRow]
         /\ KeysArePurposes' /\ TwoAdmins'
         /\ Used(k)'
         /\ \A j : Used(j) => Used(j)'
  <1>1. ApprovalTypeOK BY DEF IInv
  <1>2. /\ r \in ApprovalRequests /\ DOMAIN executed \subseteq LedgerKeys
        /\ executed \in [DOMAIN executed -> EffectRow]
    BY <1>1, Rows
  <1>3. \A q, n : Purpose(q, n)' = Purpose(q, n)
    BY DEF Purpose, Migrates, Payload
  <1>4. CASE Used(k)
    <2>1. executed' = executed
      BY <1>4 DEF Apply
    <2>2. KeysArePurposes' /\ TwoAdmins'
      BY <1>3, <2>1 DEF IInv, KeysArePurposes, TwoAdmins
    <2>3. QED
      BY <1>2, <1>4, <2>1, <2>2 DEF Used
  <1>5. CASE ~Used(k)
    <2> DEFINE x == [request |-> r, line |-> i, by |-> a]
    <2>1. x \in EffectRow /\ x.request = r /\ x.line = i /\ x.by = a
      BY <1>2 DEF EffectRow
    <2>2. executed' = [j \in DOMAIN executed \cup {k} |-> IF j = k THEN x ELSE executed[j]]
      BY <1>5 DEF Apply
    <2> HIDE DEF x
    <2>3. /\ DOMAIN executed' = DOMAIN executed \cup {k}
          /\ k \notin DOMAIN executed
          /\ executed'[k] = x
          /\ \A j \in DOMAIN executed : executed'[j] = executed[j]
      BY <1>5, <2>2 DEF Used
    <2>4. executed' \in [DOMAIN executed' -> EffectRow]
      BY <1>2, <2>1, <2>2
    <2>5. KeysArePurposes'
      BY <1>3, <2>1, <2>3 DEF IInv, KeysArePurposes
    <2>6. TwoAdmins'
      BY <2>1, <2>3 DEF IInv, TwoAdmins
    <2>7. QED
      BY <1>2, <2>3, <2>4, <2>5, <2>6 DEF Used
  <1>6. QED
    BY <1>4, <1>5

(* A call that executes goes on with it, or a call of any kind ends; the      *)
(* request stays what it is.                                                  *)
LEMMA CallsKeep ==
  ASSUME IInv, NEW a \in Admins, UNCHANGED request,
         \A b \in Admins \ {a} : call'[b] = call[b],
         \/ call'[a].step = "idle" /\ call'[a].request = NoAdmin
         \/ call'[a].request = call[a].request /\ call[a].step \in Busy /\ call'[a].step \in Busy
  PROVE  /\ OthersDecide' /\ ExecutedIsDecided' /\ OneExecutor'
         /\ \A b \in Admins : call'[b].step # "idle" => call'[b].request \in DOMAIN request'
         /\ \A b \in Admins : call'[b].step = "idle" => call'[b].request = NoAdmin
         /\ call'[a].step # "idle" => \A r : Executing(a, r) => Executing(a, r)'
  <1>1. ApprovalTypeOK BY DEF IInv
  <1>2. OthersDecide' /\ ExecutedIsDecided'
    BY DEF IInv, OthersDecide, ExecutedIsDecided, Busy
  <1>3. \A b \in Admins : \A r : Executing(b, r)' => Executing(b, r)
    BY DEF Executing, Busy
  <1>4. OneExecutor'
    BY <1>3 DEF IInv, OneExecutor
  <1>5. \A b \in Admins : /\ call'[b].step # "idle" => call'[b].request \in DOMAIN request'
                          /\ call'[b].step = "idle" => call'[b].request = NoAdmin
    BY <1>1, Rows DEF Busy
  <1>6. call'[a].step # "idle" => \A r : Executing(a, r) => Executing(a, r)'
    BY DEF Executing, Busy
  <1>7. QED
    BY <1>2, <1>4, <1>5, <1>6

(* What a step does for one request leaves the others' batches alone.         *)
LEMMA OthersUnderWay ==
  ASSUME IInv, NEW a \in Admins, call[a].step \in Busy,
         \A b \in Admins \ {a} : call'[b] = call[b],
         \A q \in DOMAIN request \ {Of(a)} : Undisturbed(q),
         UnderWay(a)'
  PROVE  AllUnderWay'
  <1>1. ApprovalTypeOK BY DEF IInv
  <1> SUFFICES ASSUME NEW b \in Admins, b # a PROVE UnderWay(b)'
    BY DEF AllUnderWay
  <1>2. CASE call[b].step = "lines"
    <2>1. call[b].request \in DOMAIN request /\ call[b].batch \in DOMAIN batches
      BY <1>1, <1>2, Rows
    <2>2. call[b].request # Of(a)
      BY <1>2, <2>1 DEF IInv, OneExecutor, Executing, Busy
    <2>3. QED
      BY <1>2, <2>1, <2>2, UnderWayStands DEF IInv, AllUnderWay
  <1>3. CASE call[b].step # "lines"
    BY <1>3 DEF UnderWay
  <1>4. QED BY <1>2, <1>3

(* An operation is done, or fails: the call returns or goes on to take back.  *)
LEMMA OperationKeeps ==
  ASSUME IInv, NEW a \in Admins, call[a].step = "execute", ~Migrates(Of(a)),
         \/ Operate(a)
         \/ UNCHANGED executed /\ call'[a].step # "idle",
         call' \in [Admins -> CallRow],
         \/ call'[a].step = "idle" /\ call'[a].request = NoAdmin
         \/ call'[a].step = "takeBack" /\ call'[a].request = Of(a),
         \A b \in Admins \ {a} : call'[b] = call[b],
         UNCHANGED <<request, batches, direct, crashes>>
  PROVE  IInv'
  <1>q. PICK q : q = call[a].request
    OBVIOUS
  <1>1. ApprovalTypeOK BY DEF IInv
  <1>2. /\ q \in DOMAIN request /\ request[q].requestedBy # a
        /\ Payload(q) \in PayloadKeys /\ Payload(q) \in LedgerKeys /\ Purpose(q, 1) = Payload(q)
    BY <1>q, <1>1, Rows DEF IInv, OthersDecide, RequestRow, Migrates, Payload, Purpose, LedgerKeys
  <1>3. /\ DOMAIN executed' \subseteq LedgerKeys
        /\ executed' \in [DOMAIN executed' -> EffectRow]
        /\ KeysArePurposes' /\ TwoAdmins'
        /\ \A j : Used(j) => Used(j)'
        /\ call'[a].step = "idle" => Used(Payload(q))'
    <2>1. CASE Operate(a)
      <3>1. /\ DOMAIN executed' \subseteq LedgerKeys
            /\ executed' \in [DOMAIN executed' -> EffectRow]
            /\ KeysArePurposes' /\ TwoAdmins'
            /\ \A j : Used(j) => Used(j)'
            /\ (Payload(q) \in DOMAIN executed' \/ Payload(q) \in direct')
        BY <1>q, <1>2, <2>1, Applied DEF Operate, Used
      <3>2. Payload(q)' = Payload(q)
        BY DEF Payload
      <3>3. QED BY <3>1, <3>2 DEF Used
    <2>2. CASE UNCHANGED executed /\ call'[a].step # "idle"
      <3>1. KeysArePurposes' /\ TwoAdmins'
        BY <2>2 DEF IInv, KeysArePurposes, TwoAdmins, Purpose, Migrates, Payload
      <3>2. QED
        BY <1>1, <2>2, <3>1, Rows DEF Used
    <2>3. QED BY <2>1, <2>2
  <1>4. /\ OthersDecide' /\ ExecutedIsDecided' /\ OneExecutor'
        /\ \A b \in Admins : call'[b].step # "idle" => call'[b].request \in DOMAIN request'
        /\ \A b \in Admins : call'[b].step = "idle" => call'[b].request = NoAdmin
        /\ call'[a].step # "idle" => \A r : Executing(a, r) => Executing(a, r)'
    BY CallsKeep DEF Busy
  <1>5. ApprovalTypeOK'
    BY <1>1, <1>3, <1>4, Rows, RowsTyped
  <1>6. BatchesAreOfRequests'
    BY DEF IInv, BatchesAreOfRequests, Payload
  <1>7. \A r \in DOMAIN request : Undisturbed(r)
    BY <1>3 DEF Undisturbed
  <1>8. AllUnderWay'
    BY <1>7, OthersUnderWay DEF Busy, UnderWay
  <1>9. ApprovedIsComplete'
    <2>1. \A r \in DOMAIN request : Complete(r) => Complete(r)'
      BY <1>7, CompleteStands
    <2>2. call'[a].step = "idle" => Complete(q)'
      BY <1>q, <1>3 DEF Complete, Migrates, Payload
    <2>3. \A r : Executing(a, r) => r = q
      BY <1>q DEF Executing
    <2>4. \A r \in DOMAIN request : Executing(a, r) => Executing(a, r)' \/ Complete(r)'
      BY <1>4, <2>2, <2>3
    <2>5. QED
      BY <2>1, <2>4, ApprovedStays
  <1>10. QED
    BY <1>3, <1>4, <1>5, <1>6, <1>8, <1>9 DEF IInv

LEMMA ExecuteKeeps ==
  ASSUME IInv, NEW a \in Admins, Execute(a)
  PROVE  IInv'
  <1>1. /\ call' \in [Admins -> CallRow]
        /\ call'[a].step = "idle" /\ call'[a].request = NoAdmin
        /\ \A b \in Admins \ {a} : call'[b] = call[b]
    BY Returned DEF IInv, Execute
  <1>2. QED
    BY <1>1, OperationKeeps DEF Execute

LEMMA ExecuteFailsKeeps ==
  ASSUME IInv, NEW a \in Admins, ExecuteFails(a)
  PROVE  IInv'
  <1>1. Of(a) \in ApprovalRequests \cup {NoAdmin}
    BY Rows DEF IInv, CallRow
  <1>2. /\ call' \in [Admins -> CallRow]
        /\ call'[a].step = "takeBack" /\ call'[a].request = Of(a)
        /\ \A b \in Admins \ {a} : call'[b] = call[b]
    BY <1>1, Proceeded DEF IInv, ExecuteFails, Steps
  <1>3. QED
    BY <1>2, OperationKeeps DEF ExecuteFails

-----------------------------------------------------------------------------
(* A migration that is executed by a.                                         *)

LEMMA MigrationRows ==
  ASSUME IInv, NEW a \in Admins, call[a].step \in {"execute", "lines"},
         call[a].step = "execute" => Migrates(Of(a))
  PROVE  /\ Of(a) \in DOMAIN request /\ Of(a) \in ApprovalRequests
         /\ request[Of(a)].requestedBy # a
         /\ Payload(Of(a)) \in Files /\ Migrates(Of(a))
         /\ Csv[Payload(Of(a))] \in Seq(OldUsers)
         /\ call[a].step = "lines" => /\ call[a].batch \in DOMAIN batches
                                      /\ batches[call[a].batch] \in BatchRow
                                      /\ batches[call[a].batch].request = Of(a)
                                      /\ batches[call[a].batch].sourceDataHash = Payload(Of(a))
                                      /\ Lines(call[a].batch) = Csv[Payload(Of(a))]
  <1>1. ApprovalTypeOK BY DEF IInv
  <1>2. /\ Of(a) \in DOMAIN request /\ Of(a) \in ApprovalRequests
        /\ request[Of(a)].requestedBy # a
    BY <1>1, Rows DEF IInv, OthersDecide
  <1>3. call[a].step = "lines" => /\ call[a].batch \in DOMAIN batches
                                  /\ batches[call[a].batch] \in BatchRow
                                  /\ batches[call[a].batch].request = Of(a)
                                  /\ batches[call[a].batch].sourceDataHash = Payload(Of(a))
    <2>1. batches \in Seq(BatchRow)
      BY <1>1, Rows
    <2>2. \A b \in DOMAIN batches : batches[b] \in BatchRow
      BY <2>1
    <2>3. QED
      BY <1>1, <2>2, Rows DEF IInv, AllUnderWay, UnderWay, LatestBatch, BatchesAreOfRequests
  <1>4. Payload(Of(a)) \in Files
    BY <1>3 DEF Migrates, BatchRow
  <1>5. QED
    BY <1>2, <1>3, <1>4, FilesAssumption DEF Migrates, Lines

(* A step of a migration that posts nothing: it changes batches of its own    *)
(* request only.                                                              *)
LEMMA BatchesKeep ==
  ASSUME IInv, NEW a \in Admins, NEW r, r = Of(a), call[a].step \in {"execute", "lines"},
         call[a].step = "execute" => Migrates(Of(a)),
         UNCHANGED <<request, executed, direct, crashes>>,
         call' \in [Admins -> CallRow],
         \/ call'[a].step = "idle" /\ call'[a].request = NoAdmin
         \/ call'[a].step \in {"lines", "takeBack"} /\ call'[a].request = Of(a),
         \A b \in Admins \ {a} : call'[b] = call[b],
         batches' \in Seq(BatchRow), DOMAIN batches \subseteq DOMAIN batches',
         \A b \in DOMAIN batches' :
           /\ b \in DOMAIN batches /\ batches[b].request # Of(a) => batches'[b] = batches[b]
           /\ b \notin DOMAIN batches \/ batches[b].request = Of(a) =>
                /\ batches'[b].request = Of(a)
                /\ batches'[b].sourceDataHash = Payload(Of(a)),
         call'[a].step = "lines" => call'[a].batch \in DOMAIN batches',
         UnderWay(a)',
         call'[a].step = "idle" => Complete(r)'
  PROVE  IInv'
  <1>1. ApprovalTypeOK BY DEF IInv
  <1>2. r \in DOMAIN request /\ Migrates(r)
    BY MigrationRows
  <1>3. /\ OthersDecide' /\ ExecutedIsDecided' /\ OneExecutor'
        /\ \A b \in Admins : call'[b].step # "idle" => call'[b].request \in DOMAIN request'
        /\ \A b \in Admins : call'[b].step = "idle" => call'[b].request = NoAdmin
        /\ call'[a].step # "idle" => \A q : Executing(a, q) => Executing(a, q)'
    BY CallsKeep DEF Busy
  <1>4. ApprovalTypeOK'
    <2>1. \A b \in Admins : call'[b].step = "lines" => call'[b].batch \in DOMAIN batches'
      BY <1>1, Rows
    <2>2. QED
      BY <1>1, <1>3, <2>1, Rows, RowsTyped
  <1>5. KeysArePurposes' /\ TwoAdmins'
    BY DEF IInv, KeysArePurposes, TwoAdmins, Purpose, Migrates, Payload
  <1>6. BatchesAreOfRequests'
    <2> SUFFICES ASSUME NEW b \in DOMAIN batches'
                 PROVE  /\ batches'[b].request \in DOMAIN request
                        /\ batches'[b].sourceDataHash = Payload(batches'[b].request)
      BY DEF BatchesAreOfRequests, Payload
    <2>1. CASE b \in DOMAIN batches /\ batches[b].request # r
      BY <2>1 DEF IInv, BatchesAreOfRequests
    <2>2. CASE ~(b \in DOMAIN batches /\ batches[b].request # r)
      BY <1>2, <2>2
    <2>3. QED BY <2>1, <2>2
  <1>7. \A q \in DOMAIN request \ {r} : Undisturbed(q)
    <2> SUFFICES ASSUME NEW q \in DOMAIN request \ {r} PROVE Undisturbed(q)
      OBVIOUS
    <2>1. \A b \in DOMAIN batches : batches[b].request = q => b \in DOMAIN batches' /\ batches'[b] = batches[b]
      OBVIOUS
    <2>2. \A b \in DOMAIN batches' : batches'[b].request = q => b \in DOMAIN batches /\ batches[b].request = q
      OBVIOUS
    <2>3. QED
      BY <2>1, <2>2 DEF Undisturbed, Used
  <1>8. AllUnderWay'
    BY <1>7, OthersUnderWay DEF Busy
  <1>9. ApprovedIsComplete'
    <2>1. \A q : Executing(a, q) => q = r
      BY DEF Executing
    <2>2. Executing(a, r)
      BY DEF Executing
    <2>3. Executing(a, r)' \/ Complete(r)'
      BY <1>3, <2>2
    <2>4. \A q \in DOMAIN request : Complete(q) => Complete(q)' \/ Executing(a, q)'
      BY <1>7, <2>3, CompleteStands
    <2>5. \A q \in DOMAIN request : Executing(a, q) => Executing(a, q)' \/ Complete(q)'
      BY <2>1, <2>3
    <2>6. QED
      BY <2>4, <2>5, ApprovedStays
  <1>10. QED
    BY <1>3, <1>4, <1>5, <1>6, <1>8, <1>9 DEF IInv

(* The new batch is the request's latest. *)
LEMMA Opened ==
  ASSUME IInv, NEW a \in Admins, call[a].step = "execute", Migrates(Of(a)), OpenBatch(Of(a))
  PROVE  /\ batches' \in Seq(BatchRow)
         /\ DOMAIN batches' = DOMAIN batches \cup {Len(batches) + 1}
         /\ Len(batches) + 1 \notin DOMAIN batches /\ Len(batches) + 1 \in Nat
         /\ \A b \in DOMAIN batches : batches'[b] = batches[b] /\ b < Len(batches) + 1
         /\ batches'[Len(batches) + 1].request = Of(a)
         /\ batches'[Len(batches) + 1].sourceDataHash = Payload(Of(a))
  <1> DEFINE new == [request |-> Of(a), sourceDataHash |-> Payload(Of(a)), status |-> "RUNNING", errors |-> {}]
  <1>1. batches \in Seq(BatchRow)
    BY Rows DEF IInv
  <1>2. Of(a) \in ApprovalRequests /\ Payload(Of(a)) \in Files
    BY MigrationRows
  <1>3. new \in BatchRow /\ new.request = Of(a) /\ new.sourceDataHash = Payload(Of(a))
    BY <1>2 DEF BatchRow
  <1>4. batches' = Append(batches, new)
    BY DEF OpenBatch
  <1> HIDE DEF new
  <1>5. /\ batches' \in Seq(BatchRow) /\ Len(batches') = Len(batches) + 1
        /\ batches'[Len(batches) + 1] = new
        /\ \A b \in 1..Len(batches) : batches'[b] = batches[b]
        /\ Len(batches) \in Nat
    BY <1>1, <1>3, <1>4
  <1>6. DOMAIN batches = 1..Len(batches) /\ DOMAIN batches' = 1..Len(batches')
    BY <1>1, <1>5
  <1>7. QED
    BY <1>3, <1>5, <1>6

LEMMA BeginMigrationKeeps ==
  ASSUME IInv, NEW a \in Admins, BeginMigration(a)
  PROVE  IInv'
  <1>r. PICK r : r = call[a].request
    OBVIOUS
  <1>n. PICK n : n = Len(batches) + 1
    OBVIOUS
  <1>1. ApprovalTypeOK BY <1>r, <1>n DEF IInv
  <1>2. /\ call[a].step = "execute" /\ Migrates(r) /\ OpenBatch(r)
        /\ UNCHANGED <<request, executed, direct, crashes>>
    BY <1>r, <1>n DEF BeginMigration
  <1>3. /\ batches' \in Seq(BatchRow)
        /\ DOMAIN batches' = DOMAIN batches \cup {n}
        /\ n \notin DOMAIN batches /\ n \in Nat
        /\ \A b \in DOMAIN batches : batches'[b] = batches[b] /\ b < n
        /\ batches'[n].request = r /\ batches'[n].sourceDataHash = Payload(r)
    BY <1>r, <1>n, <1>2, Opened
  <1>4. /\ call' \in [Admins -> CallRow]
        /\ call'[a].step = "lines" /\ call'[a].request = r
        /\ call'[a].batch = n /\ call'[a].line = 1
        /\ \A b \in Admins \ {a} : call'[b] = call[b]
    <2> DEFINE new == [call[a] EXCEPT !.step = "lines", !.batch = n, !.line = 1]
    <2>1. call \in [Admins -> CallRow] /\ call[a] \in CallRow
      BY <1>1, Rows
    <2>2. /\ new \in CallRow /\ new.step = "lines" /\ new.request = r
          /\ new.batch = n /\ new.line = 1
      BY <1>r, <1>3, <2>1 DEF CallRow, Steps
    <2>3. call' = [call EXCEPT ![a] = new]
      BY <1>n, <2>1 DEF BeginMigration, CallRow
    <2> HIDE DEF new
    <2>4. QED BY <2>1, <2>2, <2>3
  <1>5. Csv[Payload(r)] \in Seq(OldUsers) /\ Len(Csv[Payload(r)]) \in Nat
    BY <1>r, <1>n, <1>2, MigrationRows
  <1>6. UnderWay(a)'
    <2>1. LatestBatch(n, r)'
      <3>1. DOMAIN batches \subseteq Nat
        BY <1>r, <1>n, <1>1, Rows
      <3>2. QED
        BY <1>r, <1>n, <1>3, <3>1 DEF LatestBatch
    <2>2. call'[a].line \in 1..(Len(Csv[Payload(r)']) + 1)
      BY <1>r, <1>n, <1>2, <1>4, <1>5 DEF Payload
    <2>3. 1..(call'[a].line - 1) = {}
      BY <1>r, <1>n, <1>4
    <2>4. QED
      BY <1>r, <1>n, <1>4, <2>1, <2>2, <2>3 DEF UnderWay
  <1>7. \A b \in DOMAIN batches' :
           /\ b \in DOMAIN batches /\ batches[b].request # r => batches'[b] = batches[b]
           /\ b \notin DOMAIN batches \/ batches[b].request = r =>
                batches'[b].request = r /\ batches'[b].sourceDataHash = Payload(r)
    BY <1>r, <1>n, <1>3 DEF IInv, BatchesAreOfRequests
  <1>8. QED
    BY <1>r, <1>n, <1>2, <1>3, <1>4, <1>6, <1>7, BatchesKeep

LEMMA BeginMigrationFailsKeeps ==
  ASSUME IInv, NEW a \in Admins, BeginMigrationFails(a)
  PROVE  IInv'
  <1>r. PICK r : r = call[a].request
    OBVIOUS
  <1>1. ApprovalTypeOK BY <1>r DEF IInv
  <1>2. /\ call[a].step = "execute" /\ Migrates(r)
        /\ UNCHANGED <<request, executed, direct, crashes>>
        /\ r \in ApprovalRequests
    BY <1>r, MigrationRows DEF BeginMigrationFails
  <1>3. /\ call' \in [Admins -> CallRow]
        /\ call'[a].step = "takeBack" /\ call'[a].request = r
        /\ \A b \in Admins \ {a} : call'[b] = call[b]
    BY <1>r, <1>1, <1>2, Proceeded DEF BeginMigrationFails, Steps
  <1>4. UnderWay(a)'
    BY <1>r, <1>3 DEF UnderWay
  <1>5. /\ batches' \in Seq(BatchRow) /\ DOMAIN batches \subseteq DOMAIN batches'
        /\ \A b \in DOMAIN batches' :
           /\ b \in DOMAIN batches /\ batches[b].request # r => batches'[b] = batches[b]
           /\ b \notin DOMAIN batches \/ batches[b].request = r =>
                batches'[b].request = r /\ batches'[b].sourceDataHash = Payload(r)
    <2>1. CASE UNCHANGED batches
      BY <1>r, <1>1, <2>1, Rows DEF IInv, BatchesAreOfRequests
    <2>2. CASE OpenBatch(r)
      BY <1>r, <1>2, <2>2, Opened DEF IInv, BatchesAreOfRequests
    <2>3. QED BY <1>r, <2>1, <2>2 DEF BeginMigrationFails
  <1>6. QED
    BY <1>r, <1>2, <1>3, <1>4, <1>5, BatchesKeep

(* The batch that is closed is the call's own. *)
LEMMA Closed ==
  ASSUME IInv, NEW a \in Admins, call[a].step = "lines", CloseBatch(a)
  PROVE  /\ batches' \in Seq(BatchRow) /\ DOMAIN batches' = DOMAIN batches
         /\ \A b \in DOMAIN batches \ {call[a].batch} : batches'[b] = batches[b]
         /\ batches'[call[a].batch].request = Of(a)
         /\ batches'[call[a].batch].sourceDataHash = Payload(Of(a))
         /\ batches'[call[a].batch].status = "COMPLETED"
         /\ batches'[call[a].batch].errors = call[a].errors
  <1> DEFINE n == call[a].batch
             new == [batches[n] EXCEPT !.status = "COMPLETED", !.errors = call[a].errors]
  <1>1. batches \in Seq(BatchRow) /\ call[a].errors \in SUBSET Nat
    BY Rows DEF IInv, CallRow
  <1>2. /\ n \in DOMAIN batches /\ batches[n] \in BatchRow
        /\ batches[n].request = Of(a) /\ batches[n].sourceDataHash = Payload(Of(a))
    BY MigrationRows
  <1>3. /\ new \in BatchRow /\ new.request = Of(a) /\ new.sourceDataHash = Payload(Of(a))
        /\ new.status = "COMPLETED" /\ new.errors = call[a].errors
    BY <1>1, <1>2 DEF BatchRow
  <1>4. batches' = [batches EXCEPT ![n] = new]
    BY <1>1, <1>2 DEF CloseBatch, BatchRow
  <1> HIDE DEF new
  <1>5. /\ DOMAIN batches' = DOMAIN batches /\ batches'[n] = new
        /\ \A b \in DOMAIN batches \ {n} : batches'[b] = batches[b]
    BY <1>1, <1>2, <1>4
  <1>6. batches' \in Seq(BatchRow)
    BY <1>1, <1>2, <1>3, <1>4
  <1>7. QED
    BY <1>3, <1>5, <1>6

(* Closing changes no other request's batch. *)
LEMMA ClosedOwn ==
  ASSUME IInv, NEW a \in Admins, call[a].step = "lines", CloseBatch(a)
  PROVE  \A b \in DOMAIN batches' :
           /\ b \in DOMAIN batches /\ batches[b].request # Of(a) => batches'[b] = batches[b]
           /\ b \notin DOMAIN batches \/ batches[b].request = Of(a) =>
                batches'[b].request = Of(a) /\ batches'[b].sourceDataHash = Payload(Of(a))
  <1>1. batches[call[a].batch].request = Of(a)
    BY MigrationRows
  <1>2. QED
    BY <1>1, Closed DEF IInv, BatchesAreOfRequests

LEMMA EndMigrationKeeps ==
  ASSUME IInv, NEW a \in Admins, EndMigration(a)
  PROVE  IInv'
  <1>r. PICK r : r = call[a].request
    OBVIOUS
  <1>n. PICK n : n = call[a].batch
    OBVIOUS
  <1>f. PICK file : file = Csv[Payload(r)]
    OBVIOUS
  <1>1. ApprovalTypeOK BY <1>r, <1>n, <1>f DEF IInv
  <1>2. /\ call[a].step = "lines" /\ call[a].line \notin DOMAIN Lines(n)
        /\ CloseBatch(a) /\ Return(a)
        /\ UNCHANGED <<request, executed, direct, crashes>>
    BY <1>r, <1>n, <1>f DEF EndMigration, Migrated
  <1>3. /\ r \in DOMAIN request /\ Migrates(r)
        /\ file \in Seq(OldUsers) /\ Lines(n) = file /\ n \in DOMAIN batches
        /\ batches[n].request = r
    BY <1>r, <1>n, <1>f, <1>2, MigrationRows
  <1>4. /\ batches' \in Seq(BatchRow) /\ DOMAIN batches' = DOMAIN batches
        /\ \A b \in DOMAIN batches \ {n} : batches'[b] = batches[b]
        /\ batches'[n].request = r
        /\ batches'[n].status = "COMPLETED" /\ batches'[n].errors = call[a].errors
    BY <1>r, <1>n, <1>f, <1>2, Closed
  <1>5. /\ call' \in [Admins -> CallRow]
        /\ call'[a].step = "idle" /\ call'[a].request = NoAdmin
        /\ \A b \in Admins \ {a} : call'[b] = call[b]
    BY <1>r, <1>n, <1>f, <1>1, <1>2, Returned
  <1>6. Complete(r)'
    <2>1. Payload(r)' = Payload(r) /\ Migrates(r)' /\ \A i : Purpose(r, i)' = Purpose(r, i)
      BY <1>r, <1>n, <1>f, <1>2, <1>3 DEF Payload, Migrates, Purpose
    <2>2. \A i : Used(Purpose(r, i))' <=> Used(Purpose(r, i))
      BY <1>r, <1>n, <1>f, <1>2, <2>1 DEF Used
    <2>3. LatestBatch(n, r)'
      BY <1>r, <1>n, <1>f, <1>2, <1>3, <1>4 DEF IInv, AllUnderWay, UnderWay, LatestBatch
    <2>4. DOMAIN file = 1..Len(file) /\ Len(file) \in Nat
      BY <1>r, <1>n, <1>f, <1>3
    <2>5. /\ call[a].line \in 1..(Len(file) + 1)
          /\ \A i \in 1..(call[a].line - 1) : Used(Purpose(r, i)) \/ i \in call[a].errors
      BY <1>r, <1>n, <1>f, <1>2 DEF IInv, AllUnderWay, UnderWay
    <2>6. call[a].line - 1 = Len(file)
      BY <1>r, <1>n, <1>f, <1>2, <1>3, <2>4, <2>5
    <2>7. QED
      BY <1>r, <1>n, <1>f, <1>3, <1>4, <2>1, <2>2, <2>3, <2>4, <2>5, <2>6 DEF Complete
  <1>7. UnderWay(a)'
    BY <1>r, <1>n, <1>f, <1>5 DEF UnderWay
  <1>8. QED
    BY <1>r, <1>n, <1>f, <1>2, <1>4, <1>5, <1>6, <1>7, ClosedOwn, BatchesKeep

LEMMA EndMigrationFailsKeeps ==
  ASSUME IInv, NEW a \in Admins, EndMigrationFails(a)
  PROVE  IInv'
  <1>r. PICK r : r = call[a].request
    OBVIOUS
  <1>1. ApprovalTypeOK BY <1>r DEF IInv
  <1>2. /\ call[a].step = "lines" /\ UNCHANGED <<request, executed, direct, crashes>>
        /\ r \in ApprovalRequests
    BY <1>r, MigrationRows DEF EndMigrationFails, Migrated
  <1>3. /\ call' \in [Admins -> CallRow]
        /\ call'[a].step = "takeBack" /\ call'[a].request = r
        /\ \A b \in Admins \ {a} : call'[b] = call[b]
    BY <1>r, <1>1, <1>2, Proceeded DEF EndMigrationFails, Steps
  <1>4. UnderWay(a)'
    BY <1>r, <1>3 DEF UnderWay
  <1>5. /\ batches' \in Seq(BatchRow) /\ DOMAIN batches \subseteq DOMAIN batches'
        /\ \A b \in DOMAIN batches' :
           /\ b \in DOMAIN batches /\ batches[b].request # r => batches'[b] = batches[b]
           /\ b \notin DOMAIN batches \/ batches[b].request = r =>
                batches'[b].request = r /\ batches'[b].sourceDataHash = Payload(r)
    <2>1. CASE UNCHANGED batches
      BY <1>r, <1>1, <2>1, Rows DEF IInv, BatchesAreOfRequests
    <2>2. CASE CloseBatch(a)
      BY <1>r, <1>2, <2>2, Closed, ClosedOwn
    <2>3. QED BY <1>r, <2>1, <2>2 DEF EndMigrationFails
  <1>6. QED
    BY <1>r, <1>2, <1>3, <1>4, <1>5, BatchesKeep

LEMMA MigrateLineKeeps ==
  ASSUME IInv, NEW a \in Admins, MigrateLine(a)
  PROVE  IInv'
  <1>r. PICK r : r = call[a].request
    OBVIOUS
  <1>n. PICK n, i : n = call[a].batch /\ i = call[a].line
    OBVIOUS
  <1>k. PICK k, file : k = LineKey(n, i) /\ file = Csv[Payload(r)]
    OBVIOUS
  <1>1. ApprovalTypeOK BY <1>r, <1>n, <1>k DEF IInv
  <1>2. /\ call[a].step = "lines" /\ i \in DOMAIN Lines(n)
        /\ \/ Apply(a, r, i, k) /\ call' = [call EXCEPT ![a].line = i + 1]
           \/ /\ UNCHANGED executed \/ Apply(a, r, i, k)
              /\ call' = [call EXCEPT ![a].line = i + 1, ![a].errors = @ \cup {i}]
        /\ UNCHANGED <<request, batches, direct, crashes>>
    BY <1>r, <1>n, <1>k DEF MigrateLine
  <1>3. /\ r \in DOMAIN request /\ request[r].requestedBy # a
        /\ Payload(r) \in Files /\ Migrates(r) /\ n \in DOMAIN batches
        /\ file \in Seq(OldUsers) /\ Lines(n) = file
        /\ batches[n].sourceDataHash = Payload(r)
    BY <1>r, <1>n, <1>k, <1>2, MigrationRows
  <1>4. DOMAIN file = 1..Len(file) /\ Len(file) \in Nat /\ i \in 1..Len(file) /\ i \in Nat
    BY <1>r, <1>n, <1>k, <1>2, <1>3
  <1>5. Purpose(r, i) = k /\ k \in LedgerKeys
    <2>1. file[i] \in OldUsers
      BY <1>r, <1>n, <1>k, <1>3, <1>4
    <2>2. k = <<Payload(r), file[i]>>
      BY <1>r, <1>n, <1>k, <1>3 DEF LineKey
    <2>3. QED
      BY <1>r, <1>n, <1>k, <1>3, <2>1, <2>2 DEF Purpose, LedgerKeys
  <1>6. /\ call' \in [Admins -> CallRow]
        /\ call'[a].step = "lines" /\ call'[a].request = r
        /\ call'[a].batch = n /\ call'[a].line = i + 1
        /\ call[a].errors \subseteq call'[a].errors
        /\ i \notin call'[a].errors => Apply(a, r, i, k)
        /\ \A b \in Admins \ {a} : call'[b] = call[b]
    <2>1. /\ call \in [Admins -> CallRow] /\ call[a] \in CallRow
          /\ call[a].errors \subseteq Nat /\ call[a].request = r /\ call[a].batch = n
          /\ call[a].line = i /\ call[a].step = "lines" /\ i + 1 \in Nat
      BY <1>r, <1>n, <1>1, <1>2, <1>4, Rows DEF CallRow
    <2>2. PICK e \in {call[a].errors, call[a].errors \cup {i}} :
            /\ call' = [call EXCEPT ![a] = [call[a] EXCEPT !.line = i + 1, !.errors = e]]
            /\ i \notin e => Apply(a, r, i, k)
      <3>1. CASE Apply(a, r, i, k) /\ call' = [call EXCEPT ![a].line = i + 1]
        BY <2>1, <3>1 DEF CallRow
      <3>2. CASE /\ UNCHANGED executed \/ Apply(a, r, i, k)
                 /\ call' = [call EXCEPT ![a].line = i + 1, ![a].errors = @ \cup {i}]
        BY <2>1, <3>2 DEF CallRow
      <3>3. QED BY <1>2, <3>1, <3>2
    <2> DEFINE new == [call[a] EXCEPT !.line = i + 1, !.errors = e]
    <2>3. /\ new \in CallRow /\ new.step = "lines" /\ new.request = r
          /\ new.batch = n /\ new.line = i + 1 /\ new.errors = e
      BY <1>4, <2>1, <2>2 DEF CallRow
    <2> HIDE DEF new
    <2>4. call' = [call EXCEPT ![a] = new]
      BY <2>2 DEF new
    <2>5. QED BY <2>1, <2>2, <2>3, <2>4
  <1>7. /\ DOMAIN executed' \subseteq LedgerKeys
        /\ executed' \in [DOMAIN executed' -> EffectRow]
        /\ KeysArePurposes' /\ TwoAdmins'
        /\ \A j : Used(j) => Used(j)'
        /\ Used(k)' \/ i \in call'[a].errors
    <2>1. CASE Apply(a, r, i, k)
      BY <1>r, <1>n, <1>k, <1>2, <1>3, <1>4, <1>5, <2>1, Applied
    <2>2. CASE UNCHANGED executed /\ i \in call'[a].errors
      <3>1. KeysArePurposes' /\ TwoAdmins'
        BY <1>r, <1>n, <1>k, <1>2, <2>2 DEF IInv, KeysArePurposes, TwoAdmins, Purpose, Migrates, Payload
      <3>2. \A j : Used(j) => Used(j)'
        BY <1>r, <1>n, <1>k, <1>2, <2>2 DEF Used
      <3>3. QED
        BY <1>r, <1>n, <1>k, <1>1, <2>2, <3>1, <3>2, Rows
    <2>3. QED BY <1>r, <1>n, <1>k, <1>2, <1>6, <2>1, <2>2
  <1>8. /\ OthersDecide' /\ ExecutedIsDecided' /\ OneExecutor'
        /\ \A b \in Admins : call'[b].step # "idle" => call'[b].request \in DOMAIN request'
        /\ \A b \in Admins : call'[b].step = "idle" => call'[b].request = NoAdmin
        /\ call'[a].step # "idle" => \A q : Executing(a, q) => Executing(a, q)'
    BY <1>r, <1>n, <1>k, <1>2, <1>6, CallsKeep DEF Busy
  <1>9. ApprovalTypeOK'
    BY <1>r, <1>n, <1>k, <1>1, <1>2, <1>3, <1>6, <1>7, <1>8, Rows, RowsTyped
  <1>10. BatchesAreOfRequests'
    BY <1>r, <1>n, <1>k, <1>2 DEF IInv, BatchesAreOfRequests, Payload
  <1>11. \A q \in DOMAIN request : Undisturbed(q)
    BY <1>r, <1>n, <1>k, <1>2, <1>7 DEF Undisturbed
  <1>12. UnderWay(a)'
    <2>1. Payload(r)' = Payload(r) /\ \A j : Purpose(r, j)' = Purpose(r, j)
      BY <1>r, <1>n, <1>k, <1>2 DEF Payload, Migrates, Purpose
    <2>2. LatestBatch(n, r)'
      BY <1>r, <1>n, <1>k, <1>2 DEF IInv, AllUnderWay, UnderWay, LatestBatch
    <2>3. \A j \in 1..(i - 1) : Used(Purpose(r, j)) \/ j \in call[a].errors
      BY <1>r, <1>n, <1>k, <1>2 DEF IInv, AllUnderWay, UnderWay
    <2>4. \A j : Used(Purpose(r, j)) => Used(Purpose(r, j))'
      BY <1>r, <1>n, <1>k, <1>7, <2>1 DEF Used
    <2>5. Used(Purpose(r, i))' \/ i \in call'[a].errors
      BY <1>r, <1>n, <1>k, <1>5, <1>7, <2>1 DEF Used
    <2>6. \A j \in 1..i : Used(Purpose(r, j))' \/ j \in call'[a].errors
      BY <1>r, <1>n, <1>k, <1>4, <1>6, <2>3, <2>4, <2>5
    <2>7. call'[a].line - 1 = i /\ call'[a].line \in 1..(Len(file) + 1)
      BY <1>r, <1>n, <1>k, <1>4, <1>6
    <2>8. QED
      BY <1>r, <1>n, <1>k, <1>6, <2>1, <2>2, <2>6, <2>7 DEF UnderWay
  <1>13. AllUnderWay'
    BY <1>r, <1>n, <1>k, <1>2, <1>6, <1>11, <1>12, OthersUnderWay DEF Busy
  <1>14. ApprovedIsComplete'
    <2>1. \A q \in DOMAIN request : Complete(q) => Complete(q)'
      BY <1>r, <1>n, <1>k, <1>11, CompleteStands
    <2>2. QED
      BY <1>r, <1>n, <1>k, <1>2, <1>6, <1>8, <2>1, ApprovedStays
  <1>15. QED
    BY <1>r, <1>n, <1>k, <1>7, <1>8, <1>9, <1>10, <1>13, <1>14 DEF IInv

-----------------------------------------------------------------------------
(* A call returns after it wrote a decision other than APPROVED.  To put a    *)
(* request back to PENDING it must be the one executor of it.                 *)
LEMMA DecisionEnds ==
  ASSUME IInv, NEW a \in Admins, call[a].step # "idle",
         NEW status \in {"PENDING", "REJECTED"},
         Decide(Of(a), status, IF status = "PENDING" THEN NoAdmin ELSE a),
         status = "PENDING" => call[a].step = "takeBack",
         Return(a), UNCHANGED <<batches, executed, direct, crashes>>
  PROVE  IInv'
  <1> DEFINE r == call[a].request
  <1> DEFINE by == IF status = "PENDING" THEN NoAdmin ELSE a
  <1>1. ApprovalTypeOK BY DEF IInv
  <1>2. r \in DOMAIN request /\ request[r].requestedBy # a /\ by # request[r].requestedBy
        /\ by \in Admins \cup {NoAdmin}
    BY <1>1, Rows, NoAdminAssumption DEF IInv, OthersDecide, RequestRow
  <1>3. /\ request' \in [DOMAIN request' -> RequestRow]
        /\ DOMAIN request' = DOMAIN request
        /\ request'[r].status = status /\ request'[r].approvedBy = by
        /\ \A q \in DOMAIN request : /\ request'[q].requestedBy = request[q].requestedBy
                                     /\ request'[q].payload = request[q].payload
        /\ \A q \in DOMAIN request \ {r} : request'[q] = request[q]
    <2>1. Decide(r, status, by)
      OBVIOUS
    <2> HIDE DEF by
    <2>2. QED BY <1>1, <1>2, <2>1, Decided
  <1>4. /\ call' \in [Admins -> CallRow]
        /\ call'[a].step = "idle" /\ call'[a].request = NoAdmin
        /\ \A b \in Admins \ {a} : call'[b] = call[b]
    BY <1>1, Returned
  <1> HIDE DEF by
  <1>5. ApprovalTypeOK'
    BY <1>1, <1>3, <1>4, Rows, RowsTyped
  <1>6. OthersDecide'
    BY <1>1, <1>3, <1>4, Rows DEF IInv, OthersDecide
  <1>7. /\ \A b \in Admins \ {a} : \A p : Executing(b, p)' <=> Executing(b, p)
        /\ \A p : ~Executing(a, p)'
        /\ \A p : Executing(a, p) => p = r
    BY <1>4 DEF Executing
  <1>8. ExecutedIsDecided'
    <2> SUFFICES ASSUME NEW b \in Admins, call'[b].step \in Busy
                 PROVE  request'[call'[b].request].status # "PENDING"
      BY DEF ExecutedIsDecided
    <2>1. b # a /\ call'[b] = call[b]
      BY <1>4 DEF Busy
    <2>2. call[b].request \in DOMAIN request /\ request[call[b].request].status # "PENDING"
      BY <1>1, <2>1, Rows DEF IInv, ExecutedIsDecided, Busy
    <2>3. CASE call[b].request = r /\ status = "PENDING"
      <3>1. Executing(a, r) /\ Executing(b, r)
        BY <2>1, <2>3 DEF Executing, Busy
      <3>2. QED
        BY <1>2, <2>1, <3>1 DEF IInv, OneExecutor
    <2>4. CASE call[b].request = r /\ status = "REJECTED"
      BY <1>3, <2>1, <2>4
    <2>5. CASE call[b].request # r
      BY <1>3, <2>1, <2>2, <2>5
    <2>6. QED BY <2>3, <2>4, <2>5
  <1>9. OneExecutor'
    BY <1>3, <1>7 DEF IInv, OneExecutor
  <1>10. /\ KeysArePurposes' /\ BatchesAreOfRequests' /\ AllUnderWay'
         /\ \A k \in DOMAIN executed' :
              executed'[k].by # request'[executed'[k].request].requestedBy
         /\ \A q \in DOMAIN request : Complete(q) => Complete(q)'
    BY <1>3, <1>4, DecisionsOnly
  <1>11. TwoAdmins'
    <2>1. request'[r].approvedBy # request'[r].requestedBy
      BY <1>2, <1>3
    <2>2. QED BY <1>3, <1>10, <2>1 DEF IInv, TwoAdmins
  <1>12. ApprovedIsComplete'
    <2>1. \A p \in DOMAIN request : request'[p].status = "APPROVED" => p # r /\ request'[p] = request[p]
      BY <1>3
    <2>2. QED
      BY <1>3, <1>4, <1>7, <1>10, <2>1, ApprovedStays
  <1>13. QED
    BY <1>5, <1>6, <1>8, <1>9, <1>10, <1>11, <1>12 DEF IInv

LEMMA TakeBackKeeps ==
  ASSUME IInv, NEW a \in Admins, TakeBack(a)
  PROVE  IInv'
  BY DecisionEnds DEF TakeBack, TakenBackStatus

LEMMA RejectKeeps ==
  ASSUME IInv, NEW a \in Admins, Reject(a)
  PROVE  IInv'
  BY DecisionEnds DEF Reject

LEMMA CrashKeeps ==
  ASSUME IInv, NEW a \in Admins, Crash(a)
  PROVE  IInv'
  <1>1. ApprovalTypeOK BY DEF IInv
  <1>2. /\ crashes' = crashes + 1 /\ crashes < MaxCrashes /\ crashes \in Nat
        /\ UNCHANGED <<request, batches, executed, direct>>
    BY <1>1, BoundsAssumption, Rows DEF Crash
  <1>3. /\ call' \in [Admins -> CallRow]
        /\ call'[a].step = "idle" /\ call'[a].request = NoAdmin
        /\ \A b \in Admins \ {a} : call'[b] = call[b]
    BY <1>1, Returned DEF Crash
  <1>4. /\ OthersDecide' /\ ExecutedIsDecided' /\ OneExecutor'
        /\ \A b \in Admins : call'[b].step # "idle" => call'[b].request \in DOMAIN request'
        /\ \A b \in Admins : call'[b].step = "idle" => call'[b].request = NoAdmin
    BY <1>2, <1>3, CallsKeep
  <1>5. ApprovalTypeOK'
    <2>1. crashes' \in 0..MaxCrashes
      BY <1>2, BoundsAssumption
    <2>2. QED
      BY <1>1, <1>2, <1>3, <1>4, <2>1, Rows, RowsTyped
  <1>6. KeysArePurposes' /\ BatchesAreOfRequests' /\ AllUnderWay'
    BY <1>2, <1>3, DecisionsOnly
  <1>7. TwoAdmins'
    BY <1>2 DEF IInv, TwoAdmins
  <1>8. ApprovedIsComplete'
    BY <1>2 DEF ApprovedIsComplete
  <1>9. QED
    BY <1>4, <1>5, <1>6, <1>7, <1>8 DEF IInv

LEMMA GrantDirectlyKeeps ==
  ASSUME IInv, NEW k \in PayloadKeys, GrantDirectly(k)
  PROVE  IInv'
  <1>1. ApprovalTypeOK BY DEF IInv
  <1>2. direct' = direct \cup {k} /\ UNCHANGED <<request, call, batches, executed, crashes>>
    BY DEF GrantDirectly
  <1>3. ApprovalTypeOK'
    BY <1>1, <1>2, Rows, RowsTyped
  <1>4. OthersDecide' /\ ExecutedIsDecided' /\ OneExecutor'
    BY <1>2 DEF IInv, OthersDecide, ExecutedIsDecided, OneExecutor, Executing
  <1>5. KeysArePurposes' /\ TwoAdmins' /\ BatchesAreOfRequests'
    BY <1>2 DEF IInv, KeysArePurposes, TwoAdmins, BatchesAreOfRequests, Purpose, Migrates, Payload
  <1>6. \A r \in DOMAIN request : Undisturbed(r)
    BY <1>2 DEF Undisturbed, Used
  <1>7. AllUnderWay'
    <2> SUFFICES ASSUME NEW b \in Admins, call[b].step = "lines" PROVE UnderWay(b)'
      BY <1>2 DEF AllUnderWay, UnderWay
    <2>1. QED
      BY <1>1, <1>2, <1>6, Rows, UnderWayStands DEF IInv, AllUnderWay
  <1>8. ApprovedIsComplete'
    <2>1. \A r \in DOMAIN request : Complete(r) => Complete(r)'
      BY <1>6, CompleteStands
    <2>2. QED
      BY <1>2, <2>1 DEF IInv, ApprovedIsComplete, Executing
  <1>9. QED
    BY <1>3, <1>4, <1>5, <1>7, <1>8 DEF IInv

-----------------------------------------------------------------------------
LEMMA StepKeeps == IInv /\ [ApprovalNext]_approvalVars => IInv'
  <1> SUFFICES ASSUME IInv, [ApprovalNext]_approvalVars PROVE IInv'
    OBVIOUS
  <1>1. CASE UNCHANGED approvalVars
    BY <1>1 DEF approvalVars, IInv, ApprovalTypeOK, OthersDecide, ExecutedIsDecided, OneExecutor, Executing,
                KeysArePurposes, TwoAdmins, BatchesAreOfRequests, AllUnderWay, UnderWay, LatestBatch,
                ApprovedIsComplete, Complete, Used, Purpose, Migrates, Payload
  <1>2. ASSUME NEW a \in Admins, NEW r \in ApprovalRequests, NEW p \in PayloadKeys \cup Files, Request(a, r, p)
        PROVE  IInv'
    BY <1>2, RequestKeeps
  <1>3. ASSUME NEW a \in Admins, NEW r \in ApprovalRequests, NEW step \in {"approve", "reject"},
               Read(a, r, step)
        PROVE  IInv'
    BY <1>3, ReadKeeps
  <1>4. ASSUME NEW a \in Admins, Proceeds(a) PROVE IInv'
    BY <1>4, ClaimKeeps, ExecuteKeeps, ExecuteFailsKeeps, BeginMigrationKeeps, BeginMigrationFailsKeeps,
       MigrateLineKeeps, EndMigrationKeeps, EndMigrationFailsKeeps, TakeBackKeeps, RejectKeeps DEF Proceeds
  <1>5. ASSUME NEW a \in Admins, Crash(a) PROVE IInv'
    BY <1>5, CrashKeeps
  <1>6. ASSUME NEW k \in PayloadKeys, GrantDirectly(k) PROVE IInv'
    BY <1>6, GrantDirectlyKeeps
  <1>7. QED
    BY <1>1, <1>2, <1>3, <1>4, <1>5, <1>6 DEF ApprovalNext

LEMMA Invariance == ApprovalSpec => []IInv
  <1>1. QED
    BY InitInv, StepKeeps, PTL DEF ApprovalSpec

\* Every row and call is well typed: a call at work is at work on a request
\* that exists, an idle one on none.
THEOREM Typing == ApprovalSpec => []ApprovalTypeOK
  <1>1. IInv => ApprovalTypeOK BY DEF IInv
  <1>2. QED BY <1>1, Invariance, PTL

\* Of any number of admins that approve a request at once, one executes it.
THEOREM Exclusion == ApprovalSpec => []OneExecutor
  <1>1. IInv => OneExecutor BY DEF IInv
  <1>2. QED BY <1>1, Invariance, PTL

\* The two-person rule: whoever carries a request out, and whoever is recorded
\* as having decided it, is not the one who made it.
THEOREM FourEyes == ApprovalSpec => []TwoAdmins
  <1>1. IInv => TwoAdmins BY DEF IInv
  <1>2. QED BY <1>1, Invariance, PTL

\* A migration that is run again, after a failure on its way or because another
\* request brings the same file, credits nobody's opening balance twice: the
\* key is made of the content, which is that of the request in every run.
THEOREM RunAgain == ApprovalSpec => []CreditedOnce
  <1>1. IInv => CreditedOnce BY DEF IInv, KeysArePurposes, CreditedOnce
  <1>2. QED BY <1>1, Invariance, PTL

\* A used key of a line was used for that line or answers for another.
LEMMA AnsweredOrDone ==
  ASSUME IInv, NEW r \in DOMAIN request, NEW i, Used(Purpose(r, i)),
         Migrates(r) => i \in DOMAIN Csv[Payload(r)]
  PROVE  Effect(r, i) \/ AnsweredForAnother(r, i)
  <1> DEFINE k == Purpose(r, i)
  <1>1. ApprovalTypeOK BY DEF IInv
  <1>2. CASE k \in DOMAIN executed
    <2>1. Purpose(executed[k].request, executed[k].line) = k
      BY <1>2 DEF IInv, KeysArePurposes
    <2>2. CASE executed[k].request = r /\ executed[k].line = i
      BY <1>2, <2>2 DEF Effect
    <2>3. CASE ~(executed[k].request = r /\ executed[k].line = i)
      BY <1>2, <2>1, <2>3 DEF AnsweredForAnother
    <2>4. QED BY <2>2, <2>3
  <1>3. CASE k \in direct
    <2>1. k \in PayloadKeys
      BY <1>1, <1>3, Rows
    <2>2. CASE Migrates(r)
      <3>1. Payload(r) \in Files /\ Csv[Payload(r)] \in Seq(OldUsers)
        BY <2>2, FilesAssumption DEF Migrates
      <3>2. Csv[Payload(r)][i] \in OldUsers
        BY <2>2, <3>1
      <3>3. k \in Files \X OldUsers
        BY <2>2, <3>1, <3>2 DEF Purpose
      <3>4. QED
        BY <2>1, <3>3, FilesAssumption
    <2>3. CASE ~Migrates(r)
      BY <1>3, <2>3 DEF Purpose, AnsweredForAnother
    <2>4. QED BY <2>2, <2>3
  <1>4. QED
    BY <1>2, <1>3 DEF Used

\* Unless an approver died, a request that is APPROVED is being executed, or
\* every line of it is accounted for: done, answered with the transaction that
\* another had under the same key, or, of a migration, among the errors of its
\* latest batch, which is COMPLETED.
THEOREM ApprovalMeansEffect == ApprovalSpec => []ApprovedIsCarriedOut
  <1>1. ASSUME IInv PROVE ApprovedIsCarriedOut
    <2> SUFFICES ASSUME NEW r \in DOMAIN request, request[r].status = "APPROVED",
                        ~(\E a \in Admins : Executing(a, r)), ~(crashes > 0)
                 PROVE  \/ ~Migrates(r) /\ (Effect(r, 1) \/ AnsweredForAnother(r, 1))
                        \/ /\ Migrates(r)
                           /\ \E b \in DOMAIN batches :
                                /\ LatestBatch(b, r) /\ batches[b].status = "COMPLETED"
                                /\ \A i \in DOMAIN Csv[Payload(r)] :
                                     Effect(r, i) \/ AnsweredForAnother(r, i) \/ i \in batches[b].errors
      BY DEF ApprovedIsCarriedOut
    <2>1. Complete(r)
      BY <1>1 DEF IInv, ApprovedIsComplete
    <2>2. CASE Migrates(r)
      <3>1. \A i \in DOMAIN Csv[Payload(r)] :
              Used(Purpose(r, i)) => Effect(r, i) \/ AnsweredForAnother(r, i)
        BY <1>1, AnsweredOrDone
      <3>2. QED
        BY <2>1, <2>2, <3>1 DEF Complete
    <2>3. CASE ~Migrates(r)
      BY <1>1, <2>1, <2>3, AnsweredOrDone DEF Complete, Purpose
    <2>4. QED BY <2>2, <2>3
  <1>2. QED BY <1>1, Invariance, PTL

-----------------------------------------------------------------------------
(* Rewards                                                                  *)

\* The phases of a call that holds the integration's lock, on a service's
\* routes, and those of them past the check of the daily limit
Checked == {"again", "rule", "caps", "credit"}
Inside == Checked \cup {"limits"}

ServiceRows(d) == Counts({k \in DOMAIN grants : grants[k].day = d /\ grants[k].route \in ServiceRoutes})
OwnRows(route) == {k \in DOMAIN grants : grants[k].route = route /\ grants[k].status = "COMPLETED"}

\* The lock holds off whatever else asks the integration, and the same request.
Secure(c) ==
  Route(c) \in ServiceRoutes /\ pc[c] \in Inside => serviceBy = c /\ active /\ ~Posted(c)

\* There is still room for what the check let in.
Room(c) ==
  Route(c) \in ServiceRoutes /\ pc[c] \in Checked
    => Sum(ServiceRows(day)) + req[c].amount <= Daily

Locked(c) == Route(c) \in Ruled /\ pc[c] \in {"caps", "credit"} => ruleBy[Route(c)] = c

\* The limits of rule r, own being what it has given out
Capped(c, r, own) ==
  /\ UpTo(Sum(own) + req[c].amount, r.total)
  /\ UpTo(Sum(OfMonth(own)) + req[c].amount, r.monthly)
  /\ Below(Cardinality(OfMonth(own)), r.monthlyCount)
  /\ Below(Cardinality(OfUser(own, req[c].user)), r.perUser)
  /\ Below(Cardinality(OfEvent(OfUser(own, req[c].user), req[c].event)), r.perEvent)

Within(c, r, own) ==
  IF r.active THEN r.starts <= now[c] /\ now[c] <= r.ends /\ Capped(c, r, own)
  ELSE ~RuleRequired(Route(c))

Fits(c) == Route(c) \in Ruled /\ pc[c] = "credit" => Within(c, rule[Route(c)], OwnRows(Route(c)))

Sound(c) == Secure(c) /\ Room(c) /\ Locked(c) /\ Fits(c)

\* No row is of a day to come, so none counts on the day after midnight.
NoneAhead == \A k \in DOMAIN grants : grants[k].day <= day

(* The inductive invariant of the rewards *)
GrantsInv ==
  /\ TypeOK
  /\ IsFiniteSet(DOMAIN grants)
  /\ NoneAhead
  /\ DailyLimitKept
  /\ \A c \in Calls : Sound(c)

GrantRow == [route : Routes, user : Users, event : Keys, amount : Nat \ {0},
             day : 0..MaxDay, status : {"COMPLETED", "REVERSED"}]

\* What the types say of one call and of one row
LEMMA GrantTypes ==
  ASSUME TypeOK
  PROVE  /\ \A c \in Calls : /\ req[c] \in Requests /\ req[c] \in RequestType
                             /\ Route(c) \in Routes /\ pc[c] \in Phases
         /\ \A k \in DOMAIN grants : grants[k] \in GrantRow
         /\ \A r \in Ruled : rule[r] \in SettingType
  BY RequestsAssumption DEF TypeOK, Route, RequestType, GrantRow

LEMMA GrantsInit == Init => GrantsInv
<1> SUFFICES ASSUME Init PROVE GrantsInv
  OBVIOUS
<1>1. DOMAIN grants = {}
  BY DEF Init
<1>2. rule \in [Ruled -> SettingType] /\ \A route \in Ruled : rule[route] \in Settings[route]
  <2>1. rule \in [Ruled -> UNION {Settings[r] : r \in Ruled}]
        /\ \A route \in Ruled : rule[route] \in Settings[route]
    BY DEF Init
  <2>2. \A route \in Ruled : Settings[route] \subseteq SettingType
    BY SettingsAssumption
  <2> QED BY <2>1, <2>2
<1>3. TypeOK
  <2>1. grants \in [DOMAIN grants -> GrantRow] /\ DOMAIN grants \subseteq Keys
    BY <1>1 DEF Init
  <2>2. active \in BOOLEAN /\ accounts \subseteq Users
    BY RegisteredAssumption DEF Init
  <2>3. day \in 0..MaxDay /\ more \in 0..MaxMore
    BY LimitsAssumption DEF Init
  <2>4. pc \in [Calls -> Phases] /\ req \in [Calls -> Requests]
    BY DEF Init, Phases
  <2>5. serviceBy \in Calls \cup {Nobody} /\ ruleBy \in [Ruled -> Calls \cup {Nobody}]
        /\ now \in [Calls -> 0..MaxDay]
    BY LimitsAssumption DEF Init
  <2> QED BY <1>2, <2>1, <2>2, <2>3, <2>4, <2>5 DEF TypeOK, GrantRow
<1>4. IsFiniteSet(DOMAIN grants) /\ NoneAhead
  BY <1>1, FS_EmptySet DEF NoneAhead
<1>5. DailyLimitKept
  <2>1. ASSUME NEW d \in 0..MaxDay
        PROVE  Sum(Counts({k \in DOMAIN grants : grants[k].day = d /\ grants[k].route \in ServiceRoutes})) <= Daily
    <3>1. Counts({k \in DOMAIN grants : grants[k].day = d /\ grants[k].route \in ServiceRoutes}) = {}
      BY <1>1 DEF Counts
    <3>2. Sum({}) = 0
      BY TotalEmpty DEF Sum
    <3>3. 0 <= Daily
      BY LimitsAssumption
    <3> QED BY <3>1, <3>2, <3>3
  <2> QED BY <2>1 DEF DailyLimitKept
<1>6. \A c \in Calls : Sound(c)
  BY DEF Init, Sound, Secure, Room, Locked, Fits, Inside, Checked
<1> QED BY <1>3, <1>4, <1>5, <1>6 DEF GrantsInv

-----------------------------------------------------------------------------
(* What keeps the checks of a call true while it does nothing                *)

\* R are rows of S, each still for as much, of the same user and event.
RowsOf(R, S) ==
  \A k \in R : k \in S /\ grants'[k].amount = grants[k].amount
                /\ grants'[k].user = grants[k].user /\ grants'[k].event = grants[k].event

LEMMA FewerRows ==
  ASSUME TypeOK, IsFiniteSet(DOMAIN grants), NEW S, S \subseteq DOMAIN grants,
         NEW R, RowsOf(R, S), R \subseteq DOMAIN grants'
  PROVE  /\ Sum(R)' <= Sum(S) /\ Sum(R)' \in Nat /\ Sum(S) \in Nat
         /\ IsFiniteSet(S) /\ Cardinality(R) <= Cardinality(S)
         /\ Cardinality(R) \in Nat /\ Cardinality(S) \in Nat
<1> DEFINE f == [k \in DOMAIN grants |-> grants[k].amount]
           g == [k \in DOMAIN grants' |-> grants'[k].amount]
<1>1. R \subseteq S
  BY DEF RowsOf
<1>2. IsFiniteSet(S) /\ IsFiniteSet(R)
  BY <1>1, FS_Subset
<1>3. \A k \in S : f[k] \in Nat
  BY GrantTypes DEF GrantRow
<1>4. \A k \in R : g[k] = f[k]
  BY <1>1 DEF RowsOf
<1> HIDE DEF f, g
<1>5. Total(g, R) <= Total(f, S) /\ Total(g, R) \in Nat /\ Total(f, S) \in Nat
  BY <1>1, <1>2, <1>3, <1>4, TotalFewer
<1>6. Sum(R)' = Total(g, R) /\ Sum(S) = Total(f, S)
  BY DEF Sum, f, g
<1>7. Cardinality(R) <= Cardinality(S) /\ Cardinality(R) \in Nat /\ Cardinality(S) \in Nat
  BY <1>1, <1>2, FS_Subset, FS_CardinalityType
<1> QED BY <1>2, <1>5, <1>6, <1>7

\* What has fewer rows under it, or less in all, fits as well.
LEMMA FewerFit ==
  ASSUME NEW limit \in Nat, NEW n \in Nat, NEW m \in Nat, m <= n, NEW a \in Nat
  PROVE  /\ Below(n, limit) => Below(m, limit)
         /\ UpTo(n + a, limit) => UpTo(m + a, limit)
  BY DEF Below, UpTo

\* A call that stands still keeps what it has made sure of, if its locks, its
\* rule and the integration stay, and no row comes to the ones it has counted.
LEMMA StandingStill ==
  ASSUME GrantsInv, NEW b \in Calls, pc'[b] = pc[b], req'[b] = req[b], now'[b] = now[b],
         Secure(b)', Locked(b)',
         Route(b) \in ServiceRoutes /\ pc[b] \in Checked =>
           RowsOf(ServiceRows(day)', ServiceRows(day)),
         Route(b) \in Ruled /\ pc[b] = "credit" =>
           /\ rule'[Route(b)] = rule[Route(b)]
           /\ RowsOf(OwnRows(Route(b))', OwnRows(Route(b)))
           /\ \A k \in OwnRows(Route(b))' : grants'[k].day = day' => grants[k].day = day
  PROVE  Sound(b)'
<1>1. TypeOK /\ IsFiniteSet(DOMAIN grants) /\ Sound(b)
  BY DEF GrantsInv
<1>2. req[b].amount \in Nat /\ Daily \in Nat
  BY <1>1, GrantTypes, LimitsAssumption DEF RequestType
<1>3. Room(b)'
  <2>1. SUFFICES ASSUME Route(b) \in ServiceRoutes, pc[b] \in Checked
                 PROVE  Sum(ServiceRows(day))' + req[b].amount <= Daily
    BY DEF Room, Route
  <2>2. Sum(ServiceRows(day)) + req[b].amount <= Daily
    BY <1>1, <2>1 DEF Sound, Room
  <2>3. ServiceRows(day) \subseteq DOMAIN grants /\ ServiceRows(day)' \subseteq DOMAIN grants'
    BY DEF ServiceRows, Counts
  <2>4. RowsOf(ServiceRows(day)', ServiceRows(day))
    BY <2>1
  <2>5. Sum(ServiceRows(day))' <= Sum(ServiceRows(day))
        /\ Sum(ServiceRows(day))' \in Nat /\ Sum(ServiceRows(day)) \in Nat
    BY <1>1, <2>3, <2>4, FewerRows
  <2> QED BY <1>2, <2>2, <2>5
<1>4. Fits(b)'
  <2>1. SUFFICES ASSUME Route(b) \in Ruled, pc[b] = "credit"
                 PROVE  Within(b, rule[Route(b)], OwnRows(Route(b)))'
    BY DEF Fits, Route
  <2> DEFINE own == OwnRows(Route(b))
             mine == OfUser(own, req[b].user)
             once == OfEvent(mine, req[b].event)
             month == OfMonth(own)
  <2>2. Within(b, rule[Route(b)], own) /\ rule[Route(b)] \in SettingType
    BY <1>1, <2>1, GrantTypes DEF Sound, Fits
  <2>3. rule'[Route(b)] = rule[Route(b)] /\ RowsOf(own', own)
        /\ \A k \in own' : grants'[k].day = day' => grants[k].day = day
    BY <2>1
  <2>4. Route(b)' = Route(b)
    BY DEF Route
  <2>5. own \subseteq DOMAIN grants /\ own' \subseteq DOMAIN grants'
    BY DEF OwnRows
  <2> HIDE DEF own
  <2>6. RowsOf(month', month) /\ RowsOf(mine', mine) /\ RowsOf(once', once)
    BY <2>3 DEF RowsOf, OfMonth, OfUser, OfEvent
  <2>7. /\ month \subseteq own /\ month' \subseteq own'
        /\ mine \subseteq own /\ mine' \subseteq own'
        /\ once \subseteq own /\ once' \subseteq own'
    BY DEF OfMonth, OfUser, OfEvent
  <2> HIDE DEF mine, once, month
  <2>8. Sum(own)' <= Sum(own) /\ Sum(own)' \in Nat /\ Sum(own) \in Nat
    BY <1>1, <2>3, <2>5, FewerRows
  <2>9. /\ Sum(month)' <= Sum(month) /\ Sum(month)' \in Nat /\ Sum(month) \in Nat
        /\ Cardinality(month') <= Cardinality(month) /\ Cardinality(month') \in Nat /\ Cardinality(month) \in Nat
    BY <1>1, <2>5, <2>6, <2>7, FewerRows
  <2>10. Cardinality(mine') <= Cardinality(mine) /\ Cardinality(mine') \in Nat /\ Cardinality(mine) \in Nat
    BY <1>1, <2>5, <2>6, <2>7, FewerRows
  <2>11. Cardinality(once') <= Cardinality(once) /\ Cardinality(once') \in Nat /\ Cardinality(once) \in Nat
    BY <1>1, <2>5, <2>6, <2>7, FewerRows
  <2>12. CASE ~rule[Route(b)].active
    BY <2>2, <2>3, <2>4, <2>12 DEF Within, own
  <2>13. CASE rule[Route(b)].active
    <3> DEFINE r == rule[Route(b)]
    <3>1. /\ UpTo(Sum(own) + req[b].amount, r.total) /\ UpTo(Sum(month) + req[b].amount, r.monthly)
          /\ Below(Cardinality(month), r.monthlyCount)
          /\ Below(Cardinality(mine), r.perUser) /\ Below(Cardinality(once), r.perEvent)
          /\ r.starts <= now[b] /\ now[b] <= r.ends
      BY <2>2, <2>13 DEF Within, Capped, mine, once, month
    <3>2. r.total \in Nat /\ r.monthly \in Nat /\ r.monthlyCount \in Nat /\ r.perUser \in Nat /\ r.perEvent \in Nat
      BY <2>2 DEF SettingType
    <3> HIDE DEF r
    <3>3. UpTo(Sum(own)' + req[b].amount, r.total) /\ UpTo(Sum(month)' + req[b].amount, r.monthly)
      BY <1>2, <2>8, <2>9, <3>1, <3>2, FewerFit
    <3>4. /\ Below(Cardinality(month'), r.monthlyCount)
          /\ Below(Cardinality(mine'), r.perUser) /\ Below(Cardinality(once'), r.perEvent)
      BY <1>2, <2>9, <2>10, <2>11, <3>1, <3>2, FewerFit
    <3>5. Capped(b, r, own)'
      <4>1. r' = r /\ req'[b] = req[b]
        BY <2>3, <2>4 DEF r
      <4> QED BY <3>3, <3>4, <4>1 DEF Capped, mine, once, month
    <3> QED BY <2>3, <2>4, <2>13, <3>1, <3>5 DEF Within, own, r
  <2> QED BY <2>12, <2>13
<1> QED BY <1>3, <1>4 DEF Sound
-----------------------------------------------------------------------------
(* One step of one call, with the rows as they are                           *)

LEMMA SameRows ==
  ASSUME UNCHANGED <<grants, day>>
  PROVE  /\ RowsOf(ServiceRows(day)', ServiceRows(day))
         /\ \A route \in Routes : RowsOf(OwnRows(route)', OwnRows(route))
         /\ DailyLimitKept => DailyLimitKept'
<1>1. ServiceRows(day)' = ServiceRows(day) /\ \A route \in Routes : OwnRows(route)' = OwnRows(route)
  BY DEF ServiceRows, OwnRows, Counts
<1>2. DailyLimitKept => DailyLimitKept'
  BY DEF DailyLimitKept, Sum, Counts
<1> QED BY <1>1, <1>2 DEF RowsOf

LEMMA Moving ==
  ASSUME GrantsInv, NEW c \in Calls, NEW phase \in Phases, Goto(c, phase),
         UNCHANGED <<rule, active, accounts, grants, day>>,
         req' \in [Calls -> Requests], \A b \in Calls \ {c} : req'[b] = req[b],
         more' \in 0..MaxMore,
         serviceBy' \in Calls \cup {Nobody}, ruleBy' \in [Ruled -> Calls \cup {Nobody}],
         \A b \in Calls \ {c} : /\ serviceBy = b => serviceBy' = b
                                /\ \A r \in Ruled : ruleBy[r] = b => ruleBy'[r] = b
                                /\ now'[b] = now[b],
         now' \in [Calls -> 0..MaxDay], Sound(c)'
  PROVE  GrantsInv'
<1>1. TypeOK /\ IsFiniteSet(DOMAIN grants) /\ NoneAhead /\ DailyLimitKept
  BY DEF GrantsInv
<1>2. pc' = [pc EXCEPT ![c] = phase] /\ pc \in [Calls -> Phases]
  BY <1>1 DEF Goto, TypeOK
<1>3. TypeOK'
  <2>1. /\ rule' \in [Ruled -> SettingType] /\ \A route \in Ruled : rule'[route] \in Settings[route]
        /\ active' \in BOOLEAN /\ accounts' \subseteq Users /\ day' \in 0..MaxDay
    BY <1>1 DEF TypeOK
  <2>2. DOMAIN grants' \subseteq Keys
        /\ grants' \in [DOMAIN grants' -> [route : Routes, user : Users, event : Keys, amount : Nat \ {0},
                                           day : 0..MaxDay, status : {"COMPLETED", "REVERSED"}]]
    BY <1>1 DEF TypeOK
  <2>3. pc' \in [Calls -> Phases]
    BY <1>2
  <2> QED BY <2>1, <2>2, <2>3 DEF TypeOK
<1>4. IsFiniteSet(DOMAIN grants') /\ NoneAhead' /\ DailyLimitKept'
  BY <1>1, SameRows DEF NoneAhead
<1>5. ASSUME NEW b \in Calls, b # c PROVE Sound(b)'
  <2>1. pc'[b] = pc[b] /\ req'[b] = req[b] /\ now'[b] = now[b] /\ Sound(b) /\ Route(b) \in Routes
    BY <1>1, <1>2, <1>5, GrantTypes DEF GrantsInv
  <2>2. Secure(b)'
    BY <1>5, <2>1 DEF Sound, Secure, Posted, Route
  <2>3. Locked(b)'
    BY <1>5, <2>1 DEF Sound, Locked, Route
  <2>4. RowsOf(ServiceRows(day)', ServiceRows(day)) /\ RowsOf(OwnRows(Route(b))', OwnRows(Route(b)))
    BY <2>1, SameRows DEF OwnRows, RowsOf, Route
  <2>5. \A k \in OwnRows(Route(b))' : grants'[k].day = day' => grants[k].day = day
    OBVIOUS
  <2> QED BY <2>1, <2>2, <2>3, <2>4, <2>5, StandingStill
<1>6. \A b \in Calls : Sound(b)'
  BY <1>5
<1> QED BY <1>3, <1>4, <1>6 DEF GrantsInv

\* A call that leaves, or goes on without the lock, has nothing to make sure of.
LEMMA Careless ==
  ASSUME TypeOK, NEW c \in Calls, NEW phase \in Phases \ Inside, Goto(c, phase)
  PROVE  Sound(c)'
<1>1. pc'[c] = phase
  BY DEF TypeOK, Goto
<1> QED BY <1>1 DEF Sound, Secure, Room, Locked, Fits, Inside, Checked

LEMMA UnlockKeeps ==
  ASSUME TypeOK, NEW c \in Calls, Unlock(c)
  PROVE  /\ serviceBy' \in Calls \cup {Nobody} /\ ruleBy' \in [Ruled -> Calls \cup {Nobody}]
         /\ now' \in [Calls -> 0..MaxDay]
         /\ \A b \in Calls \ {c} : /\ serviceBy = b => serviceBy' = b
                                   /\ \A r \in Ruled : ruleBy[r] = b => ruleBy'[r] = b
                                   /\ now'[b] = now[b]
  BY NobodyAssumption, LimitsAssumption DEF TypeOK, Unlock

LEMMA LeaveKeeps ==
  ASSUME GrantsInv, NEW c \in Calls, NEW phase \in Ended, Leave(c, phase), UnchangedRows
  PROVE  GrantsInv'
<1>1. TypeOK /\ phase \in Phases /\ phase \in Phases \ Inside
  BY DEF GrantsInv, Phases, Ended, Inside, Checked
<1>2. Goto(c, phase) /\ Unlock(c)
  BY DEF Leave
<1>3. UNCHANGED <<rule, active, accounts, grants, day, req, more>>
  BY DEF UnchangedRows
<1>4. req' \in [Calls -> Requests] /\ more' \in 0..MaxMore
  BY <1>1, <1>3 DEF TypeOK
<1> QED BY <1>1, <1>2, <1>3, <1>4, Careless, UnlockKeeps, Moving

LEMMA GoKeeps ==
  ASSUME GrantsInv, NEW c \in Calls, NEW phase \in Phases, Goto(c, phase),
         UnchangedRows, UnchangedLocks, Sound(c)'
  PROVE  GrantsInv'
<1>1. TypeOK
  BY DEF GrantsInv
<1>2. UNCHANGED <<rule, active, accounts, grants, day, req, more, serviceBy, ruleBy, now>>
  BY DEF UnchangedRows, UnchangedLocks
<1>3. req' \in [Calls -> Requests] /\ more' \in 0..MaxMore /\ now' \in [Calls -> 0..MaxDay]
      /\ serviceBy' \in Calls \cup {Nobody} /\ ruleBy' \in [Ruled -> Calls \cup {Nobody}]
  BY <1>1, <1>2 DEF TypeOK
<1> QED BY <1>2, <1>3, Moving

LEMMA BeginKeeps ==
  ASSUME GrantsInv, NEW c \in Calls,
         ExternalRequest(c) \/ AwardDelivered(c) \/ RewardGranted(c) \/ Milestone(c)
  PROVE  GrantsInv'
<1>1. TypeOK
  BY DEF GrantsInv
<1>2. UnchangedRows /\ UnchangedLocks
  BY DEF ExternalRequest, AwardDelivered, RewardGranted, Milestone, Begin
<1>3. PICK phase \in Phases :
        Goto(c, phase) /\ (phase \notin Inside \/ (phase = "again" /\ Route(c) \notin ServiceRoutes))
  <2>1. CASE ExternalRequest(c) \/ AwardDelivered(c)
    BY <2>1 DEF ExternalRequest, AwardDelivered, Begin, Phases, Ended, Inside, Checked
  <2>2. CASE RewardGranted(c) \/ Milestone(c)
    BY <2>2 DEF RewardGranted, Milestone, Begin, Phases, Ended, Inside, Checked, ServiceRoutes, External
  <2> QED BY <2>1, <2>2
<1>4. CASE phase \notin Inside
  BY <1>1, <1>2, <1>3, <1>4, Careless, GoKeeps
<1>5. CASE phase = "again" /\ Route(c) \notin ServiceRoutes
  <2>1. pc'[c] = "again" /\ Route(c)' = Route(c)
    BY <1>1, <1>2, <1>3, <1>5 DEF Goto, TypeOK, Route, UnchangedRows
  <2>2. Sound(c)'
    BY <1>5, <2>1 DEF Sound, Secure, Room, Locked, Fits
  <2> QED BY <1>2, <1>3, <2>2, GoKeeps
<1> QED BY <1>3, <1>4, <1>5

LEMMA LockServiceKeeps == ASSUME GrantsInv, NEW c \in Calls, LockService(c) PROVE GrantsInv'
<1>1. TypeOK /\ "limits" \in Phases /\ "refused" \in Phases \ Inside /\ "over" \in Phases \ Inside
  BY DEF GrantsInv, Phases, Ended, Inside, Checked
<1>2. UnchangedRows /\ serviceBy = Nobody
  BY DEF LockService, ServiceFree
<1>3. CASE ~active \/ Posted(c)
  <2>1. UnchangedLocks /\ (Goto(c, "refused") \/ Goto(c, "over"))
    BY <1>3 DEF LockService, StillActive, FoundUnderLock
  <2> QED BY <1>1, <1>2, <2>1, Careless, GoKeeps
<1>4. CASE active /\ ~Posted(c)
  <2>1. Goto(c, "limits") /\ serviceBy' = c /\ ruleBy' = ruleBy /\ now' = now
    BY <1>4 DEF LockService, StillActive, FoundUnderLock
  <2>2. UNCHANGED <<rule, active, accounts, grants, day, req, more>>
    BY <1>2 DEF UnchangedRows
  <2>3. pc'[c] = "limits" /\ Posted(c)' = Posted(c)
    BY <1>1, <2>1, <2>2 DEF Goto, TypeOK, Posted
  <2>4. Sound(c)'
    BY <1>4, <2>1, <2>2, <2>3 DEF Sound, Secure, Room, Locked, Fits, Checked
  <2>5. req' \in [Calls -> Requests] /\ more' \in 0..MaxMore /\ now' \in [Calls -> 0..MaxDay]
        /\ serviceBy' \in Calls \cup {Nobody} /\ ruleBy' \in [Ruled -> Calls \cup {Nobody}]
    BY <1>1, <2>1, <2>2 DEF TypeOK
  <2>6. \A b \in Calls \ {c} : serviceBy # b
    BY <1>2, NobodyAssumption
  <2> QED BY <1>1, <2>1, <2>2, <2>4, <2>5, <2>6, Moving
<1> QED BY <1>3, <1>4

\* The check of the daily limit counts all that the limit is about.
LEMMA CheckServiceLimitsKeeps == ASSUME GrantsInv, NEW c \in Calls, CheckServiceLimits(c) PROVE GrantsInv'
<1>1. TypeOK /\ "again" \in Phases /\ "refused" \in Ended /\ UnchangedRows /\ pc[c] = "limits" /\ Sound(c)
  BY DEF GrantsInv, Phases, Ended, CheckServiceLimits
<1>2. CASE ~WithinServiceLimits(c)
  <2>1. Leave(c, "refused")
    BY <1>2 DEF CheckServiceLimits
  <2> QED BY <1>1, <2>1, LeaveKeeps
<1>3. CASE WithinServiceLimits(c)
  <2>1. Goto(c, "again") /\ UnchangedLocks
    BY <1>3 DEF CheckServiceLimits
  <2>2. UNCHANGED <<rule, active, accounts, grants, day, req, serviceBy, ruleBy, now>>
    BY <1>1, <2>1 DEF UnchangedRows, UnchangedLocks
  <2>3. pc'[c] = "again" /\ Posted(c)' = Posted(c) /\ Route(c)' = Route(c)
    BY <1>1, <2>1, <2>2 DEF Goto, TypeOK, Posted, Route
  <2>4. Secure(c)' /\ Locked(c)' /\ Fits(c)'
    BY <1>1, <2>2, <2>3 DEF Sound, Secure, Locked, Fits, Inside
  <2>5. Room(c)'
    <3>1. ServiceRows(day) \subseteq GrantedToday /\ GrantedToday \subseteq DOMAIN grants
      BY DEF ServiceRows, GrantedToday, Counts, ServiceRoutes, External
    <3>2. IsFiniteSet(DOMAIN grants)
      BY DEF GrantsInv
    <3>3. Sum(ServiceRows(day))' <= Sum(GrantedToday) /\ Sum(ServiceRows(day))' \in Nat /\ Sum(GrantedToday) \in Nat
      <4>1. ServiceRows(day)' = ServiceRows(day)
        BY <2>2 DEF ServiceRows, Counts
      <4>2. /\ Total([k \in DOMAIN grants' |-> grants'[k].amount], ServiceRows(day)) <= Sum(GrantedToday)
            /\ Total([k \in DOMAIN grants' |-> grants'[k].amount], ServiceRows(day)) \in Nat
            /\ Sum(GrantedToday) \in Nat
        <5> DEFINE R == ServiceRows(day)
                   f == [k \in DOMAIN grants |-> grants[k].amount]
        <5>1. Sum(GrantedToday) = Total(f, GrantedToday) /\ [k \in DOMAIN grants' |-> grants'[k].amount] = f
          BY <2>2 DEF Sum
        <5>2. IsFiniteSet(GrantedToday) /\ \A k \in GrantedToday : f[k] \in Nat
          BY <1>1, <3>1, <3>2, FS_Subset, GrantTypes DEF GrantRow
        <5>3. Total(f, R) <= Total(f, GrantedToday) /\ Total(f, R) \in Nat /\ Total(f, GrantedToday) \in Nat
          BY <3>1, <5>2, TotalFewer
        <5> QED BY <5>1, <5>3
      <4> QED BY <4>1, <4>2 DEF Sum
    <3>4. Sum(GrantedToday) + req[c].amount <= Daily
      BY <1>3 DEF WithinServiceLimits
    <3>5. req[c].amount \in Nat /\ Daily \in Nat
      BY <1>1, GrantTypes, LimitsAssumption DEF RequestType
    <3>6. Sum(ServiceRows(day))' + req[c].amount <= Daily
      BY <3>3, <3>4, <3>5
    <3> QED BY <2>2, <3>6 DEF Room
  <2> QED BY <1>1, <2>1, <2>4, <2>5, GoKeeps DEF Sound
<1> QED BY <1>2, <1>3

\* On past the look-up, and past the wait for the rule, a call has made sure of
\* the same things.
LEMMA LookAgainKeeps == ASSUME GrantsInv, NEW c \in Calls, LookAgain(c) PROVE GrantsInv'
<1>1. TypeOK /\ "over" \in Ended /\ UnchangedRows /\ pc[c] = "again" /\ Sound(c)
  BY DEF GrantsInv, Ended, LookAgain
<1>2. CASE Posted(c)
  <2>1. Leave(c, "over")
    BY <1>2 DEF LookAgain
  <2> QED BY <1>1, <2>1, LeaveKeeps
<1>3. CASE ~Posted(c)
  <2> DEFINE next == IF Route(c) \in Ruled THEN "rule" ELSE "credit"
  <2>1. Goto(c, next) /\ UnchangedLocks /\ next \in Phases
    BY <1>3 DEF LookAgain, Phases
  <2>2. UNCHANGED <<rule, active, accounts, grants, day, req, serviceBy, ruleBy, now>>
    BY <1>1, <2>1 DEF UnchangedRows, UnchangedLocks
  <2>3. pc'[c] = next /\ Route(c)' = Route(c)
    BY <1>1, <2>1, <2>2 DEF Goto, TypeOK, Route
  <2>4. Sound(c)'
    BY <1>1, <2>2, <2>3 DEF Sound, Secure, Room, Locked, Fits, Inside, Checked, Posted, Route,
                            Sum, ServiceRows, Counts
  <2> QED BY <1>1, <2>1, <2>4, GoKeeps
<1> QED BY <1>2, <1>3

LEMMA LockRuleKeeps == ASSUME GrantsInv, NEW c \in Calls, LockRule(c) PROVE GrantsInv'
<1>1. TypeOK /\ "caps" \in Phases /\ pc[c] = "rule" /\ Sound(c) /\ ruleBy[Route(c)] = Nobody
  BY DEF GrantsInv, Phases, LockRule, RuleFree
<1>2. UNCHANGED <<rule, active, accounts, grants, day, req, more, serviceBy, now>>
      /\ ruleBy' = [ruleBy EXCEPT ![Route(c)] = c] /\ Goto(c, "caps")
  BY DEF LockRule, UnchangedRows
<1>3. pc'[c] = "caps" /\ (Route(c) \in Ruled => ruleBy'[Route(c)] = c)
  BY <1>1, <1>2, GrantTypes DEF Goto, TypeOK
<1>4. Sound(c)'
  BY <1>1, <1>2, <1>3 DEF Sound, Secure, Room, Locked, Fits, Inside, Checked, Posted, Route,
                          Sum, ServiceRows, Counts
<1>5. /\ req' \in [Calls -> Requests] /\ more' \in 0..MaxMore /\ now' \in [Calls -> 0..MaxDay]
      /\ serviceBy' \in Calls \cup {Nobody} /\ ruleBy' \in [Ruled -> Calls \cup {Nobody}]
  BY <1>1, <1>2 DEF TypeOK
<1>6. \A b \in Calls \ {c} : \A r \in Ruled : ruleBy[r] = b => ruleBy'[r] = b
  BY <1>1, <1>2, NobodyAssumption DEF TypeOK
<1> QED BY <1>1, <1>2, <1>4, <1>5, <1>6, Moving

\* The rule counts its own grants, and more on the event's route.
LEMMA PermittedIsWithin ==
  ASSUME GrantsInv, NEW c \in Calls, Route(c) \in Ruled, Permitted(c), rule[Route(c)].active
  PROVE  Capped(c, rule[Route(c)], OwnRows(Route(c)))
<1> DEFINE r == rule[Route(c)]
           own == OwnRows(Route(c))
           all == OfRule(Route(c))
           f == [k \in DOMAIN grants |-> grants[k].amount]
           month1 == OfMonth(own)
           month2 == OfMonth(all)
           own1 == OfUser(own, req[c].user)
           all1 == OfUser(all, req[c].user)
           own2 == OfEvent(own1, req[c].event)
           all2 == OfEvent(all1, req[c].event)
<1>1. TypeOK /\ IsFiniteSet(DOMAIN grants) /\ r \in SettingType /\ req[c].amount \in Nat
  BY GrantTypes DEF GrantsInv, RequestType
<1>2. own \subseteq all /\ all \subseteq DOMAIN grants
  BY DEF OwnRows, OfRule, Counts, CountedRoutes
<1> HIDE DEF own, all
<1>3. /\ month1 \subseteq month2 /\ month2 \subseteq all
      /\ own1 \subseteq all1 /\ all1 \subseteq all
      /\ own2 \subseteq all2 /\ all2 \subseteq all
  BY <1>2 DEF OfMonth, OfUser, OfEvent
<1> HIDE DEF own1, all1, own2, all2, month1, month2
<1>4. IsFiniteSet(all) /\ IsFiniteSet(month2) /\ IsFiniteSet(all1) /\ IsFiniteSet(all2)
  BY <1>1, <1>2, <1>3, FS_Subset
<1>5. \A k \in all : f[k] \in Nat
  BY <1>1, <1>2, GrantTypes DEF GrantRow
<1> HIDE DEF f
<1>6. Total(f, own) <= Total(f, all) /\ Total(f, own) \in Nat /\ Total(f, all) \in Nat
  BY <1>2, <1>4, <1>5, TotalFewer
<1>7. Total(f, month1) <= Total(f, month2) /\ Total(f, month1) \in Nat /\ Total(f, month2) \in Nat
  BY <1>3, <1>4, <1>5, TotalFewer
<1>8. /\ Cardinality(own1) <= Cardinality(all1) /\ Cardinality(own1) \in Nat /\ Cardinality(all1) \in Nat
      /\ Cardinality(own2) <= Cardinality(all2) /\ Cardinality(own2) \in Nat /\ Cardinality(all2) \in Nat
      /\ Cardinality(month1) <= Cardinality(month2) /\ Cardinality(month1) \in Nat /\ Cardinality(month2) \in Nat
  BY <1>3, <1>4, FS_Subset, FS_CardinalityType
<1>9. /\ UpTo(Total(f, all) + req[c].amount, r.total) /\ UpTo(Total(f, month2) + req[c].amount, r.monthly)
      /\ Below(Cardinality(month2), r.monthlyCount)
      /\ Below(Cardinality(all1), r.perUser) /\ Below(Cardinality(all2), r.perEvent)
  BY DEF Permitted, Sum, f, all, all1, all2, month2
<1>10. r.total \in Nat /\ r.monthly \in Nat /\ r.monthlyCount \in Nat /\ r.perUser \in Nat /\ r.perEvent \in Nat
  BY <1>1 DEF SettingType
<1> HIDE DEF r
<1>11. UpTo(Total(f, own) + req[c].amount, r.total) /\ UpTo(Total(f, month1) + req[c].amount, r.monthly)
  BY <1>1, <1>6, <1>7, <1>9, <1>10, FewerFit
<1>12. /\ Below(Cardinality(month1), r.monthlyCount)
       /\ Below(Cardinality(own1), r.perUser) /\ Below(Cardinality(own2), r.perEvent)
  BY <1>1, <1>8, <1>9, <1>10, FewerFit
<1> QED BY <1>11, <1>12 DEF Capped, Sum, f, own, own1, own2, month1, r

LEMMA CheckRuleLimitsKeeps == ASSUME GrantsInv, NEW c \in Calls, CheckRuleLimits(c) PROVE GrantsInv'
<1>1. TypeOK /\ "credit" \in Phases /\ "refused" \in Ended /\ UnchangedRows /\ pc[c] = "caps" /\ Sound(c)
  BY DEF GrantsInv, Phases, Ended, CheckRuleLimits
<1>2. CASE ~Permitted(c)
  <2>1. Leave(c, "refused")
    BY <1>2 DEF CheckRuleLimits
  <2> QED BY <1>1, <2>1, LeaveKeeps
<1>3. CASE Permitted(c)
  <2>1. Goto(c, "credit") /\ now' = [now EXCEPT ![c] = day]
    BY <1>3 DEF CheckRuleLimits
  <2>2. UNCHANGED <<rule, active, accounts, grants, day, req, more, serviceBy, ruleBy>>
    BY <1>1, <1>3 DEF UnchangedRows, CheckRuleLimits
  <2>3. pc'[c] = "credit" /\ now'[c] = day /\ now' \in [Calls -> 0..MaxDay]
        /\ \A b \in Calls \ {c} : now'[b] = now[b]
    BY <1>1, <2>1 DEF Goto, TypeOK
  <2>4. Fits(c)'
    <3>1. SUFFICES ASSUME Route(c) \in Ruled
                   PROVE  Within(c, rule[Route(c)], OwnRows(Route(c)))'
      BY <2>2 DEF Fits, Route
    <3>2. UNCHANGED <<rule[Route(c)], RuleRequired(Route(c))>>
      BY <2>2 DEF Route, RuleRequired
    <3>3. CASE ~rule[Route(c)].active
      BY <1>3, <3>2, <3>3 DEF Within, Permitted
    <3>4. CASE rule[Route(c)].active
      <4>1. Capped(c, rule[Route(c)], OwnRows(Route(c)))'
        <5>1. Capped(c, rule[Route(c)], OwnRows(Route(c)))
          BY <1>3, <3>1, <3>4, PermittedIsWithin
        <5> QED BY <2>2, <5>1 DEF Capped, OwnRows, Route, Sum, OfMonth, OfUser, OfEvent
      <4>2. rule[Route(c)].starts <= day /\ day <= rule[Route(c)].ends
        BY <1>3, <3>4 DEF Permitted
      <4> QED BY <2>3, <3>2, <3>4, <4>1, <4>2 DEF Within
    <3> QED BY <3>3, <3>4
  <2>5. Secure(c)' /\ Room(c)' /\ Locked(c)'
    BY <1>1, <2>2, <2>3 DEF Sound, Secure, Room, Locked, Inside, Checked, Posted, Route,
                            Sum, ServiceRows, Counts
  <2>6. /\ req' \in [Calls -> Requests] /\ more' \in 0..MaxMore
        /\ serviceBy' \in Calls \cup {Nobody} /\ ruleBy' \in [Ruled -> Calls \cup {Nobody}]
    BY <1>1, <2>2 DEF TypeOK
  <2> QED BY <1>1, <2>1, <2>2, <2>3, <2>4, <2>5, <2>6, Moving DEF Sound
<1> QED BY <1>2, <1>3

LEMMA EndingKeeps == ASSUME GrantsInv, NEW c \in Calls, Duplicate(c) \/ Abort(c) PROVE GrantsInv'
<1>1. UnchangedRows /\ \E phase \in Ended : Leave(c, phase)
  BY DEF Duplicate, Abort, Ended
<1> QED BY <1>1, LeaveKeeps

LEMMA ArriveKeeps == ASSUME GrantsInv, NEW c \in Calls, Arrive(c) PROVE GrantsInv'
<1>1. TypeOK /\ "start" \in Phases \ Inside
  BY DEF GrantsInv, Phases, Inside, Checked
<1>2. /\ UNCHANGED <<rule, active, accounts, grants, day, serviceBy, ruleBy, now>> /\ Goto(c, "start")
      /\ more < MaxMore /\ more' = more + 1
      /\ \E r \in Requests : req' = [req EXCEPT ![c] = r]
  BY DEF Arrive, UnchangedLocks
<1>3. /\ req' \in [Calls -> Requests] /\ \A b \in Calls \ {c} : req'[b] = req[b]
      /\ more' \in 0..MaxMore /\ now' \in [Calls -> 0..MaxDay]
      /\ serviceBy' \in Calls \cup {Nobody} /\ ruleBy' \in [Ruled -> Calls \cup {Nobody}]
  BY <1>1, <1>2, LimitsAssumption DEF TypeOK
<1> QED BY <1>1, <1>2, <1>3, Careless, Moving

-----------------------------------------------------------------------------
(* The commit of a grant, and what goes on outside the calls                 *)

\* One row is added, of the call's route and this day; the others stay.
LEMMA CreditRow ==
  ASSUME GrantsInv, NEW c \in Calls, Credit(c)
  PROVE  /\ req[c].key \in Keys \ DOMAIN grants
         /\ DOMAIN grants' = DOMAIN grants \cup {req[c].key}
         /\ \A k \in DOMAIN grants : grants'[k] = grants[k]
         /\ grants'[req[c].key] \in GrantRow
         /\ LET row == grants'[req[c].key]
            IN /\ row.route = Route(c) /\ row.user = req[c].user /\ row.event = req[c].event
               /\ row.amount = req[c].amount /\ row.day = day /\ row.status = "COMPLETED"
         /\ grants' = [k \in DOMAIN grants' |-> grants'[k]]
<1>1. TypeOK /\ req[c] \in RequestType /\ Route(c) \in Routes
  BY GrantTypes DEF GrantsInv
<1>2. req[c].key \in Keys \ DOMAIN grants
  BY <1>1 DEF RequestType, Credit, Posted
<1>3. grants' = [k \in DOMAIN grants \cup {req[c].key} |->
                  IF k \in DOMAIN grants THEN grants[k]
                  ELSE [route |-> Route(c), user |-> req[c].user, event |-> req[c].event,
                        amount |-> req[c].amount, day |-> day, status |-> "COMPLETED"]]
  BY DEF Credit
<1>4. day \in 0..MaxDay
  BY <1>1 DEF TypeOK
<1> QED BY <1>1, <1>2, <1>3, <1>4 DEF RequestType, GrantRow

\* The daily limit has room for the row: the call held the integration since
\* the check, and midnight only makes more.
LEMMA CreditWithinDaily ==
  ASSUME GrantsInv, NEW c \in Calls, Credit(c), NEW d \in 0..MaxDay
  PROVE  Sum(ServiceRows(d))' <= Daily
<1> DEFINE key == req[c].key
           old == ServiceRows(d)
           f == [k \in DOMAIN grants |-> grants[k].amount]
           g == [k \in DOMAIN grants' |-> grants'[k].amount]
<1>1. /\ key \notin DOMAIN grants /\ DOMAIN grants' = DOMAIN grants \cup {key}
      /\ \A k \in DOMAIN grants : grants'[k] = grants[k]
      /\ grants'[key].route = Route(c) /\ grants'[key].day = day
      /\ grants'[key].amount = req[c].amount /\ grants'[key].status = "COMPLETED"
  BY CreditRow
<1>2. TypeOK /\ IsFiniteSet(DOMAIN grants) /\ Sound(c) /\ pc[c] = "credit" /\ DailyLimitKept
  BY DEF GrantsInv, Credit
<1>3. old \subseteq DOMAIN grants /\ IsFiniteSet(old)
  BY <1>2, FS_Subset DEF ServiceRows, Counts
<1>4. req[c].amount \in Nat /\ Daily \in Nat
  BY <1>2, GrantTypes, LimitsAssumption DEF RequestType
<1>5. (\A k \in old : f[k] \in Nat /\ g[k] = f[k]) /\ g[key] = req[c].amount
  BY <1>1, <1>2, <1>3, GrantTypes DEF GrantRow
<1>6. Sum(old) <= Daily /\ Sum(old) = Total(f, old)
  BY <1>2 DEF DailyLimitKept, ServiceRows, ServiceRoutes, Sum
<1>7. CASE d = day /\ Route(c) \in ServiceRoutes
  <2>1. ServiceRows(d)' = old \cup {key}
    BY <1>1, <1>7 DEF ServiceRows, Counts
  <2>2. Sum(ServiceRows(d))' = Total(g, old \cup {key})
    BY <2>1 DEF Sum
  <2>3. Sum(old) + req[c].amount <= Daily
    BY <1>2, <1>7 DEF Sound, Room, Checked
  <2> HIDE DEF old, f, g, key
  <2>4. Total(g, old \cup {key}) = Total(f, old) + req[c].amount
    <3>1. key \notin old /\ g[key] \in Nat
      BY <1>1, <1>3, <1>4, <1>5
    <3>2. \A k \in old : g[k] \in Nat
      BY <1>5
    <3>3. Total(g, old \cup {key}) = Total(g, old) + g[key]
      BY <1>3, <3>1, <3>2, TotalAdd
    <3>4. Total(g, old) = Total(f, old)
      BY <1>5, TotalSame
    <3> QED BY <1>5, <3>3, <3>4
  <2> QED BY <1>6, <2>2, <2>3, <2>4
<1>8. CASE ~(d = day /\ Route(c) \in ServiceRoutes)
  <2>1. ServiceRows(d)' = old
    BY <1>1, <1>8 DEF ServiceRows, Counts
  <2>2. Sum(ServiceRows(d))' = Total(g, old)
    BY <2>1 DEF Sum
  <2> HIDE DEF old, f, g, key
  <2>3. Total(g, old) = Total(f, old)
    BY <1>5, TotalSame
  <2> QED BY <1>6, <2>2, <2>3
<1> QED BY <1>7, <1>8

LEMMA CreditKeeps == ASSUME GrantsInv, NEW c \in Calls, Credit(c) PROVE GrantsInv'
<1> DEFINE key == req[c].key
<1>1. TypeOK /\ IsFiniteSet(DOMAIN grants) /\ NoneAhead /\ Sound(c) /\ pc[c] = "credit"
  BY DEF GrantsInv, Credit
<1>2. /\ UNCHANGED <<rule, active, day, req, more>> /\ Goto(c, "over") /\ Unlock(c)
      /\ accounts' = accounts \cup {req[c].user}
  BY DEF Credit, Leave
<1>3. /\ key \in Keys \ DOMAIN grants /\ DOMAIN grants' = DOMAIN grants \cup {key}
      /\ \A k \in DOMAIN grants : grants'[k] = grants[k]
      /\ grants'[key] \in GrantRow
      /\ grants'[key].route = Route(c) /\ grants'[key].day = day
      /\ grants' = [k \in DOMAIN grants' |-> grants'[k]]
  BY CreditRow
<1>4. /\ serviceBy' \in Calls \cup {Nobody} /\ ruleBy' \in [Ruled -> Calls \cup {Nobody}]
      /\ now' \in [Calls -> 0..MaxDay]
      /\ \A b \in Calls \ {c} : /\ serviceBy = b => serviceBy' = b
                                /\ \A r \in Ruled : ruleBy[r] = b => ruleBy'[r] = b
                                /\ now'[b] = now[b]
  BY <1>1, <1>2, UnlockKeeps
<1>5. TypeOK'
  <2>1. /\ rule' \in [Ruled -> SettingType] /\ \A route \in Ruled : rule'[route] \in Settings[route]
        /\ active' \in BOOLEAN /\ day' \in 0..MaxDay /\ more' \in 0..MaxMore /\ req' \in [Calls -> Requests]
    BY <1>1, <1>2 DEF TypeOK
  <2>2. accounts' \subseteq Users
    BY <1>1, <1>2, GrantTypes DEF TypeOK, RequestType
  <2>3. DOMAIN grants' \subseteq Keys /\ grants' \in [DOMAIN grants' -> GrantRow]
    <3>1. DOMAIN grants \subseteq Keys /\ \A k \in DOMAIN grants : grants[k] \in GrantRow
      BY <1>1, GrantTypes DEF TypeOK
    <3> QED BY <1>3, <3>1
  <2>4. pc' \in [Calls -> Phases]
    BY <1>1, <1>2 DEF Goto, TypeOK, Phases, Ended
  <2> QED BY <1>4, <2>1, <2>2, <2>3, <2>4 DEF TypeOK, GrantRow
<1>6. IsFiniteSet(DOMAIN grants')
  BY <1>1, <1>3, FS_AddElement
<1>7. NoneAhead'
  <2>1. day \in Nat
    BY <1>1, LimitsAssumption DEF TypeOK
  <2> QED BY <1>1, <1>2, <1>3, <2>1 DEF NoneAhead
<1>8. DailyLimitKept'
  BY CreditWithinDaily DEF DailyLimitKept, ServiceRows, ServiceRoutes, Sum
<1>9. Sound(c)'
  <2>1. "over" \in Phases \ Inside
    BY DEF Phases, Ended, Inside, Checked
  <2> QED BY <1>1, <1>2, <2>1, Careless
<1>10. ASSUME NEW b \in Calls, b # c PROVE Sound(b)'
  <2>1. pc'[b] = pc[b] /\ req'[b] = req[b] /\ Sound(b) /\ Route(b) \in Routes /\ Route(b)' = Route(b)
    BY <1>1, <1>2, <1>10, GrantTypes DEF GrantsInv, Goto, TypeOK, Route
  <2>2. Route(b) \in ServiceRoutes /\ pc[b] \in Inside => Route(c) \notin ServiceRoutes
    BY <1>1, <1>10, <2>1 DEF Sound, Secure, Inside, Checked
  <2>3. Secure(b)'
    <3>1. Route(b) \in ServiceRoutes /\ Route(c) \notin ServiceRoutes => req[b].key # req[c].key
      <4>1. req[b] \in Requests /\ req[c] \in Requests
        BY <1>1, GrantTypes
      <4> QED BY <4>1, KeysAssumption DEF Route, ServiceRoutes
    <3> QED BY <1>2, <1>3, <1>4, <1>10, <2>1, <2>2, <3>1 DEF Sound, Secure, Posted, Route
  <2>4. Locked(b)'
    BY <1>4, <1>10, <2>1 DEF Sound, Locked
  <2>5. Route(b) \in ServiceRoutes /\ pc[b] \in Checked =>
          RowsOf(ServiceRows(day)', ServiceRows(day))
    BY <1>2, <1>3, <2>2 DEF RowsOf, ServiceRows, Counts, Inside
  <2>6. Route(b) \in Ruled /\ pc[b] = "credit" =>
          /\ RowsOf(OwnRows(Route(b))', OwnRows(Route(b)))
          /\ \A k \in OwnRows(Route(b))' : grants'[k].day = day' => grants[k].day = day
    <3>1. Route(b) \in Ruled /\ pc[b] = "credit" => Route(b) # Route(c)
      BY <1>1, <1>10, <2>1 DEF Sound, Locked
    <3> QED BY <1>2, <1>3, <2>1, <3>1 DEF RowsOf, OwnRows
  <2> QED BY <1>2, <1>4, <1>10, <2>1, <2>3, <2>4, <2>5, <2>6, StandingStill
<1> QED BY <1>5, <1>6, <1>7, <1>8, <1>9, <1>10 DEF GrantsInv

\* The calls stand still, and no row is added.
LEMMA OutsideKeeps ==
  ASSUME GrantsInv, TypeOK', UNCHANGED <<req, pc, serviceBy, ruleBy, now>>,
         IsFiniteSet(DOMAIN grants'), NoneAhead', DailyLimitKept', DOMAIN grants' = DOMAIN grants,
         active' = active \/ serviceBy = Nobody,
         RowsOf(ServiceRows(day)', ServiceRows(day)),
         \A r \in Ruled : \/ ruleBy[r] = Nobody
                           \/ /\ rule'[r] = rule[r] /\ RowsOf(OwnRows(r)', OwnRows(r))
                              /\ \A k \in OwnRows(r)' : grants'[k].day = day' => grants[k].day = day
  PROVE  GrantsInv'
<1>1. ASSUME NEW b \in Calls PROVE Sound(b)'
  <2>1. Sound(b) /\ Route(b)' = Route(b) /\ Route(b) \in Routes
    BY GrantTypes DEF GrantsInv, Route
  <2>2. Secure(b)'
    BY <2>1, NobodyAssumption DEF Sound, Secure, Posted
  <2>3. Locked(b)'
    BY <2>1 DEF Sound, Locked
  <2>4. Route(b) \in Ruled /\ pc[b] = "credit" =>
          /\ rule'[Route(b)] = rule[Route(b)]
          /\ RowsOf(OwnRows(Route(b))', OwnRows(Route(b)))
          /\ \A k \in OwnRows(Route(b))' : grants'[k].day = day' => grants[k].day = day
    <3>1. Route(b) \in Ruled /\ pc[b] = "credit" => ruleBy[Route(b)] # Nobody
      BY <2>1, NobodyAssumption DEF Sound, Locked
    <3> QED BY <2>1, <3>1 DEF OwnRows, RowsOf
  <2> QED BY <2>2, <2>3, <2>4, StandingStill
<1> QED BY <1>1 DEF GrantsInv

LEMMA ReverseKeeps == ASSUME GrantsInv, NEW x \in DOMAIN grants, Reverse(x) PROVE GrantsInv'
<1>1. TypeOK /\ IsFiniteSet(DOMAIN grants) /\ NoneAhead /\ DailyLimitKept
  BY DEF GrantsInv
<1>2. UNCHANGED <<rule, active, accounts, day, req, pc, more, serviceBy, ruleBy, now>>
      /\ grants' = [grants EXCEPT ![x].status = "REVERSED"]
  BY DEF Reverse
<1>3. DOMAIN grants' = DOMAIN grants /\ grants'[x].status = "REVERSED"
      /\ \A k \in DOMAIN grants :
           /\ grants'[k] \in GrantRow
           /\ k # x => grants'[k] = grants[k]
           /\ grants'[k].amount = grants[k].amount /\ grants'[k].user = grants[k].user
           /\ grants'[k].event = grants[k].event /\ grants'[k].day = grants[k].day
           /\ grants'[k].route = grants[k].route
  <2>1. \A k \in DOMAIN grants : grants[k] \in GrantRow
    BY <1>1, GrantTypes
  <2> QED BY <1>2, <2>1 DEF GrantRow
<1>4. TypeOK'
  <2>1. DOMAIN grants' \subseteq Keys /\ grants' \in [DOMAIN grants' -> GrantRow]
    BY <1>1, <1>2, <1>3 DEF TypeOK
  <2> QED BY <1>1, <1>2, <2>1 DEF TypeOK, GrantRow
<1>5. NoneAhead' /\ IsFiniteSet(DOMAIN grants')
  BY <1>1, <1>2, <1>3 DEF NoneAhead
<1>6. /\ \A d \in 0..MaxDay : RowsOf(ServiceRows(d)', ServiceRows(d))
      /\ RowsOf(ServiceRows(day)', ServiceRows(day))
  BY <1>2, <1>3 DEF RowsOf, ServiceRows, Counts
<1>7. \A r \in Routes : RowsOf(OwnRows(r)', OwnRows(r))
                        /\ \A k \in OwnRows(r)' : grants'[k].day = day' => grants[k].day = day
  BY <1>2, <1>3 DEF RowsOf, OwnRows
<1>8. ASSUME NEW d \in 0..MaxDay PROVE Sum(ServiceRows(d))' <= Daily
  <2>1. Sum(ServiceRows(d)) <= Daily
    BY <1>1 DEF DailyLimitKept, ServiceRows, ServiceRoutes
  <2>2. ServiceRows(d) \subseteq DOMAIN grants /\ ServiceRows(d)' \subseteq DOMAIN grants'
    BY DEF ServiceRows, Counts
  <2>3. Sum(ServiceRows(d))' <= Sum(ServiceRows(d))
        /\ Sum(ServiceRows(d))' \in Nat /\ Sum(ServiceRows(d)) \in Nat
    BY <1>1, <1>6, <2>2, FewerRows
  <2> QED BY <2>1, <2>3, LimitsAssumption
<1>9. DailyLimitKept'
  BY <1>8 DEF DailyLimitKept, ServiceRows, ServiceRoutes, Sum
<1> QED BY <1>2, <1>3, <1>4, <1>5, <1>6, <1>7, <1>9, OutsideKeeps DEF Ruled

\* The administrator's UPDATE waits for whoever has read the row.
LEMMA SetRuleKeeps ==
  ASSUME GrantsInv, NEW route \in Ruled, NEW setting \in Settings[route], SetRule(route, setting)
  PROVE  GrantsInv'
<1>1. TypeOK /\ IsFiniteSet(DOMAIN grants) /\ NoneAhead /\ DailyLimitKept
  BY DEF GrantsInv
<1>2. UNCHANGED <<active, accounts, grants, day, req, pc, more, serviceBy, ruleBy, now>>
      /\ rule' = [rule EXCEPT ![route] = setting] /\ ruleBy[route] = Nobody
  BY DEF SetRule
<1>3. setting \in SettingType
  BY SettingsAssumption
<1>4. TypeOK'
  BY <1>1, <1>2, <1>3 DEF TypeOK
<1>5. NoneAhead' /\ DailyLimitKept' /\ RowsOf(ServiceRows(day)', ServiceRows(day))
      /\ \A r \in Routes : RowsOf(OwnRows(r)', OwnRows(r))
  BY <1>1, <1>2, SameRows DEF NoneAhead
<1>6. \A r \in Ruled : ruleBy[r] = Nobody \/ rule'[r] = rule[r]
  BY <1>1, <1>2 DEF TypeOK
<1> QED BY <1>1, <1>2, <1>4, <1>5, <1>6, OutsideKeeps DEF Ruled

LEMMA SetIntegrationKeeps ==
  ASSUME GrantsInv, NEW status \in BOOLEAN, SetIntegration(status) PROVE GrantsInv'
<1>1. TypeOK /\ IsFiniteSet(DOMAIN grants) /\ NoneAhead /\ DailyLimitKept
  BY DEF GrantsInv
<1>2. UNCHANGED <<rule, accounts, grants, day, req, pc, more, serviceBy, ruleBy, now>>
      /\ active' = status /\ serviceBy = Nobody
  BY DEF SetIntegration
<1>3. TypeOK'
  BY <1>1, <1>2 DEF TypeOK
<1>4. NoneAhead' /\ DailyLimitKept' /\ RowsOf(ServiceRows(day)', ServiceRows(day))
      /\ \A r \in Routes : RowsOf(OwnRows(r)', OwnRows(r))
  BY <1>1, <1>2, SameRows DEF NoneAhead
<1> QED BY <1>1, <1>2, <1>3, <1>4, OutsideKeeps DEF Ruled

\* Nothing has been given out on the new day.
LEMMA MidnightKeeps == ASSUME GrantsInv, Midnight PROVE GrantsInv'
<1>1. TypeOK /\ IsFiniteSet(DOMAIN grants) /\ NoneAhead /\ DailyLimitKept
  BY DEF GrantsInv
<1>2. UNCHANGED <<rule, active, accounts, grants, req, pc, more, serviceBy, ruleBy, now>>
      /\ day < MaxDay /\ day' = day + 1
  BY DEF Midnight
<1>3. day \in Nat /\ day' \in 0..MaxDay /\ \A k \in DOMAIN grants : grants[k].day \in Nat
  BY <1>1, <1>2, GrantTypes, LimitsAssumption DEF TypeOK, GrantRow
<1>4. TypeOK'
  BY <1>1, <1>2, <1>3 DEF TypeOK
<1>5. NoneAhead' /\ \A k \in DOMAIN grants : grants[k].day # day'
  BY <1>1, <1>2, <1>3 DEF NoneAhead
<1>6. DailyLimitKept'
  BY <1>1, <1>2 DEF DailyLimitKept, Sum, Counts
<1>7. RowsOf(ServiceRows(day)', ServiceRows(day))
  BY <1>2, <1>5 DEF RowsOf, ServiceRows, Counts
<1>8. \A r \in Routes : RowsOf(OwnRows(r)', OwnRows(r))
                        /\ \A k \in OwnRows(r)' : grants'[k].day = day' => grants[k].day = day
  BY <1>2, <1>5 DEF RowsOf, OwnRows
<1> QED BY <1>1, <1>2, <1>4, <1>5, <1>6, <1>7, <1>8, OutsideKeeps DEF Ruled

-----------------------------------------------------------------------------
LEMMA GrantsStep == GrantsInv /\ [Next]_vars => GrantsInv'
<1> SUFFICES ASSUME GrantsInv, [Next]_vars PROVE GrantsInv'
  OBVIOUS
<1>1. ASSUME NEW c \in Calls, Step(c) \/ Abort(c) \/ Arrive(c) PROVE GrantsInv'
  BY <1>1, BeginKeeps, LockServiceKeeps, CheckServiceLimitsKeeps, LookAgainKeeps, LockRuleKeeps,
     CheckRuleLimitsKeeps, CreditKeeps, EndingKeeps, ArriveKeeps DEF Step
<1>2. ASSUME NEW k \in DOMAIN grants, Reverse(k) PROVE GrantsInv'
  BY <1>2, ReverseKeeps
<1>3. ASSUME NEW route \in Ruled, NEW setting \in Settings[route], SetRule(route, setting)
      PROVE  GrantsInv'
  BY <1>3, SetRuleKeeps
<1>4. ASSUME NEW status \in BOOLEAN, SetIntegration(status) PROVE GrantsInv'
  BY <1>4, SetIntegrationKeeps
<1>5. CASE Midnight
  BY <1>5, MidnightKeeps
<1>6. CASE UNCHANGED vars
  <2>1. UNCHANGED <<rule, active, accounts, grants, day, req, pc, more, serviceBy, ruleBy, now>>
    BY <1>6 DEF vars
  <2>2. TypeOK' /\ NoneAhead' /\ IsFiniteSet(DOMAIN grants')
    BY <2>1 DEF GrantsInv, TypeOK, NoneAhead
  <2>3. DailyLimitKept' /\ RowsOf(ServiceRows(day)', ServiceRows(day))
        /\ \A r \in Routes : RowsOf(OwnRows(r)', OwnRows(r))
    BY <2>1, SameRows DEF GrantsInv
  <2> QED BY <2>1, <2>2, <2>3, OutsideKeeps DEF Ruled
<1> QED BY <1>1, <1>2, <1>3, <1>4, <1>5, <1>6 DEF Next

LEMMA GrantsInvariance == Spec => []GrantsInv
  BY GrantsInit, GrantsStep, PTL DEF Spec

\* Calls, locks, rules and posted grants are of their types.
THEOREM GrantTyping == Spec => []TypeOK
<1>1. GrantsInv => TypeOK
  BY DEF GrantsInv
<1> QED BY <1>1, GrantsInvariance, PTL

\* However many requests a service sends at once, and whatever an
\* administrator changes meanwhile, no day's grants exceed its daily limit
\* (assertWithinServiceAmountLimits under lockById).
THEOREM DailyLimit == Spec => []DailyLimitKept
<1>1. GrantsInv => DailyLimitKept
  BY DEF GrantsInv
<1> QED BY <1>1, GrantsInvariance, PTL

\* Only the commit of a call that has passed its checks posts its grant.
LEMMA PostsByCredit ==
  ASSUME GrantsInv, [Next]_vars, NEW c \in Calls, Posts(c)
  PROVE  Credit(c)
<1>1. req[c].key \in DOMAIN grants' /\ req[c].key \notin DOMAIN grants /\ pc'[c] # pc[c] /\ TypeOK
  BY DEF Posts, GrantsInv
<1>2. CASE UNCHANGED vars
  BY <1>1, <1>2 DEF vars
<1>3. CASE \E x \in DOMAIN grants : Reverse(x)
  BY <1>1, <1>3 DEF Reverse
<1>4. CASE Midnight \/ (\E status \in BOOLEAN : SetIntegration(status))
           \/ (\E route \in Ruled : \E setting \in Settings[route] : SetRule(route, setting))
  BY <1>1, <1>4 DEF Midnight, SetIntegration, SetRule
<1>5. ASSUME NEW b \in Calls, Step(b) \/ Abort(b) \/ Arrive(b), ~Credit(b) PROVE FALSE
  <2>1. UNCHANGED grants
    BY <1>5 DEF Step, Abort, Arrive, ExternalRequest, AwardDelivered, RewardGranted, Milestone,
         Begin, LockService, CheckServiceLimits, LookAgain, LockRule, CheckRuleLimits, Duplicate, UnchangedRows
  <2> QED BY <1>1, <2>1
<1>6. ASSUME NEW b \in Calls, Credit(b) PROVE b = c
  BY <1>1, <1>6 DEF Credit, Leave, Goto, TypeOK
<1> QED BY <1>2, <1>3, <1>4, <1>5, <1>6 DEF Next

\* A grant fits the rule in force when it is posted: counting and posting are
\* one step to whoever asks the same rule (enforceRewardRuleLimits under the
\* row lock), and suspending an integration or stopping a rule works at once.
THEOREM Caps == Spec => CapsRespected
<1>1. GrantsInv /\ [Next]_vars =>
        \A c \in Calls : Posts(c) =>
          /\ Route(c) \in ServiceRoutes => active
          /\ Route(c) \in Ruled =>
               LET r == rule[Route(c)]
                   amount == req[c].amount
                   mine == OfUser(Own(c), req[c].user)
               IN /\ RuleRequired(Route(c)) => r.active
                  /\ r.active =>
                       /\ r.starts <= now[c] /\ now[c] <= r.ends
                       /\ r.total # 0 => Sum(Own(c)) + amount <= r.total
                       /\ r.monthly # 0 => Sum(OfMonth(Own(c))) + amount <= r.monthly
                       /\ r.monthlyCount # 0 => Cardinality(OfMonth(Own(c))) < r.monthlyCount
                       /\ r.perUser # 0 => Cardinality(mine) < r.perUser
                       /\ r.perEvent # 0 => Cardinality(OfEvent(mine, req[c].event)) < r.perEvent
  <2> SUFFICES ASSUME GrantsInv, [Next]_vars, NEW c \in Calls, Posts(c)
               PROVE  /\ Route(c) \in ServiceRoutes => active
                      /\ Route(c) \in Ruled =>
                           LET r == rule[Route(c)]
                               amount == req[c].amount
                               mine == OfUser(Own(c), req[c].user)
                           IN /\ RuleRequired(Route(c)) => r.active
                              /\ r.active =>
                                   /\ r.starts <= now[c] /\ now[c] <= r.ends
                                   /\ r.total # 0 => Sum(Own(c)) + amount <= r.total
                                   /\ r.monthly # 0 => Sum(OfMonth(Own(c))) + amount <= r.monthly
                                   /\ r.monthlyCount # 0 => Cardinality(OfMonth(Own(c))) < r.monthlyCount
                                   /\ r.perUser # 0 => Cardinality(mine) < r.perUser
                                   /\ r.perEvent # 0 => Cardinality(OfEvent(mine, req[c].event)) < r.perEvent
    OBVIOUS
  <2>1. Credit(c)
    BY PostsByCredit
  <2>2. Own(c) = OwnRows(Route(c))
    BY DEF Own, OwnRows
  <2>3. Fits(c) /\ Secure(c) /\ pc[c] = "credit"
    BY <2>1 DEF GrantsInv, Sound, Credit
  <2>4. Route(c) \in ServiceRoutes => active
    BY <2>3 DEF Secure, Inside, Checked
  <2>5. Route(c) \in Ruled => Within(c, rule[Route(c)], Own(c))
    BY <2>2, <2>3 DEF Fits
  <2> QED BY <2>4, <2>5 DEF Within, Capped, UpTo, Below
<1> QED BY <1>1, GrantsInvariance, PTL DEF Spec, CapsRespected

\* A request whose grant is posted is not refused for its limits: the look-up
\* under the integration's lock has answered it before they are asked.
THEOREM RetryAnswered == Spec => RetryIsNotLimited
<1>1. GrantsInv /\ [Next]_vars =>
        \A c \in Calls :
          (Route(c) \in ServiceRoutes /\ pc[c] \in {"limits", "caps", "credit"} /\ pc'[c] = "refused")
            => ~Posted(c)
  BY DEF GrantsInv, Sound, Secure, Inside, Checked
<1> QED BY <1>1, GrantsInvariance, PTL DEF Spec, RetryIsNotLimited

=============================================================================
