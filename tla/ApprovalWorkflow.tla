-------------------------- MODULE ApprovalWorkflow --------------------------
(***************************************************************************)
(* Two-step approval, apps/api/src/admin/admin-approval.service.ts: an admin *)
(* requests a high-value grant or deduction, an account merge or a           *)
(* migration, another approves it, which executes it on the ledger, or       *)
(* rejects it.  Admins work at the same time, and a call has several         *)
(* database steps: it reads the request, decides it, executes it, and takes  *)
(* the decision back if the execution failed.  A migration is executed line  *)
(* by line, and a line that fails is noted down and passed over.  The ledger *)
(* does what is asked under an idempotency key once (LedgerRequests), and    *)
(* can have done it although the caller is told that it failed.              *)
(***************************************************************************)
EXTENDS Naturals, FiniteSets, Sequences

CONSTANTS
  Admins,
  ApprovalRequests, \* approval requests
  PayloadKeys,      \* idempotency keys of the requests for one operation
  Files,            \* CSV contents, as good as their hashes
  OldUsers,         \* users of the old system
  Csv,              \* the users a file has lines with a balance of
  NoAdmin,
  MaxBatches,   \* bound on the migrations begun
  MaxCrashes    \* bound on calls cut off by the process dying

ASSUME NoAdminAssumption == NoAdmin \notin Admins
(* No caller chooses the key of a migration's line for an operation. *)
ASSUME FilesAssumption ==
  /\ PayloadKeys \cap (Files \cup (Files \X OldUsers)) = {}
  /\ Csv \in [Files -> Seq(OldUsers)]
ASSUME BoundsAssumption == MaxBatches \in Nat /\ MaxCrashes \in Nat

(* OPENING_BALANCE:${sourceDataHash}:${oldUserId}, and the other requests' keys *)
LedgerKeys == PayloadKeys \cup (Files \X OldUsers)

VARIABLES
  request,      \* approval_requests
  call,         \* what each admin's call is about to do, and with which request
  batches,      \* migration_batches
  executed,     \* what requests had the ledger do, by idempotency key
  direct,       \* keys of the grants and deductions made without a request
  crashes

approvalVars == <<request, call, batches, executed, direct, crashes>>

Steps == {"idle", "approve", "execute", "lines", "takeBack", "reject"}
Idle == [step |-> "idle", request |-> NoAdmin, batch |-> 0, line |-> 0, errors |-> {}]

ApprovalInit ==
  /\ request = [r \in {} |-> {}]
  /\ call = [a \in Admins |-> Idle]
  /\ batches = <<>>
  /\ executed = [k \in {} |-> {}]
  /\ direct = {}
  /\ crashes = 0

Of(a) == call[a].request
Payload(r) == request[r].payload
Migrates(r) == Payload(r) \in Files
Proceed(a, step, r) == call' = [call EXCEPT ![a] = [Idle EXCEPT !.step = step, !.request = r]]
Return(a) == call' = [call EXCEPT ![a] = Idle]

Decide(r, status, a) ==
  request' = [request EXCEPT ![r].status = status, ![r].approvedBy = a]

(* requestHighValueOperation, requestAccountMerge, requestMigrationExecution: *)
(* the key of an operation is chosen by its caller or derived from the        *)
(* accounts to merge, so two requests may have the same, as they may have the *)
(* same file                                                                  *)
Request(a, r, p) ==
  /\ call[a].step = "idle"
  /\ r \notin DOMAIN request
  /\ request' = [q \in DOMAIN request \cup {r} |->
                   IF q \in DOMAIN request THEN request[q]
                   ELSE [status |-> "PENDING", requestedBy |-> a, approvedBy |-> NoAdmin, payload |-> p]]
  /\ UNCHANGED <<call, batches, executed, direct, crashes>>

MayDecide(a, r) == request[r].status = "PENDING" /\ request[r].requestedBy # a

(* approve and reject begin with a read. *)
Read(a, r, step) ==
  /\ call[a].step = "idle"
  /\ r \in DOMAIN request
  /\ MayDecide(a, r)
  /\ Proceed(a, step, r)
  /\ UNCHANGED <<request, batches, executed, direct, crashes>>

\* Mutant: the status read before is trusted.
ClaimableStale(r) == TRUE

Claimable(r) == request[r].status = "PENDING"

(* The conditional update to APPROVED, that one of two approvers wins *)
Claim(a) ==
  /\ call[a].step = "approve"
  /\ IF Claimable(Of(a))
     THEN Decide(Of(a), "APPROVED", a) /\ Proceed(a, "execute", Of(a))
     ELSE Return(a) /\ UNCHANGED request
  /\ UNCHANGED <<batches, executed, direct, crashes>>

Used(k) == k \in DOMAIN executed \/ k \in direct

(* The ledger finds the key and answers with the transaction it has, whoever's *)
(* it is, or does what line i of r asks for.                                   *)
Apply(a, r, i, k) ==
  executed' = IF Used(k) THEN executed
              ELSE [j \in DOMAIN executed \cup {k} |->
                      IF j = k THEN [request |-> r, line |-> i, by |-> a] ELSE executed[j]]

(* A grant or deduction below the threshold needs no request, and may name any *)
(* key.                                                                        *)
GrantDirectly(k) ==
  /\ ~Used(k)
  /\ direct' = direct \cup {k}
  /\ UNCHANGED <<request, call, batches, executed, crashes>>

(* A grant, a deduction or a merge: one operation *)
Operate(a) == Apply(a, Of(a), 1, Payload(Of(a)))

Execute(a) ==
  /\ call[a].step = "execute" /\ ~Migrates(Of(a))
  /\ Operate(a)
  /\ Return(a)
  /\ UNCHANGED <<request, batches, direct, crashes>>

(* The execution throws: before the ledger's commit (the balance is too       *)
(* small, a wallet is closed, ...), or after it, when only the answer is lost. *)
ExecuteFails(a) ==
  /\ call[a].step = "execute" /\ ~Migrates(Of(a))
  /\ UNCHANGED executed \/ Operate(a)
  /\ Proceed(a, "takeBack", Of(a))
  /\ UNCHANGED <<request, batches, direct, crashes>>

(* A migration: each run of it has a batch of its own. *)
Lines(b) == Csv[batches[b].sourceDataHash]

OpenBatch(r) ==
  batches' = Append(batches, [request |-> r, sourceDataHash |-> Payload(r),
                              status |-> "RUNNING", errors |-> {}])

BeginMigration(a) ==
  /\ call[a].step = "execute" /\ Migrates(Of(a))
  /\ Len(batches) < MaxBatches
  /\ OpenBatch(Of(a))
  /\ call' = [call EXCEPT ![a].step = "lines", ![a].batch = Len(batches) + 1, ![a].line = 1]
  /\ UNCHANGED <<request, executed, direct, crashes>>

BeginMigrationFails(a) ==
  /\ call[a].step = "execute" /\ Migrates(Of(a))
  /\ UNCHANGED batches \/ (Len(batches) < MaxBatches /\ OpenBatch(Of(a)))
  /\ Proceed(a, "takeBack", Of(a))
  /\ UNCHANGED <<request, executed, direct, crashes>>

\* Mutant: the key is the batch's, as it once was.
LineKeyOfBatch(b, i) == <<b, Lines(b)[i]>>

LineKey(b, i) == <<batches[b].sourceDataHash, Lines(b)[i]>>

(* One line: the user's opening balance is credited; what is thrown, before   *)
(* the ledger's commit or after it, is noted and goes no further.             *)
MigrateLine(a) ==
  LET b == call[a].batch
      i == call[a].line
      Post == Apply(a, Of(a), i, LineKey(b, i))
  IN  /\ call[a].step = "lines"
      /\ i \in DOMAIN Lines(b)
      /\ \/ Post /\ call' = [call EXCEPT ![a].line = i + 1]
         \/ /\ UNCHANGED executed \/ Post
            /\ call' = [call EXCEPT ![a].line = i + 1, ![a].errors = @ \cup {i}]
      /\ UNCHANGED <<request, batches, direct, crashes>>

(* COMPLETED, whatever the number of errors *)
CloseBatch(a) ==
  batches' = [batches EXCEPT ![call[a].batch].status = "COMPLETED",
                             ![call[a].batch].errors = call[a].errors]

Migrated(a) == call[a].step = "lines" /\ call[a].line \notin DOMAIN Lines(call[a].batch)

EndMigration(a) ==
  /\ Migrated(a)
  /\ CloseBatch(a)
  /\ Return(a)
  /\ UNCHANGED <<request, executed, direct, crashes>>

EndMigrationFails(a) ==
  /\ Migrated(a)
  /\ UNCHANGED batches \/ CloseBatch(a)
  /\ Proceed(a, "takeBack", Of(a))
  /\ UNCHANGED <<request, executed, direct, crashes>>

\* Mutant: a failed request stays approved.
TakenBackStatusKept(r) == request[r].status

TakenBackStatus(r) == "PENDING"

(* The request is open again, whatever became of it since. *)
TakeBack(a) ==
  /\ call[a].step = "takeBack"
  /\ Decide(Of(a), TakenBackStatus(Of(a)), NoAdmin)
  /\ Return(a)
  /\ UNCHANGED <<batches, executed, direct, crashes>>

(* reject: the status was read before, the update asks for nothing. *)
Reject(a) ==
  /\ call[a].step = "reject"
  /\ Decide(Of(a), "REJECTED", a)
  /\ Return(a)
  /\ UNCHANGED <<batches, executed, direct, crashes>>

Crash(a) ==
  /\ crashes < MaxCrashes
  /\ crashes' = crashes + 1
  /\ call[a].step # "idle"
  /\ Return(a)
  /\ UNCHANGED <<request, batches, executed, direct>>

Proceeds(a) == \/ Claim(a) \/ Execute(a) \/ ExecuteFails(a)
               \/ BeginMigration(a) \/ BeginMigrationFails(a) \/ MigrateLine(a)
               \/ EndMigration(a) \/ EndMigrationFails(a)
               \/ TakeBack(a) \/ Reject(a)

ApprovalNext ==
  \/ \E k \in PayloadKeys : GrantDirectly(k)
  \/ \E a \in Admins :
       \/ \E r \in ApprovalRequests, p \in PayloadKeys \cup Files : Request(a, r, p)
       \/ \E r \in ApprovalRequests : Read(a, r, "approve") \/ Read(a, r, "reject")
       \/ Proceeds(a) \/ Crash(a)

ApprovalSpec == ApprovalInit /\ [][ApprovalNext]_approvalVars

-----------------------------------------------------------------------------
(* Properties                                                               *)

\* Type invariant.
ApprovalTypeOK ==
  /\ DOMAIN request \subseteq ApprovalRequests
  /\ request \in [DOMAIN request ->
                  [status : {"PENDING", "APPROVED", "REJECTED"}, requestedBy : Admins,
                   approvedBy : Admins \cup {NoAdmin}, payload : PayloadKeys \cup Files]]
  /\ call \in [Admins -> [step : Steps, request : ApprovalRequests \cup {NoAdmin},
                          batch : Nat, line : Nat, errors : SUBSET Nat]]
  /\ \A a \in Admins :
       /\ IF call[a].step = "idle" THEN Of(a) = NoAdmin ELSE Of(a) \in DOMAIN request
       /\ call[a].step = "lines" => call[a].batch \in DOMAIN batches
  /\ batches \in Seq([request : ApprovalRequests, sourceDataHash : Files,
                      status : {"RUNNING", "COMPLETED"}, errors : SUBSET Nat])
  /\ DOMAIN executed \subseteq LedgerKeys
  /\ executed \in [DOMAIN executed -> [request : ApprovalRequests, line : Nat, by : Admins]]
  /\ direct \subseteq PayloadKeys
  /\ crashes \in 0..MaxCrashes

Executing(a, r) == Of(a) = r /\ call[a].step \in {"execute", "lines", "takeBack"}

\* Of several approvers of a request one executes it at a time.
OneExecutor ==
  \A a, b \in Admins : \A r \in DOMAIN request :
    Executing(a, r) /\ Executing(b, r) => a = b

\* What a line of a request is to bring about: a user's opening balance from a
\* file, or the operation a key was chosen for.
Purpose(r, i) == IF Migrates(r) THEN <<Payload(r), Csv[Payload(r)][i]>> ELSE Payload(r)

\* The opening balance of a user in a file is credited once, and an operation
\* done once, however often its request is approved again after executions that
\* failed on the way, and however many requests bring the same file.
CreditedOnce ==
  \A j, k \in DOMAIN executed :
    LET x == executed[j]
        y == executed[k]
    IN  Purpose(x.request, x.line) = Purpose(y.request, y.line) => j = k

\* Nothing is carried out that an admin other than the requester did not
\* approve; and the decision recorded on a request is never the requester's.
TwoAdmins ==
  /\ \A k \in DOMAIN executed : executed[k].by # request[executed[k].request].requestedBy
  /\ \A r \in DOMAIN request : request[r].approvedBy # request[r].requestedBy

\* The ledger has line i of r, by whatever key.
Effect(r, i) == \E k \in DOMAIN executed : executed[k].request = r /\ executed[k].line = i

\* Its key had been used, in a grant without a request, by another request or by
\* an earlier line for the same user: the answer was that one's transaction.
AnsweredForAnother(r, i) ==
  \/ ~Migrates(r) /\ Payload(r) \in direct
  \/ \E k \in DOMAIN executed :
       LET x == executed[k]
       IN  <<x.request, x.line>> # <<r, i>> /\ Purpose(x.request, x.line) = Purpose(r, i)

LatestBatch(b, r) ==
  batches[b].request = r /\ \A c \in DOMAIN batches : batches[c].request = r => c <= b

\* What a request that stays APPROVED means.  An operation was done, or the key
\* answered for another; of a migration the latest batch is COMPLETED, and each
\* line was credited, or answered for another, or is among the batch's errors.
\* While the execution is under way, or once an approver died, it may not be so.
ApprovedIsCarriedOut ==
  \A r \in DOMAIN request :
    request[r].status = "APPROVED" =>
      \/ \E a \in Admins : Executing(a, r)
      \/ crashes > 0
      \/ ~Migrates(r) /\ (Effect(r, 1) \/ AnsweredForAnother(r, 1))
      \/ /\ Migrates(r)
         /\ \E b \in DOMAIN batches :
              /\ LatestBatch(b, r) /\ batches[b].status = "COMPLETED"
              /\ \A i \in DOMAIN Csv[Payload(r)] :
                   Effect(r, i) \/ AnsweredForAnother(r, i) \/ i \in batches[b].errors

\* admin-approval.service.ts:231-233: a request must not be treated as approved
\* although nothing was executed.  Its key may have answered for another, and all
\* lines of a migration may have failed.
ApprovedHasEffect ==
  \A r \in DOMAIN request :
    request[r].status = "APPROVED" =>
      \/ (\E a \in Admins : Executing(a, r)) \/ crashes > 0
      \/ \E k \in DOMAIN executed : executed[k].request = r

\* admin-operations.md: when a request is rejected "the state of its subject
\* does not change at all".
RejectedIsNotCarriedOut ==
  \A r \in DOMAIN request :
    request[r].status = "REJECTED" => \A k \in DOMAIN executed : executed[k].request # r

=============================================================================
