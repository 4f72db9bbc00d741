------------------------------- MODULE Outbox -------------------------------
(***************************************************************************)
(* The transactional outbox, apps/api/src/outbox.  Business transactions     *)
(* enqueue events; dispatchers (the scheduled job of each API instance and   *)
(* the admin's "dispatch" button, which takes no scheduler lock) list the    *)
(* events that are due, then claim, send and mark them one at a time.  Any   *)
(* number of dispatchers run at once, the list is not read again, a send can *)
(* reach the destination and still be reported as failed, a dispatcher can   *)
(* die anywhere, and an admin can ask for a retry at any moment.             *)
(***************************************************************************)
EXTENDS Naturals, FiniteSets

CONSTANTS
  Events,        \* idempotency keys of the events
  Dispatchers,   \* runs of processPendingEvents under way
  Nothing,       \* what a dispatcher between two events works on
  BatchLimit,    \* limit of findDuePending
  MaxAttempts,   \* MAX_ATTEMPTS
  MaxRetries,    \* bound on manual retries of an event
  MaxCrashes     \* bound on dispatchers dying

ASSUME NothingAssumption == Nothing \notin Events
ASSUME LimitsAssumption == BatchLimit \in Nat \ {0} /\ MaxAttempts \in Nat \ {0}
ASSUME BoundsAssumption == MaxRetries \in Nat /\ MaxCrashes \in Nat

VARIABLES
  row,         \* integration_outbox; due: available_at has come
  batch,       \* what a dispatcher listed and has yet to process: the
               \* attempt_count of each event when it was listed
  sending,     \* the event it has claimed
  step,        \* what it is about to do with that event
  delivered,   \* has the destination received the event?
  tries,       \* how often it was sent
  retried,     \* how often an admin retried it
  crashes

vars == <<row, batch, sending, step, delivered, tries, retried, crashes>>

Statuses == {"NONE", "PENDING", "PROCESSING", "SENT", "FAILED"}

Init ==
  /\ row = [e \in Events |-> [status |-> "NONE", attempts |-> 0, due |-> FALSE]]
  /\ batch = [d \in Dispatchers |-> [e \in {} |-> 0]]
  /\ sending = [d \in Dispatchers |-> Nothing]
  /\ step = [d \in Dispatchers |-> "claim"]
  /\ delivered = [e \in Events |-> FALSE]
  /\ tries = [e \in Events |-> 0]
  /\ retried = [e \in Events |-> 0]
  /\ crashes = 0

Without(f, e) == [x \in DOMAIN f \ {e} |-> f[x]]

(* enqueue, in the business transaction: an upsert that changes nothing when *)
(* the key is already there                                                  *)
Enqueue(e) ==
  /\ row[e].status = "NONE"
  /\ row' = [row EXCEPT ![e] = [status |-> "PENDING", attempts |-> 0, due |-> TRUE]]
  /\ UNCHANGED <<batch, sending, step, delivered, tries, retried, crashes>>

Due == {e \in Events : row[e].status = "PENDING" /\ row[e].due}

(* findDuePending.  The order of a batch matters to nothing here.            *)
List(d) ==
  /\ sending[d] = Nothing
  /\ DOMAIN batch[d] = {}
  /\ Due # {}
  /\ \E listed \in SUBSET Due :
       /\ Cardinality(listed) = IF Cardinality(Due) < BatchLimit
                                THEN Cardinality(Due) ELSE BatchLimit
       /\ batch' = [batch EXCEPT ![d] = [e \in listed |-> row[e].attempts]]
  /\ UNCHANGED <<row, sending, step, delivered, tries, retried, crashes>>

\* Mutant: the UPDATE that claims an event does not ask for PENDING.
ClaimableAlways(e) == TRUE

(* The claim asks for PENDING only: an event that failed since it was listed *)
(* and waits for its next attempt is claimed all the same.                   *)
Claimable(e) == row[e].status = "PENDING"

Claim(d, e) ==
  /\ sending[d] = Nothing
  /\ e \in DOMAIN batch[d]
  /\ IF Claimable(e)
     THEN /\ row' = [row EXCEPT ![e].status = "PROCESSING"]
          /\ sending' = [sending EXCEPT ![d] = e]
          /\ step' = [step EXCEPT ![d] = "send"]
          /\ UNCHANGED batch
     ELSE /\ batch' = [batch EXCEPT ![d] = Without(@, e)]
          /\ UNCHANGED <<row, sending, step>>
  /\ UNCHANGED <<delivered, tries, retried, crashes>>

\* Mutant: the promise of handler.send is not awaited.
AfterSendUnawaited(received) == {"mark"}

(* handler.send returns, or throws: before the destination has the event     *)
(* (also when no handler is registered) or after it.                         *)
AfterSend(received) == IF received THEN {"mark", "fail"} ELSE {"fail"}

Send(d) ==
  /\ step[d] = "send"
  /\ tries' = [tries EXCEPT ![sending[d]] = @ + 1]
  /\ \E received \in BOOLEAN :
       /\ delivered' = [delivered EXCEPT ![sending[d]] = @ \/ received]
       /\ \E next \in AfterSend(received) : step' = [step EXCEPT ![d] = next]
  /\ UNCHANGED <<row, batch, sending, retried, crashes>>

Processed(d) ==
  /\ batch' = [batch EXCEPT ![d] = Without(@, sending[d])]
  /\ sending' = [sending EXCEPT ![d] = Nothing]
  /\ step' = [step EXCEPT ![d] = "claim"]

MarkSent(d) ==
  /\ step[d] = "mark"
  /\ row' = [row EXCEPT ![sending[d]].status = "SENT"]
  /\ Processed(d)
  /\ UNCHANGED <<delivered, tries, retried, crashes>>

(* markSent throws inside the same try: the event counts as failed. *)
MarkFails(d) ==
  /\ step[d] = "mark"
  /\ step' = [step EXCEPT ![d] = "fail"]
  /\ UNCHANGED <<row, batch, sending, delivered, tries, retried, crashes>>

\* Mutants: one attempt too few, one too many.
ExhaustedEarly(attempts) == attempts + 1 >= MaxAttempts
ExhaustedLate(attempts) == attempts > MaxAttempts

Exhausted(attempts) == attempts >= MaxAttempts

\* Mutant: a failed event stays claimed.
FailureStatusKept(attempts) == IF Exhausted(attempts) THEN "FAILED" ELSE "PROCESSING"

FailureStatus(attempts) == IF Exhausted(attempts) THEN "FAILED" ELSE "PENDING"

(* recordFailure: it counts from the attempts it listed, and writes by id.   *)
RecordFailure(d) ==
  LET e == sending[d]
      attempts == batch[d][e] + 1
  IN /\ step[d] = "fail"
     /\ row' = [row EXCEPT ![e].status = FailureStatus(attempts),
                           ![e].attempts = attempts,
                           ![e].due = IF Exhausted(attempts) THEN @ ELSE FALSE]
     /\ Processed(d)
     /\ UNCHANGED <<delivered, tries, retried, crashes>>

(* The backoff of an event ends. *)
BackoffEnds(e) ==
  /\ row[e].status # "NONE"
  /\ ~row[e].due
  /\ row' = [row EXCEPT ![e].due = TRUE]
  /\ UNCHANGED <<batch, sending, step, delivered, tries, retried, crashes>>

(* manualRetry: whatever the status *)
ManualRetry(e) ==
  /\ row[e].status # "NONE"
  /\ retried[e] < MaxRetries
  /\ retried' = [retried EXCEPT ![e] = @ + 1]
  /\ row' = [row EXCEPT ![e] = [status |-> "PENDING", attempts |-> 0, due |-> TRUE]]
  /\ UNCHANGED <<batch, sending, step, delivered, tries, crashes>>

(* The process dies, or recordFailure throws and the run is given up. *)
Crash(d) ==
  /\ crashes < MaxCrashes
  /\ crashes' = crashes + 1
  /\ sending[d] # Nothing \/ DOMAIN batch[d] # {}
  /\ batch' = [batch EXCEPT ![d] = [e \in {} |-> 0]]
  /\ sending' = [sending EXCEPT ![d] = Nothing]
  /\ step' = [step EXCEPT ![d] = "claim"]
  /\ UNCHANGED <<row, delivered, tries, retried>>

Dispatch(d) ==
  \/ List(d) \/ \E e \in Events : Claim(d, e)
  \/ Send(d) \/ MarkSent(d) \/ MarkFails(d) \/ RecordFailure(d)

Next ==
  \/ \E e \in Events : Enqueue(e) \/ BackoffEnds(e) \/ ManualRetry(e)
  \/ \E d \in Dispatchers : Dispatch(d) \/ Crash(d)

Spec == Init /\ [][Next]_vars

(* The job runs every few minutes and a run that has begun goes on; a        *)
(* backoff ends.  Nothing makes a destination accept an event.               *)
FairSpec ==
  /\ Spec
  /\ \A d \in Dispatchers : WF_vars(Dispatch(d))
  /\ \A e \in Events : WF_vars(BackoffEnds(e))

-----------------------------------------------------------------------------
(* Properties                                                               *)

\* Type invariant.
TypeOK ==
  /\ row \in [Events -> [status : Statuses, attempts : 0..MaxAttempts, due : BOOLEAN]]
  /\ \A d \in Dispatchers :
       /\ DOMAIN batch[d] \subseteq Events
       /\ batch[d] \in [DOMAIN batch[d] -> 0..(MaxAttempts - 1)]
  /\ sending \in [Dispatchers -> Events \cup {Nothing}]
  /\ step \in [Dispatchers -> {"claim", "send", "mark", "fail"}]
  /\ \A d \in Dispatchers :
       IF sending[d] = Nothing THEN step[d] = "claim"
       ELSE step[d] # "claim" /\ sending[d] \in DOMAIN batch[d]
  /\ delivered \in [Events -> BOOLEAN]
  /\ tries \in [Events -> Nat]
  /\ retried \in [Events -> 0..MaxRetries]
  /\ crashes \in 0..MaxCrashes

Senders(e) == {d \in Dispatchers : sending[d] = e}

\* However many dispatchers listed an event, one of them sends it at a time;
\* only a manual retry, while it is being sent, lets one more in.
ExclusiveUnlessRetried == \A e \in Events : Cardinality(Senders(e)) <= 1 + retried[e]

\* An event is PROCESSING only while a dispatcher is at it, unless one died.
ProcessingIsOwned ==
  \A e \in Events :
    row[e].status = "PROCESSING" => Senders(e) # {} \/ crashes > 0 \/ retried[e] > 0

\* What the queue shows as SENT the destination has received.
SentWasDelivered == \A e \in Events : row[e].status = "SENT" => delivered[e]

\* No event is given up before it was tried as often as allowed, however many
\* dispatchers counted its failures.
NotGivenUpEarly == \A e \in Events : row[e].status = "FAILED" => tries[e] >= MaxAttempts

\* An event that was sent, or given up, stays so until an admin retries it: a
\* dispatcher that is late with an old list does not bring it back.
SettledStaysSettled ==
  [][\A e \in Events :
       row[e].status \in {"SENT", "FAILED"} /\ retried'[e] = 0
         => row'[e].status = row[e].status]_vars

\* Every event that was enqueued is sent or given up in the end, whatever an
\* admin retries meanwhile, unless a dispatcher died.
EveryEventSettles ==
  \A e \in Events :
    row[e].status # "NONE" ~> row[e].status \in {"SENT", "FAILED"} \/ crashes > 0

\* outbox.service.ts: "however many workers run at once, the same event is not
\* sent twice": two dispatchers never send one event at the same time.
NeverSentByTwo == \A e \in Events : Cardinality(Senders(e)) <= 1

\* integration-outbox.md: an event is tried at most MAX_ATTEMPTS times.
TriedAtMostMaxAttempts == \A e \in Events : tries[e] <= MaxAttempts

=============================================================================
