--------------------------- MODULE InboundEvents ---------------------------
(***************************************************************************)
(* The inbox for events of other systems, apps/api/src/common-events: a      *)
(* message is recorded under its sender and event id, one request at a time  *)
(* runs its handler, and every later delivery gets the recorded result.      *)
(* Deliveries of one event may come any number of times, at once, and with   *)
(* another body.  An event here is a sender together with its event id.      *)
(***************************************************************************)
EXTENDS FiniteSets, Naturals

CONSTANTS
  Workers,      \* requests the API works on at once
  Events,
  Bodies,       \* bodies with different hashes
  Deliveries,   \* <<event, body>>: what senders send
  MaxAttempts,  \* MAX_ATTEMPTS
  MaxCrashes,   \* bound on events whose worker dies
  NoBody, NoEvent

ASSUME DeliveriesAssumption == Deliveries \subseteq Events \X Bodies
ASSUME MaxAttemptsAssumption == MaxAttempts \in Nat \ {0}
ASSUME NamesAssumption == NoBody \notin Bodies /\ NoEvent \notin Events

VARIABLES
  inbound,    \* inbound_events; status NONE: there is no row
  work,       \* what each worker is at
  abandoned   \* events whose worker died

inboxVars == <<inbound, work, abandoned>>

NoWork == [pc |-> "idle", event |-> NoEvent, body |-> NoBody]

InitInbox ==
  /\ inbound = [e \in Events |-> [status |-> "NONE", attempts |-> 0, body |-> NoBody]]
  /\ work = [w \in Workers |-> NoWork]
  /\ abandoned = {}

RowOf(w) == inbound[work[w].event]
Continue(w, pc) ==
  work' = [work EXCEPT ![w] = [pc |-> pc, event |-> @.event, body |-> @.body]]
EndRequest(w) == work' = [work EXCEPT ![w] = NoWork]
UnchangedRows == UNCHANGED <<inbound, abandoned>>

Deliver(w, d) ==
  /\ work[w].pc = "idle"
  /\ work' = [work EXCEPT ![w] = [pc |-> "find", event |-> d[1], body |-> d[2]]]
  /\ UnchangedRows

(* receive: another body is refused, a result there is returned. *)
Find(w) ==
  /\ work[w].pc = "find"
  /\ CASE RowOf(w).status = "NONE" -> Continue(w, "create")
       [] RowOf(w).status = "SUCCEEDED" \/ RowOf(w).body # work[w].body -> EndRequest(w)
       [] OTHER -> Continue(w, "claim")
  /\ UnchangedRows

(* createPendingRow: the unique index tells of a row made meanwhile. *)
Create(w) ==
  /\ work[w].pc = "create"
  /\ IF RowOf(w).status = "NONE"
     THEN /\ inbound' = [inbound EXCEPT ![work[w].event] =
               [status |-> "PENDING", attempts |-> 0, body |-> work[w].body]]
          /\ Continue(w, "claim")
     ELSE Continue(w, "findAgain") /\ UNCHANGED inbound
  /\ UNCHANGED abandoned

SameBody(w) == RowOf(w).body = work[w].body

(* The row is read again.  A result it has by now is found by the claim. *)
FindAgain(w) ==
  /\ work[w].pc = "findAgain"
  /\ IF SameBody(w) THEN Continue(w, "claim") ELSE EndRequest(w)
  /\ UnchangedRows

\* Mutant: an event being processed can be claimed.
ClaimableUnsettled(row) == row.status \in {"PENDING", "FAILED", "PROCESSING"}

Claimable(row) == row.status \in {"PENDING", "FAILED"}

(* claimForProcessing; a request that cannot claim the row reads it once     *)
(* more, for what to answer, and ends.                                       *)
Claim(w) ==
  /\ work[w].pc = "claim"
  /\ Claimable(RowOf(w))
  /\ inbound' = [inbound EXCEPT ![work[w].event] =
       [status |-> "PROCESSING", attempts |-> @.attempts + 1, body |-> @.body]]
  /\ Continue(w, "handle")
  /\ UNCHANGED abandoned

ClaimFails(w) ==
  /\ work[w].pc = "claim"
  /\ ~Claimable(RowOf(w))
  /\ EndRequest(w)
  /\ UnchangedRows

HandlerThrows(w) ==
  /\ work[w].pc = "handle"
  /\ Continue(w, "fail")
  /\ UnchangedRows

Marked(w) == inbound' = [inbound EXCEPT ![work[w].event].status = "SUCCEEDED"]

(* The handler returned.  Its result is recorded with the mark, for later    *)
(* deliveries.                                                               *)
MarkSucceeded(w) ==
  /\ work[w].pc = "handle"
  /\ Marked(w)
  /\ EndRequest(w)
  /\ UNCHANGED abandoned

(* markSucceeded throws, inside the same try as the handler: the update was  *)
(* not made, or it was and the answer to it was lost.                        *)
MarkFails(w) ==
  /\ work[w].pc = "handle"
  /\ Marked(w) \/ UNCHANGED inbound
  /\ Continue(w, "fail")
  /\ UNCHANGED abandoned

\* Mutants: one attempt too few, one too many.
ExhaustedEarly(row) == row.attempts + 1 >= MaxAttempts
ExhaustedLate(row) == row.attempts > MaxAttempts

Exhausted(row) == row.attempts >= MaxAttempts

FailureStatus(row) == IF Exhausted(row) THEN "DEAD" ELSE "FAILED"

(* recordFailure: read the row, write its status.  Nobody else can claim it  *)
(* between the two.                                                          *)
RecordFailure(w) ==
  /\ work[w].pc = "fail"
  /\ inbound' = [inbound EXCEPT ![work[w].event].status = FailureStatus(RowOf(w))]
  /\ EndRequest(w)
  /\ UNCHANGED abandoned

Processing == {"handle", "fail"}

(* The process dies, or a statement outside the try, or in recordFailure,    *)
(* throws.  Nothing takes a PROCESSING row back.                             *)
Crash(w) ==
  /\ work[w].pc # "idle"
  /\ IF work[w].pc \in Processing
     THEN /\ Cardinality(abandoned) < MaxCrashes
          /\ abandoned' = abandoned \cup {work[w].event}
     ELSE UNCHANGED abandoned
  /\ EndRequest(w)
  /\ UNCHANGED inbound

(* All that a request does but claim the event and handle it *)
Request(w) ==
  \/ Find(w) \/ Create(w) \/ FindAgain(w) \/ ClaimFails(w) \/ RecordFailure(w)

-----------------------------------------------------------------------------
(* Properties                                                               *)

WorkersOn(e) == {w \in Workers : work[w].pc \in Processing /\ work[w].event = e}

\* However many deliveries of an event come at once, one request works on it at
\* a time, and an event that is PROCESSING has one, unless it died.
OneWorkerPerEvent ==
  \A e \in Events :
    /\ Cardinality(WorkersOn(e)) <= 1
    /\ inbound[e].status = "PROCESSING" => WorkersOn(e) # {} \/ e \in abandoned

\* Only the body that was recorded first is ever handled, also when another one
\* comes under the same id at the same moment.
FirstBodyOnly ==
  \A w \in Workers : work[w].pc \in Processing => work[w].body = RowOf(w).body

\* An event is given up after MAX_ATTEMPTS attempts, no sooner and no later.
GivenUpAfterMaxAttempts ==
  \A e \in Events :
    /\ inbound[e].attempts <= MaxAttempts
    /\ inbound[e].status = "DEAD" => inbound[e].attempts = MaxAttempts
    /\ inbound[e].status = "FAILED" => inbound[e].attempts < MaxAttempts

=============================================================================
