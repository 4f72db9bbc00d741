------------------------- MODULE EntitlementEvents -------------------------
(***************************************************************************)
(* The inbox and the handlers of entitlement.granted and entitlement.revoked *)
(* together: a request that has claimed an event runs the use case its body  *)
(* asks for, and what that did is committed before, and apart from, the mark *)
(* on the event.  Admins revoke and make cards beside them.                  *)
(***************************************************************************)
EXTENDS InboundEvents, Entitlements

ASSUME BodiesAssumption == Bodies \subseteq Jobs
ASSUME CallersAssumption == Callers = Workers \cup Admins /\ Workers \cap Admins = {}

Thrown == {"conflict", "thrown"}

vars == <<inbound, work, abandoned,
          holding, tombstones, assets, byHand, revocations, call>>

Init == InitInbox /\ InitEntitlements

Receive(w) == (\E d \in Deliveries : Deliver(w, d)) /\ UNCHANGED entitlementVars

Inbox(w) == Request(w) /\ UNCHANGED entitlementVars

(* The claim succeeds and the handler is called. *)
Dispatch(w) == Claim(w) /\ Begin(w, work[w].body)

Handler(w) == UseCase(w) /\ UNCHANGED inboxVars

HandlerFails(w) == Throw(w) /\ UNCHANGED inboxVars

\* Mutant: a refused grant is not turned into an exception.
ReportedConflict(outcome) == outcome # "thrown"

Reported(outcome) == outcome \notin Thrown

(* The use case ended.  Also one that succeeded may throw: its commit went   *)
(* through, but the answer to it was lost.                                   *)
HandlerEnds(w) ==
  /\ Return(w)
  /\ \/ Reported(call[w].outcome) /\ (MarkSucceeded(w) \/ MarkFails(w))
     \/ HandlerThrows(w)

Dies(w) ==
  /\ Crash(w)
  /\ call' = [call EXCEPT ![w] = Idle]
  /\ UNCHANGED <<holding, tombstones, assets, byHand, revocations>>

Work(w) == Inbox(w) \/ Dispatch(w) \/ Handler(w) \/ HandlerEnds(w)

Next ==
  \/ \E w \in Workers : Receive(w) \/ Work(w) \/ HandlerFails(w) \/ Dies(w)
  \/ AdminStep /\ UNCHANGED inboxVars

Spec == Init /\ [][Next]_vars

-----------------------------------------------------------------------------
(* Properties                                                               *)

Outcomes ==
  Thrown \cup {"granted", "skipped", "tombstoned", "already_revoked", "revoked", "not_found"}
         \cup {"none", "known", "new", "tombstone", "revoke"}

\* Type invariant.
TypeOK ==
  /\ inbound \in [Events -> [status : {"NONE", "PENDING", "PROCESSING", "FAILED", "SUCCEEDED", "DEAD"},
                             attempts : 0..MaxAttempts,
                             body : Bodies \cup {NoBody}]]
  /\ work \in [Workers -> [pc : {"idle", "find", "create", "findAgain", "claim"} \cup Processing,
                           event : Events \cup {NoEvent},
                           body : Bodies \cup {NoBody}]]
  /\ \A w \in Workers : work[w].pc # "idle" => work[w].event \in Events /\ work[w].body \in Bodies
  /\ abandoned \subseteq Events
  /\ holding \in [Entitled -> [status : {"NONE", "ACTIVE", "REVOKED"}, terms : SUBSET Terms]]
  /\ tombstones \subseteq Entitled
  /\ assets \subseteq {AssetOf[t] : t \in Terms}
  /\ byHand \subseteq assets
  /\ revocations \in [Entitled -> Nat]
  /\ call \in [Callers -> [pc : {"idle", "look", "lock", "reread", "done", "ended"} \cup InTransaction,
                           job : Jobs \cup {NoJob},
                           outcome : Outcomes]]
  /\ \A c \in Callers : call[c].pc \notin {"idle", "ended"} => call[c].job \in Jobs

\* What an event that shows SUCCEEDED asked for is so, and stays so: a grant
\* has its holding, on the terms of that event, or was revoked before; a
\* revocation holds, whatever the attempts before the last one left behind.
Accomplished(job) ==
  IF job.kind = "revoke" THEN Revoked(job.entitlement)
  ELSE \/ holding[job.entitlement].terms = {job.terms}
       \/ job.entitlement \in tombstones

SucceededIsAccomplished ==
  \A e \in Events : inbound[e].status = "SUCCEEDED" => Accomplished(inbound[e].body)

=============================================================================
