---------------------------- MODULE Entitlements ----------------------------
(***************************************************************************)
(* Collectible entitlements, apps/api/src/collectibles: what a market grants *)
(* and takes back, by messages that come more than once and in any order,    *)
(* and what an admin takes back by hand.  A grant makes a holding, and the   *)
(* card it is of if that is new; a revocation ends the holding, or, before   *)
(* there is one, leaves a tombstone that a later grant meets.  All of it is  *)
(* serialised per entitlement by an advisory lock of the transaction, and    *)
(* the making of a card by a second one.                                     *)
(*                                                                           *)
(* An entitlement is a market together with the market's id for it.          *)
(***************************************************************************)
EXTENDS FiniteSets, Naturals

CONSTANTS
  Entitled,   \* entitlements
  Terms,      \* owner, source, order, item and card: what matchesExisting compares
  AssetOf,    \* the card among them
  Callers,    \* those who run the use cases: event handlers ...
  Admins,     \* ... and admins, each with one revocation by hand
  NoJob

ASSUME AdminsAssumption == Admins \subseteq Callers

Jobs ==
  [kind : {"grant"}, entitlement : Entitled, terms : Terms]
    \cup [kind : {"revoke"}, entitlement : Entitled]

ASSUME NoJobAssumption == NoJob \notin Jobs

VARIABLES
  holding,      \* collectible_holdings, by entitlement; terms: a set of one,
                \* or empty when there is no holding
  tombstones,   \* collectible_entitlement_tombstones
  assets,       \* collectible_assets
  byHand,       \* the cards among them that an admin made
  revocations,  \* the COLLECTIBLE_REVOKED rows of the audit log
  call          \* where each caller is, and what it decided or found

entitlementVars == <<holding, tombstones, assets, byHand, revocations, call>>

Idle == [pc |-> "idle", job |-> NoJob, outcome |-> "none"]

InitEntitlements ==
  /\ holding = [e \in Entitled |-> [status |-> "NONE", terms |-> {}]]
  /\ tombstones = {}
  /\ assets = {}
  /\ byHand = {}
  /\ revocations = [e \in Entitled |-> 0]
  /\ call = [c \in Callers |-> Idle]

EntitlementOf(c) == call[c].job.entitlement
AssetFor(c) == AssetOf[call[c].job.terms]

Goto(c, pc, outcome) ==
  call' = [call EXCEPT ![c] = [pc |-> pc, job |-> @.job, outcome |-> outcome]]
Answer(c, outcome) == Goto(c, "done", outcome)

Begin(c, job) ==
  /\ call[c].pc = "idle"
  /\ call' = [call EXCEPT ![c] =
       [pc |-> IF job.kind = "grant" THEN "look" ELSE "lock", job |-> job, outcome |-> "none"]]
  /\ UNCHANGED <<holding, tombstones, assets, byHand, revocations>>

(* handleExisting: the same grant again succeeds, whatever became of the     *)
(* holding since, another one is refused.                                    *)
ExistingOutcome(h, job) == IF h.terms = {job.terms} THEN "granted" ELSE "conflict"

-----------------------------------------------------------------------------
(* Grants                                                                   *)

(* GrantCollectibleUseCase.execute looks once before the transaction. *)
Look(c) ==
  LET h == holding[EntitlementOf(c)]
  IN /\ call[c].pc = "look"
     /\ IF h.status # "NONE" THEN Answer(c, ExistingOutcome(h, call[c].job))
                             ELSE Goto(c, "lock", "none")
     /\ UNCHANGED <<holding, tombstones, assets, byHand, revocations>>

InTransaction == {"decide", "lockAsset", "findAsset", "write"}

\* Mutant: no lock.
LockedNever(c) == FALSE

(* pg_advisory_xact_lock on the entitlement is held until the transaction    *)
(* ends.                                                                     *)
HasEntitlementLock(c) == call[c].pc \in InTransaction

Lock(c) ==
  /\ call[c].pc = "lock"
  /\ \A d \in Callers \ {c} : HasEntitlementLock(d) => EntitlementOf(d) # EntitlementOf(c)
  /\ Goto(c, "decide", "none")
  /\ UNCHANGED <<holding, tombstones, assets, byHand, revocations>>

\* Mutant: the tombstone is not asked for.
GrantMayProceedPast(e) == TRUE

GrantMayProceed(e) == e \notin tombstones

DecideGrant(c) ==
  LET e == EntitlementOf(c)
  IN /\ call[c].pc = "decide"
     /\ call[c].job.kind = "grant"
     /\ IF holding[e].status # "NONE" THEN Answer(c, ExistingOutcome(holding[e], call[c].job))
        ELSE IF GrantMayProceed(e) THEN Goto(c, "lockAsset", "none")
        ELSE Answer(c, "skipped")
     /\ UNCHANGED <<holding, tombstones, assets, byHand, revocations>>

\* Mutant: the card is found or made without its lock.
HasAssetLockNever(c) == FALSE

HasAssetLock(c) ==
  call[c].pc \in {"findAsset", "write"} /\ call[c].job.kind = "grant"

LockAsset(c) ==
  /\ call[c].pc = "lockAsset"
  /\ \A d \in Callers \ {c} : HasAssetLock(d) => AssetFor(d) # AssetFor(c)
  /\ Goto(c, "findAsset", "none")
  /\ UNCHANGED <<holding, tombstones, assets, byHand, revocations>>

FindAsset(c) ==
  /\ call[c].pc = "findAsset"
  /\ Goto(c, "write", IF AssetFor(c) \in assets THEN "known" ELSE "new")
  /\ UNCHANGED <<holding, tombstones, assets, byHand, revocations>>

(* Insert the card if it is new, insert the holding, commit.  The unique     *)
(* indexes on the card's code and on the entitlement refuse a second one,    *)
(* and the transaction is rolled back.                                       *)
WriteGrant(c) ==
  LET e == EntitlementOf(c)
      refused == \/ call[c].outcome = "new" /\ AssetFor(c) \in assets
                 \/ holding[e].status # "NONE"
  IN /\ call[c].pc = "write"
     /\ call[c].job.kind = "grant"
     /\ IF refused
        THEN Goto(c, "reread", "none") /\ UNCHANGED <<holding, assets>>
        ELSE /\ assets' = assets \cup {AssetFor(c)}
             /\ holding' = [holding EXCEPT ![e] =
                  [status |-> "ACTIVE", terms |-> {call[c].job.terms}]]
             /\ Answer(c, "granted")
     /\ UNCHANGED <<tombstones, byHand, revocations>>

(* After a unique violation: is there a holding now?  If not, it is thrown. *)
Reread(c) ==
  LET h == holding[EntitlementOf(c)]
  IN /\ call[c].pc = "reread"
     /\ Answer(c, IF h.status # "NONE" THEN ExistingOutcome(h, call[c].job) ELSE "thrown")
     /\ UNCHANGED <<holding, tombstones, assets, byHand, revocations>>

-----------------------------------------------------------------------------
(* Revocations                                                              *)

(* The row lock of lockByEntitlementId; there may be no row to lock. *)
HasRowLock(c, e) == call[c].pc = "write" /\ call[c].outcome = "revoke" /\ EntitlementOf(c) = e

(* The states of the mint life cycle are declared, but nothing sets them. *)
Revocable(h) == h.status = "ACTIVE"

DecideRevoke(c) ==
  LET e == EntitlementOf(c)
  IN /\ call[c].pc = "decide"
     /\ call[c].job.kind = "revoke"
     /\ \A d \in Callers \ {c} : ~HasRowLock(d, e)
     /\ CASE holding[e].status = "NONE" /\ c \in Admins -> Answer(c, "not_found")
          [] holding[e].status = "NONE" /\ c \notin Admins ->
               IF e \in tombstones THEN Answer(c, "tombstoned") ELSE Goto(c, "write", "tombstone")
          [] OTHER ->
               IF Revocable(holding[e]) THEN Goto(c, "write", "revoke")
               ELSE Answer(c, "already_revoked")
     /\ UNCHANGED <<holding, tombstones, assets, byHand, revocations>>

WriteTombstone(c) ==
  /\ call[c].pc = "write"
  /\ call[c].outcome = "tombstone"
  /\ tombstones' = tombstones \cup {EntitlementOf(c)}
  /\ Answer(c, "tombstoned")
  /\ UNCHANGED <<holding, assets, byHand, revocations>>

WriteRevocation(c) ==
  /\ call[c].pc = "write"
  /\ call[c].outcome = "revoke"
  /\ holding' = [holding EXCEPT ![EntitlementOf(c)].status = "REVOKED"]
  /\ revocations' = [revocations EXCEPT ![EntitlementOf(c)] = @ + 1]
  /\ Answer(c, "revoked")
  /\ UNCHANGED <<tombstones, assets, byHand>>

-----------------------------------------------------------------------------

(* Whatever a caller is at may throw: an account that cannot be resolved, a  *)
(* lost connection.  A transaction is then rolled back.                      *)
Throw(c) ==
  /\ call[c].pc \notin {"idle", "done", "ended"}
  /\ Answer(c, "thrown")
  /\ UNCHANGED <<holding, tombstones, assets, byHand, revocations>>

Return(c) ==
  /\ call[c].pc = "done"
  /\ call' = [call EXCEPT ![c] = Idle]
  /\ UNCHANGED <<holding, tombstones, assets, byHand, revocations>>

UseCase(c) ==
  \/ Look(c) \/ Lock(c) \/ DecideGrant(c) \/ LockAsset(c) \/ FindAsset(c)
  \/ WriteGrant(c) \/ Reread(c)
  \/ DecideRevoke(c) \/ WriteTombstone(c) \/ WriteRevocation(c)

(* revokeHolding: the admin chose a holding that is there. *)
AdminRevokes(a, e) ==
  /\ holding[e].status # "NONE"
  /\ Begin(a, [kind |-> "revoke", entitlement |-> e])

(* createAsset, which takes no lock *)
AdminCreatesAsset(t) ==
  /\ AssetOf[t] \notin assets
  /\ assets' = assets \cup {AssetOf[t]}
  /\ byHand' = byHand \cup {AssetOf[t]}
  /\ UNCHANGED <<holding, tombstones, revocations, call>>

AdminEnds(a) ==
  /\ call[a].pc = "done"
  /\ call' = [call EXCEPT ![a] = [pc |-> "ended", job |-> NoJob, outcome |-> "none"]]
  /\ UNCHANGED <<holding, tombstones, assets, byHand, revocations>>

AdminStep ==
  \/ \E a \in Admins : \/ \E e \in Entitled : AdminRevokes(a, e)
                       \/ UseCase(a) \/ Throw(a) \/ AdminEnds(a)
  \/ \E t \in Terms : AdminCreatesAsset(t)

-----------------------------------------------------------------------------
(* Properties                                                               *)

Active(e) == holding[e].status = "ACTIVE"
Revoked(e) == holding[e].status = "REVOKED" \/ e \in tombstones

\* What was revoked, by event or by hand, before its grant or after it, is
\* never active again, whatever grants were under way.
RevokedStaysRevoked == [][\A e \in Entitled : Revoked(e) => Revoked(e)' /\ ~Active(e)']_entitlementVars

\* An entitlement has a holding or a tombstone, never both.
HoldingOrTombstone == \A e \in Entitled : holding[e].status # "NONE" => e \notin tombstones

\* Several revocations at once leave one COLLECTIBLE_REVOKED audit row, and
\* that for the holding that is revoked.
RevokedOnce ==
  \A e \in Entitled : revocations[e] = (IF holding[e].status = "REVOKED" THEN 1 ELSE 0)

\* Grants at the same time never run into a unique index, except that of a
\* card an admin made by hand meanwhile.
NoUniqueViolation == \A c \in Callers : call[c].pc = "reread" => AssetFor(c) \in byHand

=============================================================================
