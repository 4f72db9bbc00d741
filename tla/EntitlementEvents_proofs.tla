---------------------- MODULE EntitlementEvents_proofs ----------------------
(***************************************************************************)
(* Proofs about EntitlementEvents.                                           *)
(*                                                                           *)
(* The use cases (EInv): whoever is past the check of an entitlement holds   *)
(* its lock (Excluded), so what was checked is still so when it writes       *)
(* (CallOK).                                                                 *)
(* The inbox (InboxInv): whoever is past the claim of an event is alone with *)
(* it (Alone), so nobody else writes its row.                                *)
(* The two together (TruthInv): the answer of a use case is true when it is  *)
(* given and stays true until the event is marked, and after.                *)
(***************************************************************************)
EXTENDS EntitlementEvents, FiniteSetTheorems, TLAPS

(* What a caller that is at pc with a job has checked and still relies on. *)
Relies(job, pc, outcome) ==
  /\ pc \notin {"idle", "ended"} => job \in Jobs
  /\ pc \in {"look", "reread", "lockAsset", "findAsset"} => job.kind = "grant"
  /\ pc \in {"lockAsset", "findAsset", "write"} /\ job.kind = "grant"
       => holding[job.entitlement].status = "NONE" /\ job.entitlement \notin tombstones
  /\ pc = "write" /\ outcome \in {"revoke", "tombstone"} => job.kind = "revoke"
  /\ pc = "write" /\ outcome = "revoke" => holding[job.entitlement].status = "ACTIVE"
  /\ pc = "write" /\ outcome = "tombstone" => holding[job.entitlement].status = "NONE"
  /\ pc = "write" /\ job.kind = "grant" /\ outcome = "new"
       => AssetOf[job.terms] \notin assets \ byHand
  /\ pc = "reread" => AssetOf[job.terms] \in byHand

CallOK(c) == Relies(call[c].job, call[c].pc, call[c].outcome)

Excluded ==
  \A c, d \in Callers :
    c # d =>
      /\ HasEntitlementLock(c) /\ HasEntitlementLock(d) => EntitlementOf(c) # EntitlementOf(d)
      /\ HasAssetLock(c) /\ HasAssetLock(d) => AssetFor(c) # AssetFor(d)

Places == {"idle", "look", "lock", "reread", "done", "ended"} \cup InTransaction

Typed ==
  /\ holding \in [Entitled -> [status : {"NONE", "ACTIVE", "REVOKED"}, terms : SUBSET Terms]]
  /\ tombstones \subseteq Entitled
  /\ revocations \in [Entitled -> Nat]
  /\ call \in [Callers -> [pc : Places, job : Jobs \cup {NoJob}, outcome : Outcomes]]

Facts == HoldingOrTombstone /\ RevokedOnce

EInv == Typed /\ Excluded /\ (\A c \in Callers : CallOK(c)) /\ Facts

-----------------------------------------------------------------------------

LEMMA JobFields ==
  ASSUME NEW job \in Jobs
  PROVE  /\ job.entitlement \in Entitled
         /\ job.kind \in {"grant", "revoke"}
         /\ job.kind = "grant" => job.terms \in Terms
  BY DEF Jobs

LEMMA Initially == Init => EInv
  <1> SUFFICES ASSUME Init PROVE EInv
    OBVIOUS
  <1> USE DEF Init, InitEntitlements, Idle, Places, Outcomes
  <1>1. Typed
    <2>1. [status |-> "NONE", terms |-> {}] \in [status : {"NONE", "ACTIVE", "REVOKED"}, terms : SUBSET Terms]
      OBVIOUS
    <2>2. holding \in [Entitled -> [status : {"NONE", "ACTIVE", "REVOKED"}, terms : SUBSET Terms]]
      BY <2>1
    <2>3. call \in [Callers -> [pc : Places, job : Jobs \cup {NoJob}, outcome : Outcomes]]
      OBVIOUS
    <2>4. revocations \in [Entitled -> Nat]
      OBVIOUS
    <2> QED BY <2>2, <2>3, <2>4 DEF Typed
  <1>2. Excluded
    BY DEF Excluded, HasEntitlementLock, HasAssetLock, InTransaction
  <1>3. \A c \in Callers : CallOK(c)
    BY DEF CallOK, Relies
  <1>4. Facts
    BY DEF Facts, HoldingOrTombstone, RevokedOnce
  <1> QED BY <1>1, <1>2, <1>3, <1>4 DEF EInv

(* A caller goes on and no row changes. *)
LEMMA Moves ==
  ASSUME EInv, NEW c \in Callers,
         NEW r \in [pc : Places, job : Jobs \cup {NoJob}, outcome : Outcomes],
         call' = [call EXCEPT ![c] = r],
         UNCHANGED <<holding, tombstones, assets, byHand, revocations>>,
         Relies(r.job, r.pc, r.outcome),
         HasEntitlementLock(c)' =>
           \/ HasEntitlementLock(c) /\ r.job = call[c].job
           \/ \A d \in Callers \ {c} : HasEntitlementLock(d) => EntitlementOf(d) # r.job.entitlement,
         HasAssetLock(c)' =>
           \/ HasAssetLock(c) /\ r.job = call[c].job
           \/ \A d \in Callers \ {c} : HasAssetLock(d) => AssetFor(d) # AssetOf[r.job.terms]
  PROVE  EInv'
  <1>1. Typed'
    BY DEF EInv, Typed
  <1>2. call'[c] = r /\ \A d \in Callers \ {c} : call'[d] = call[d]
    BY DEF EInv, Typed
  <1>3. \A d \in Callers : CallOK(d)'
    BY <1>2 DEF EInv, CallOK, Relies
  <1>4. Excluded'
    BY <1>2 DEF EInv, Excluded, HasEntitlementLock, HasAssetLock, EntitlementOf, AssetFor
  <1>5. Facts'
    BY DEF EInv, Facts, HoldingOrTombstone, RevokedOnce
  <1> QED BY <1>1, <1>3, <1>4, <1>5 DEF EInv

LEMMA Going ==
  ASSUME Typed, NEW c \in Callers, NEW pc \in Places, NEW outcome \in Outcomes,
         Goto(c, pc, outcome)
  PROVE  /\ [pc |-> pc, job |-> call[c].job, outcome |-> outcome]
              \in [pc : Places, job : Jobs \cup {NoJob}, outcome : Outcomes]
         /\ call' = [call EXCEPT ![c] = [pc |-> pc, job |-> call[c].job, outcome |-> outcome]]
         /\ call'[c] = [pc |-> pc, job |-> call[c].job, outcome |-> outcome]
  BY DEF Typed, Goto

(* A caller goes on in its transaction, or leaves it. *)
LEMMA GoesOn ==
  ASSUME EInv, NEW c \in Callers, NEW pc \in Places, NEW outcome \in Outcomes,
         Goto(c, pc, outcome),
         UNCHANGED <<holding, tombstones, assets, byHand, revocations>>,
         Relies(call[c].job, pc, outcome),
         pc \in InTransaction => HasEntitlementLock(c),
         pc \in {"findAsset", "write"} /\ call[c].job.kind = "grant" => HasAssetLock(c)
  PROVE  EInv'
  <1> DEFINE r == [pc |-> pc, job |-> call[c].job, outcome |-> outcome]
  <1>1. /\ r \in [pc : Places, job : Jobs \cup {NoJob}, outcome : Outcomes]
        /\ call' = [call EXCEPT ![c] = r]
        /\ call'[c] = r
    BY Going DEF EInv
  <1>2. HasEntitlementLock(c)' => HasEntitlementLock(c) /\ r.job = call[c].job
    BY <1>1 DEF HasEntitlementLock, InTransaction
  <1>3. HasAssetLock(c)' => HasAssetLock(c) /\ r.job = call[c].job
    BY <1>1 DEF HasAssetLock
  <1>4. Relies(r.job, r.pc, r.outcome)
    OBVIOUS
  <1> HIDE DEF r
  <1> QED BY <1>1, <1>2, <1>3, <1>4, Moves

LEMMA Answered ==
  ASSUME EInv, NEW c \in Callers, NEW outcome \in Outcomes,
         call[c].pc \notin {"idle", "ended"},
         Answer(c, outcome),
         UNCHANGED <<holding, tombstones, assets, byHand, revocations>>
  PROVE  EInv'
  <1>1. Relies(call[c].job, "done", outcome)
    BY DEF EInv, CallOK, Relies
  <1>2. "done" \notin InTransaction /\ "done" \in Places
    BY DEF InTransaction, Places
  <1> QED BY <1>1, <1>2, GoesOn DEF Answer

LEMMA ExistingIsOutcome == \A h, job : ExistingOutcome(h, job) \in Outcomes
  BY DEF ExistingOutcome, Outcomes, Thrown

LEMMA LookStep ==
  ASSUME EInv, NEW c \in Callers, Look(c)
  PROVE  EInv'
  <1>1. CASE holding[EntitlementOf(c)].status = "NONE"
    <2>1. Goto(c, "lock", "none")
      BY <1>1 DEF Look
    <2>2. Relies(call[c].job, "lock", "none")
      BY DEF Look, EInv, CallOK, Relies
    <2>3. "lock" \notin InTransaction /\ "lock" \in Places /\ "none" \in Outcomes
      BY DEF InTransaction, Places, Outcomes
    <2> QED BY <2>1, <2>2, <2>3, GoesOn DEF Look
  <1>2. CASE holding[EntitlementOf(c)].status # "NONE"
    <2>1. PICK o : o = ExistingOutcome(holding[EntitlementOf(c)], call[c].job)
      OBVIOUS
    <2>2. o \in Outcomes /\ Answer(c, o)
      BY <1>2, <2>1, ExistingIsOutcome DEF Look
    <2>3. call[c].pc \notin {"idle", "ended"}
      BY DEF Look
    <2> QED BY <2>2, <2>3, Answered DEF Look
  <1> QED BY <1>1, <1>2

LEMMA LockStep ==
  ASSUME EInv, NEW c \in Callers, Lock(c)
  PROVE  EInv'
  <1> DEFINE r == [pc |-> "decide", job |-> call[c].job, outcome |-> "none"]
  <1>1. "decide" \in Places /\ "none" \in Outcomes
    BY DEF Places, InTransaction, Outcomes
  <1>2. /\ r \in [pc : Places, job : Jobs \cup {NoJob}, outcome : Outcomes]
        /\ call' = [call EXCEPT ![c] = r]
        /\ call'[c] = r
    BY <1>1, Going DEF EInv, Lock
  <1>3. Relies(r.job, r.pc, r.outcome)
    BY DEF Lock, EInv, CallOK, Relies
  <1>4. \A d \in Callers \ {c} : HasEntitlementLock(d) => EntitlementOf(d) # r.job.entitlement
    BY DEF Lock, EntitlementOf
  <1>5. ~HasAssetLock(c)'
    BY <1>2 DEF HasAssetLock
  <1> HIDE DEF r
  <1> QED BY <1>2, <1>3, <1>4, <1>5, Moves DEF Lock

LEMMA DecideGrantStep ==
  ASSUME EInv, NEW c \in Callers, DecideGrant(c)
  PROVE  EInv'
  <1> DEFINE e == call[c].job.entitlement
  <1>1. call[c].pc \notin {"idle", "ended"}
    BY DEF DecideGrant
  <1>2. CASE holding[e].status # "NONE"
    <2>1. PICK o : o = ExistingOutcome(holding[e], call[c].job)
      OBVIOUS
    <2>2. o \in Outcomes /\ Answer(c, o)
      BY <1>2, <2>1, ExistingIsOutcome DEF DecideGrant, EntitlementOf
    <2> QED BY <1>1, <2>2, Answered DEF DecideGrant
  <1>3. CASE holding[e].status = "NONE" /\ e \notin tombstones
    <2>1. Goto(c, "lockAsset", "none")
      BY <1>3 DEF DecideGrant, EntitlementOf, GrantMayProceed
    <2>2. Relies(call[c].job, "lockAsset", "none")
      BY <1>3 DEF DecideGrant, EInv, CallOK, Relies
    <2>3. HasEntitlementLock(c)
      BY DEF DecideGrant, HasEntitlementLock, InTransaction
    <2>4. "lockAsset" \in Places /\ "none" \in Outcomes
      BY DEF Places, InTransaction, Outcomes
    <2> QED BY <2>1, <2>2, <2>3, <2>4, GoesOn DEF DecideGrant
  <1>4. CASE holding[e].status = "NONE" /\ e \in tombstones
    <2>1. "skipped" \in Outcomes /\ Answer(c, "skipped")
      BY <1>4 DEF DecideGrant, EntitlementOf, GrantMayProceed, Outcomes
    <2> QED BY <1>1, <2>1, Answered DEF DecideGrant
  <1> QED BY <1>2, <1>3, <1>4

LEMMA LockAssetStep ==
  ASSUME EInv, NEW c \in Callers, LockAsset(c)
  PROVE  EInv'
  <1> DEFINE r == [pc |-> "findAsset", job |-> call[c].job, outcome |-> "none"]
  <1>1. "findAsset" \in Places /\ "none" \in Outcomes
    BY DEF Places, InTransaction, Outcomes
  <1>2. /\ r \in [pc : Places, job : Jobs \cup {NoJob}, outcome : Outcomes]
        /\ call' = [call EXCEPT ![c] = r]
        /\ call'[c] = r
    BY <1>1, Going DEF EInv, LockAsset
  <1>3. Relies(r.job, r.pc, r.outcome)
    BY DEF LockAsset, EInv, CallOK, Relies
  <1>4. HasEntitlementLock(c) /\ r.job = call[c].job
    BY DEF LockAsset, HasEntitlementLock, InTransaction
  <1>5. \A d \in Callers \ {c} : HasAssetLock(d) => AssetFor(d) # AssetOf[r.job.terms]
    BY DEF LockAsset, AssetFor
  <1> HIDE DEF r
  <1> QED BY <1>2, <1>3, <1>4, <1>5, Moves DEF LockAsset

LEMMA FindAssetStep ==
  ASSUME EInv, NEW c \in Callers, FindAsset(c)
  PROVE  EInv'
  <1>1. call[c].pc = "findAsset" /\ call[c].job \in Jobs /\ call[c].job.kind = "grant"
    BY DEF FindAsset, EInv, CallOK, Relies
  <1>2. HasEntitlementLock(c) /\ HasAssetLock(c)
    BY <1>1 DEF HasEntitlementLock, HasAssetLock, InTransaction
  <1>3. PICK o : o = IF AssetFor(c) \in assets THEN "known" ELSE "new"
    OBVIOUS
  <1>4. Goto(c, "write", o) /\ o \in Outcomes /\ "write" \in Places
    BY <1>3 DEF FindAsset, Outcomes, Places, InTransaction
  <1>5. Relies(call[c].job, "write", o)
    BY <1>1, <1>3 DEF EInv, CallOK, Relies, AssetFor
  <1> QED BY <1>2, <1>4, <1>5, GoesOn DEF FindAsset

LEMMA RereadStep ==
  ASSUME EInv, NEW c \in Callers, Reread(c)
  PROVE  EInv'
  <1>1. PICK o : o = IF holding[EntitlementOf(c)].status # "NONE"
                     THEN ExistingOutcome(holding[EntitlementOf(c)], call[c].job) ELSE "thrown"
    OBVIOUS
  <1>2. Answer(c, o) /\ call[c].pc \notin {"idle", "ended"}
    BY <1>1 DEF Reread
  <1>3. o \in Outcomes
    BY <1>1, ExistingIsOutcome DEF Outcomes, Thrown
  <1> QED BY <1>2, <1>3, Answered DEF Reread

LEMMA DecideRevokeStep ==
  ASSUME EInv, NEW c \in Callers, DecideRevoke(c)
  PROVE  EInv'
  <1> DEFINE e == call[c].job.entitlement
  <1>1. /\ call[c].pc = "decide" /\ call[c].job.kind = "revoke" /\ call[c].job \in Jobs
        /\ UNCHANGED <<holding, tombstones, assets, byHand, revocations>>
    BY DEF DecideRevoke, EInv, CallOK, Relies
  <1>2. HasEntitlementLock(c)
    BY <1>1 DEF HasEntitlementLock, InTransaction
  <1>3. /\ {"not_found", "tombstoned", "already_revoked", "tombstone", "revoke"} \subseteq Outcomes
        /\ "write" \in Places
    BY DEF Outcomes, Places, InTransaction
  <1>4. \/ Answer(c, "not_found") \/ Answer(c, "tombstoned") \/ Answer(c, "already_revoked")
        \/ Goto(c, "write", "tombstone") /\ holding[e].status = "NONE"
        \/ Goto(c, "write", "revoke") /\ holding[e].status = "ACTIVE"
    <2>1. CASE holding[e].status = "NONE" /\ c \in Admins
      BY <2>1 DEF DecideRevoke, EntitlementOf
    <2>2. CASE holding[e].status = "NONE" /\ c \notin Admins
      BY <2>2 DEF DecideRevoke, EntitlementOf
    <2>3. CASE holding[e].status # "NONE"
      BY <2>3 DEF DecideRevoke, EntitlementOf, Revocable
    <2> QED BY <2>1, <2>2, <2>3
  <1>5. CASE Answer(c, "not_found") \/ Answer(c, "tombstoned") \/ Answer(c, "already_revoked")
    BY <1>1, <1>3, <1>5, Answered
  <1>6. CASE Goto(c, "write", "tombstone") /\ holding[e].status = "NONE"
    <2>1. Relies(call[c].job, "write", "tombstone")
      BY <1>1, <1>6 DEF Relies
    <2> QED BY <1>1, <1>2, <1>3, <1>6, <2>1, GoesOn
  <1>7. CASE Goto(c, "write", "revoke") /\ holding[e].status = "ACTIVE"
    <2>1. Relies(call[c].job, "write", "revoke")
      BY <1>1, <1>7 DEF Relies
    <2> QED BY <1>1, <1>2, <1>3, <1>7, <2>1, GoesOn
  <1> QED BY <1>4, <1>5, <1>6, <1>7

(* A caller that writes: the others in a transaction have other entitlements. *)
LEMMA Writes ==
  ASSUME EInv, NEW c \in Callers, call[c].pc = "write",
         NEW outcome \in Outcomes, Answer(c, outcome)
  PROVE  /\ call[c].job \in Jobs /\ call[c].job.entitlement \in Entitled
         /\ call' = [call EXCEPT ![c] = [pc |-> "done", job |-> call[c].job, outcome |-> outcome]]
         /\ call'[c] = [pc |-> "done", job |-> call[c].job, outcome |-> outcome]
         /\ call' \in [Callers -> [pc : Places, job : Jobs \cup {NoJob}, outcome : Outcomes]]
         /\ \A d \in Callers \ {c} :
              /\ call'[d] = call[d]
              /\ call[d].pc \in InTransaction
                   => call[d].job.entitlement # call[c].job.entitlement
         /\ Excluded'
  <1>1. call[c].job \in Jobs /\ call[c].job.entitlement \in Entitled
    BY JobFields DEF EInv, CallOK, Relies
  <1>2. "done" \in Places
    BY DEF Places
  <1>3. /\ call' = [call EXCEPT ![c] = [pc |-> "done", job |-> call[c].job, outcome |-> outcome]]
        /\ call'[c] = [pc |-> "done", job |-> call[c].job, outcome |-> outcome]
        /\ [pc |-> "done", job |-> call[c].job, outcome |-> outcome]
             \in [pc : Places, job : Jobs \cup {NoJob}, outcome : Outcomes]
    BY <1>2, Going DEF EInv, Answer
  <1>4. call' \in [Callers -> [pc : Places, job : Jobs \cup {NoJob}, outcome : Outcomes]]
    BY <1>3 DEF EInv, Typed
  <1>5. ASSUME NEW d \in Callers \ {c}
        PROVE  /\ call'[d] = call[d]
               /\ call[d].pc \in InTransaction
                    => call[d].job.entitlement # call[c].job.entitlement
    <2>1. call'[d] = call[d]
      BY <1>3 DEF EInv, Typed
    <2>2. HasEntitlementLock(c)
      BY DEF HasEntitlementLock, InTransaction
    <2> QED BY <2>1, <2>2 DEF EInv, Excluded, HasEntitlementLock, EntitlementOf
  <1>6. ~HasEntitlementLock(c)' /\ ~HasAssetLock(c)'
    BY <1>3 DEF HasEntitlementLock, HasAssetLock, InTransaction
  <1>7. Excluded'
    BY <1>5, <1>6 DEF EInv, Excluded, HasEntitlementLock, HasAssetLock, EntitlementOf, AssetFor
  <1> QED BY <1>1, <1>3, <1>4, <1>5, <1>7

LEMMA WriteGrantStep ==
  ASSUME EInv, NEW c \in Callers, WriteGrant(c)
  PROVE  EInv'
  <1> DEFINE job == call[c].job
             e == job.entitlement
             a == AssetOf[job.terms]
  <1>1. /\ call[c].pc = "write" /\ job.kind = "grant" /\ job \in Jobs
        /\ holding[e].status = "NONE" /\ e \notin tombstones
        /\ call[c].outcome = "new" => a \notin assets \ byHand
    BY DEF WriteGrant, EInv, CallOK, Relies
  <1>2. e \in Entitled /\ job.terms \in Terms
    BY <1>1, JobFields
  <1>3. CASE call[c].outcome = "new" /\ a \in assets
    <2>1. Goto(c, "reread", "none") /\ UNCHANGED <<holding, tombstones, assets, byHand, revocations>>
      BY <1>3 DEF WriteGrant, AssetFor, EntitlementOf
    <2>2. Relies(job, "reread", "none")
      BY <1>1, <1>3 DEF Relies
    <2>3. "reread" \in Places /\ "reread" \notin InTransaction /\ "none" \in Outcomes
      BY DEF Places, InTransaction, Outcomes
    <2> QED BY <2>1, <2>2, <2>3, GoesOn
  <1>4. CASE ~(call[c].outcome = "new" /\ a \in assets)
    <2>1. /\ assets' = assets \cup {a}
          /\ holding' = [holding EXCEPT ![e] = [status |-> "ACTIVE", terms |-> {job.terms}]]
          /\ Answer(c, "granted")
          /\ UNCHANGED <<tombstones, byHand, revocations>>
      BY <1>1, <1>4 DEF WriteGrant, AssetFor, EntitlementOf
    <2>2. "granted" \in Outcomes
      BY DEF Outcomes
    <2>3. /\ holding'[e].status = "ACTIVE"
          /\ \A x \in Entitled \ {e} : holding'[x] = holding[x]
          /\ holding' \in [Entitled -> [status : {"NONE", "ACTIVE", "REVOKED"}, terms : SUBSET Terms]]
      BY <1>2, <2>1 DEF EInv, Typed
    <2>4. Typed'
      BY <1>1, <2>1, <2>2, <2>3, Writes DEF EInv, Typed
    <2>5. Excluded'
      BY <1>1, <2>1, <2>2, Writes
    <2>6. ASSUME NEW d \in Callers PROVE CallOK(d)'
      <3>1. CASE d = c
        <4>1. call'[c] = [pc |-> "done", job |-> job, outcome |-> "granted"]
          BY <1>1, <2>1, <2>2, Writes
        <4> QED BY <1>1, <3>1, <4>1 DEF CallOK, Relies
      <3>2. CASE d # c
        <4>0. d \in Callers \ {c}
          BY <3>2
        <4>1. call'[d] = call[d] /\ CallOK(d)
          <5>1. CallOK(d)
            BY DEF EInv
          <5>2. call'[d] = call[d]
            BY <1>1, <2>1, <2>2, <4>0, Writes
          <5> QED BY <5>1, <5>2
        <4>2. CASE call[d].pc \in InTransaction
          <5>1. /\ call[d].job \in Jobs
                /\ call[d].job.entitlement \in Entitled \ {e}
            BY <1>1, <2>1, <2>2, <4>0, <4>1, <4>2, Writes, JobFields DEF CallOK, Relies, InTransaction
          <5>2. call[d].pc = "write" /\ call[d].job.kind = "grant" => AssetOf[call[d].job.terms] # a
            BY <1>1, <3>2 DEF EInv, Excluded, HasAssetLock, AssetFor
          <5> QED BY <2>1, <2>3, <4>1, <5>1, <5>2 DEF CallOK, Relies
        <4>3. CASE call[d].pc \notin InTransaction
          BY <2>1, <4>1, <4>3 DEF CallOK, Relies, InTransaction
        <4> QED BY <4>2, <4>3
      <3> QED BY <3>1, <3>2
    <2>7. Facts'
      BY <1>1, <1>2, <2>1, <2>3 DEF EInv, Facts, HoldingOrTombstone, RevokedOnce
    <2> QED BY <2>4, <2>5, <2>6, <2>7 DEF EInv
  <1> QED BY <1>3, <1>4

LEMMA WriteTombstoneStep ==
  ASSUME EInv, NEW c \in Callers, WriteTombstone(c)
  PROVE  EInv'
  <1> DEFINE e == call[c].job.entitlement
  <1>1. /\ call[c].pc = "write" /\ holding[e].status = "NONE"
        /\ call[c].job.kind = "revoke" /\ call[c].job \in Jobs
    BY DEF WriteTombstone, EInv, CallOK, Relies
  <1>2. /\ tombstones' = tombstones \cup {e} /\ Answer(c, "tombstoned")
        /\ UNCHANGED <<holding, assets, byHand, revocations>>
    BY DEF WriteTombstone, EntitlementOf
  <1>3. e \in Entitled /\ "tombstoned" \in Outcomes
    BY <1>1, JobFields DEF Outcomes
  <1>4. Typed'
    BY <1>1, <1>2, <1>3, Writes DEF EInv, Typed
  <1>5. Excluded'
    BY <1>1, <1>2, <1>3, Writes
  <1>6. ASSUME NEW d \in Callers PROVE CallOK(d)'
    <2>1. CASE d = c
      <3>1. call'[c] = [pc |-> "done", job |-> call[c].job, outcome |-> "tombstoned"]
        BY <1>1, <1>2, <1>3, Writes
      <3> QED BY <1>1, <2>1, <3>1 DEF CallOK, Relies
    <2>2. CASE d # c
      <3>1. CallOK(d)
        BY DEF EInv
      <3>2. d \in Callers \ {c}
        BY <2>2
      <3>3. call'[d] = call[d] /\ (call[d].pc \in InTransaction => call[d].job.entitlement # e)
        BY <1>1, <1>2, <1>3, <3>2, Writes
      <3> QED BY <1>2, <3>1, <3>3 DEF CallOK, Relies, InTransaction
    <2> QED BY <2>1, <2>2
  <1>7. Facts'
    BY <1>1, <1>2 DEF EInv, Facts, HoldingOrTombstone, RevokedOnce
  <1> QED BY <1>4, <1>5, <1>6, <1>7 DEF EInv

LEMMA WriteRevocationStep ==
  ASSUME EInv, NEW c \in Callers, WriteRevocation(c)
  PROVE  EInv'
  <1> DEFINE e == call[c].job.entitlement
  <1>1. /\ call[c].pc = "write" /\ holding[e].status = "ACTIVE"
        /\ call[c].job.kind = "revoke" /\ call[c].job \in Jobs
    BY DEF WriteRevocation, EInv, CallOK, Relies
  <1>2. /\ holding' = [holding EXCEPT ![e].status = "REVOKED"] /\ Answer(c, "revoked")
        /\ revocations' = [revocations EXCEPT ![e] = @ + 1]
        /\ UNCHANGED <<tombstones, assets, byHand>>
    BY DEF WriteRevocation, EntitlementOf
  <1>3. e \in Entitled /\ "revoked" \in Outcomes
    BY <1>1, JobFields DEF Outcomes
  <1>4. /\ holding'[e].status = "REVOKED"
        /\ \A x \in Entitled \ {e} : holding'[x] = holding[x]
        /\ holding' \in [Entitled -> [status : {"NONE", "ACTIVE", "REVOKED"}, terms : SUBSET Terms]]
    BY <1>2, <1>3 DEF EInv, Typed
  <1>5. revocations'[e] = 1 /\ \A x \in Entitled \ {e} : revocations'[x] = revocations[x]
    BY <1>1, <1>2, <1>3 DEF EInv, Typed, Facts, RevokedOnce
  <1>6. Typed'
    <2>1. call' \in [Callers -> [pc : Places, job : Jobs \cup {NoJob}, outcome : Outcomes]]
      BY <1>1, <1>2, <1>3, Writes
    <2>2. revocations' \in [Entitled -> Nat]
      <3>1. revocations \in [Entitled -> Nat] /\ revocations[e] + 1 \in Nat
        BY <1>3 DEF EInv, Typed
      <3>2. revocations' = [revocations EXCEPT ![e] = revocations[e] + 1]
        BY <1>2
      <3> QED BY <3>1, <3>2
    <2> QED BY <1>2, <1>4, <2>1, <2>2 DEF EInv, Typed
  <1>7. Excluded'
    BY <1>1, <1>2, <1>3, Writes
  <1>8. ASSUME NEW d \in Callers PROVE CallOK(d)'
    <2>1. CASE d = c
      <3>1. call'[c] = [pc |-> "done", job |-> call[c].job, outcome |-> "revoked"]
        BY <1>1, <1>2, <1>3, Writes
      <3> QED BY <1>1, <2>1, <3>1 DEF CallOK, Relies
    <2>2. CASE d # c
      <3>1. CallOK(d)
        BY DEF EInv
      <3>2. d \in Callers \ {c}
        BY <2>2
      <3>3. call'[d] = call[d] /\ (call[d].pc \in InTransaction => call[d].job.entitlement # e)
        BY <1>1, <1>2, <1>3, <3>2, Writes
      <3>4. call[d].pc \notin {"idle", "ended"} => call[d].job.entitlement \in Entitled
        BY <3>1, JobFields DEF CallOK, Relies
      <3> QED BY <1>2, <1>4, <3>1, <3>3, <3>4 DEF CallOK, Relies, InTransaction
    <2> QED BY <2>1, <2>2
  <1>9. Facts'
    BY <1>1, <1>2, <1>3, <1>4, <1>5 DEF EInv, Facts, HoldingOrTombstone, RevokedOnce
  <1> QED BY <1>6, <1>7, <1>8, <1>9 DEF EInv

LEMMA ThrowStep ==
  ASSUME EInv, NEW c \in Callers, Throw(c)
  PROVE  EInv'
  <1>1. "thrown" \in Outcomes
    BY DEF Outcomes, Thrown
  <1> QED BY <1>1, Answered DEF Throw

LEMMA BeginStep ==
  ASSUME EInv, NEW c \in Callers, NEW job \in Jobs, Begin(c, job)
  PROVE  EInv'
  <1> DEFINE pc == IF job.kind = "grant" THEN "look" ELSE "lock"
             r == [pc |-> pc, job |-> job, outcome |-> "none"]
  <1>1. pc \in Places /\ "none" \in Outcomes
    BY DEF Places, Outcomes
  <1>2. r \in [pc : Places, job : Jobs \cup {NoJob}, outcome : Outcomes]
    BY <1>1
  <1>3. call' = [call EXCEPT ![c] = r] /\ call'[c] = r
    BY DEF Begin, EInv, Typed
  <1>4. Relies(r.job, r.pc, r.outcome)
    BY DEF Relies
  <1>5. ~HasEntitlementLock(c)' /\ ~HasAssetLock(c)'
    BY <1>3 DEF HasEntitlementLock, HasAssetLock, InTransaction
  <1> HIDE DEF r
  <1> QED BY <1>2, <1>3, <1>4, <1>5, Moves DEF Begin

(* A call is over, or its caller died. *)
LEMMA OverStep ==
  ASSUME EInv, NEW c \in Callers, NEW pc \in {"idle", "ended"},
         call' = [call EXCEPT ![c] = [pc |-> pc, job |-> NoJob, outcome |-> "none"]],
         UNCHANGED <<holding, tombstones, assets, byHand, revocations>>
  PROVE  EInv'
  <1> DEFINE r == [pc |-> pc, job |-> NoJob, outcome |-> "none"]
  <1>1. pc \in Places /\ "none" \in Outcomes
    BY DEF Places, Outcomes
  <1>2. r \in [pc : Places, job : Jobs \cup {NoJob}, outcome : Outcomes]
    BY <1>1
  <1>3. call'[c] = r
    BY DEF EInv, Typed
  <1>4. Relies(r.job, r.pc, r.outcome)
    BY DEF Relies
  <1>5. ~HasEntitlementLock(c)' /\ ~HasAssetLock(c)'
    BY <1>3 DEF HasEntitlementLock, HasAssetLock, InTransaction
  <1>6. call' = [call EXCEPT ![c] = r]
    OBVIOUS
  <1> HIDE DEF r
  <1> QED BY <1>2, <1>4, <1>5, <1>6, Moves

LEMMA CreatesAssetStep ==
  ASSUME EInv, NEW t \in Terms, AdminCreatesAsset(t)
  PROVE  EInv'
  <1> USE DEF AdminCreatesAsset
  <1>1. Typed'
    BY DEF EInv, Typed
  <1>2. Excluded'
    BY DEF EInv, Excluded, HasEntitlementLock, HasAssetLock, EntitlementOf, AssetFor
  <1>3. \A c \in Callers : CallOK(c)'
    BY DEF EInv, CallOK, Relies
  <1>4. Facts'
    BY DEF EInv, Facts, HoldingOrTombstone, RevokedOnce
  <1> QED BY <1>1, <1>2, <1>3, <1>4 DEF EInv

LEMMA UseCaseStep ==
  ASSUME EInv, NEW c \in Callers, UseCase(c)
  PROVE  EInv'
  BY LookStep, LockStep, DecideGrantStep, LockAssetStep, FindAssetStep, WriteGrantStep,
     RereadStep, DecideRevokeStep, WriteTombstoneStep, WriteRevocationStep
  DEF UseCase

(* What a step does to the entitlements *)
Idles(c) ==
  /\ call' = [call EXCEPT ![c] = Idle]
  /\ UNCHANGED <<holding, tombstones, assets, byHand, revocations>>

EntitlementStep ==
  \/ \E c \in Callers :
       \/ UseCase(c) \/ Throw(c) \/ Idles(c) \/ AdminEnds(c)
       \/ \E job \in Jobs : Begin(c, job)
  \/ \E t \in Terms : AdminCreatesAsset(t)
  \/ UNCHANGED entitlementVars

LEMMA EntitlementStepInv ==
  ASSUME EInv, EntitlementStep
  PROVE  EInv'
  <1>1. ASSUME NEW c \in Callers, UseCase(c) PROVE EInv'
    BY <1>1, UseCaseStep
  <1>2. ASSUME NEW c \in Callers, Throw(c) PROVE EInv'
    BY <1>2, ThrowStep
  <1>3. ASSUME NEW c \in Callers, Idles(c) PROVE EInv'
    BY <1>3, OverStep DEF Idles, Idle
  <1>4. ASSUME NEW c \in Callers, AdminEnds(c) PROVE EInv'
    BY <1>4, OverStep DEF AdminEnds
  <1>5. ASSUME NEW c \in Callers, NEW job \in Jobs, Begin(c, job) PROVE EInv'
    BY <1>5, BeginStep
  <1>6. ASSUME NEW t \in Terms, AdminCreatesAsset(t) PROVE EInv'
    BY <1>6, CreatesAssetStep
  <1>7. CASE UNCHANGED entitlementVars
    <2> USE <1>7 DEF entitlementVars
    <2>1. Typed' /\ Facts'
      BY DEF EInv, Typed, Facts, HoldingOrTombstone, RevokedOnce
    <2>2. Excluded'
      BY DEF EInv, Excluded, HasEntitlementLock, HasAssetLock, EntitlementOf, AssetFor
    <2>3. \A c \in Callers : CallOK(c)'
      BY DEF EInv, CallOK, Relies
    <2> QED BY <2>1, <2>2, <2>3 DEF EInv
  <1> QED BY <1>1, <1>2, <1>3, <1>4, <1>5, <1>6, <1>7 DEF EntitlementStep

-----------------------------------------------------------------------------
(* What a step leaves as it is                                              *)

(* The three ways in which the rows of an entitlement change *)
RowsChanged ==
  \/ UNCHANGED <<holding, tombstones>>
  \/ \E job \in Jobs :
       /\ job.kind = "grant" /\ tombstones' = tombstones
       /\ holding[job.entitlement].status = "NONE" /\ job.entitlement \notin tombstones
       /\ holding' = [holding EXCEPT ![job.entitlement] =
                        [status |-> "ACTIVE", terms |-> {job.terms}]]
  \/ \E e \in Entitled :
       holding[e].status = "NONE" /\ tombstones' = tombstones \cup {e} /\ holding' = holding
  \/ \E e \in Entitled :
       /\ holding[e].status = "ACTIVE" /\ tombstones' = tombstones
       /\ holding' = [holding EXCEPT ![e].status = "REVOKED"]

LEMMA RowsChange ==
  ASSUME EInv, EntitlementStep
  PROVE  RowsChanged
  <1>1. ASSUME NEW c \in Callers, WriteGrant(c) PROVE RowsChanged
    <2>1. /\ call[c].job \in Jobs /\ call[c].job.kind = "grant"
          /\ holding[call[c].job.entitlement].status = "NONE"
          /\ call[c].job.entitlement \notin tombstones
      BY <1>1 DEF WriteGrant, EInv, CallOK, Relies
    <2>2. /\ tombstones' = tombstones
          /\ \/ holding' = holding
             \/ holding' = [holding EXCEPT ![call[c].job.entitlement] =
                              [status |-> "ACTIVE", terms |-> {call[c].job.terms}]]
      BY <1>1 DEF WriteGrant, EntitlementOf
    <2> QED BY <2>1, <2>2 DEF RowsChanged
  <1>2. ASSUME NEW c \in Callers, WriteTombstone(c) PROVE RowsChanged
    <2>1. /\ call[c].job.entitlement \in Entitled
          /\ holding[call[c].job.entitlement].status = "NONE"
      BY <1>2, JobFields DEF WriteTombstone, EInv, CallOK, Relies
    <2>2. /\ tombstones' = tombstones \cup {call[c].job.entitlement}
          /\ holding' = holding
      BY <1>2 DEF WriteTombstone, EntitlementOf
    <2> QED BY <2>1, <2>2 DEF RowsChanged
  <1>3. ASSUME NEW c \in Callers, WriteRevocation(c) PROVE RowsChanged
    <2>1. /\ call[c].job.entitlement \in Entitled
          /\ holding[call[c].job.entitlement].status = "ACTIVE"
      BY <1>3, JobFields DEF WriteRevocation, EInv, CallOK, Relies
    <2>2. /\ tombstones' = tombstones
          /\ holding' = [holding EXCEPT ![call[c].job.entitlement].status = "REVOKED"]
      BY <1>3 DEF WriteRevocation, EntitlementOf
    <2> QED BY <2>1, <2>2 DEF RowsChanged
  <1>4. CASE UNCHANGED <<holding, tombstones>>
    BY <1>4 DEF RowsChanged
  <1>5. ASSUME NEW c \in Callers, UseCase(c) PROVE RowsChanged
    <2>1. CASE Look(c) \/ Lock(c) \/ LockAsset(c) \/ FindAsset(c) \/ Reread(c)
      <3>1. UNCHANGED <<holding, tombstones>>
        BY <2>1 DEF Look, Lock, LockAsset, FindAsset, Reread
      <3> QED BY <3>1 DEF RowsChanged
    <2>2. CASE DecideGrant(c) \/ DecideRevoke(c)
      <3>1. UNCHANGED <<holding, tombstones>>
        BY <2>2 DEF DecideGrant, DecideRevoke
      <3> QED BY <3>1 DEF RowsChanged
    <2> QED BY <1>1, <1>2, <1>3, <1>5, <2>1, <2>2 DEF UseCase
  <1>6. ASSUME NEW c \in Callers, Throw(c) \/ Idles(c) \/ AdminEnds(c) PROVE RowsChanged
    BY <1>6 DEF RowsChanged, Throw, Idles, AdminEnds
  <1>7. ASSUME NEW c \in Callers, NEW job \in Jobs, Begin(c, job) PROVE RowsChanged
    BY <1>7 DEF RowsChanged, Begin
  <1>8. ASSUME NEW t \in Terms, AdminCreatesAsset(t) PROVE RowsChanged
    BY <1>8 DEF RowsChanged, AdminCreatesAsset
  <1>9. CASE UNCHANGED entitlementVars
    BY <1>9 DEF RowsChanged, entitlementVars
  <1>10. RowsChanged
    <2>1. CASE \E c \in Callers : UseCase(c)
      BY <2>1, <1>5
    <2>2. CASE \E c \in Callers : Throw(c) \/ Idles(c) \/ AdminEnds(c)
      BY <2>2, <1>6
    <2>3. CASE \E c \in Callers : \E job \in Jobs : Begin(c, job)
      BY <2>3, <1>7
    <2>4. CASE \E t \in Terms : AdminCreatesAsset(t)
      BY <2>4, <1>8
    <2> QED BY <2>1, <2>2, <2>3, <2>4, <1>9 DEF EntitlementStep
  <1> QED BY <1>10

(* A holding that is there keeps its terms and never becomes active again;   *)
(* a tombstone stays.                                                        *)
LEMMA RowsStay ==
  ASSUME EInv, EntitlementStep, NEW e \in Entitled
  PROVE  /\ Revoked(e) => Revoked(e)' /\ ~Active(e)'
         /\ e \in tombstones => e \in tombstones'
         /\ holding[e].status # "NONE" => holding'[e].terms = holding[e].terms
         /\ holding[e].status = "NONE" => \/ holding'[e] = holding[e]
                                          \/ holding'[e].status = "ACTIVE"
  <1>1. /\ holding \in [Entitled -> [status : {"NONE", "ACTIVE", "REVOKED"}, terms : SUBSET Terms]]
        /\ tombstones \subseteq Entitled
        /\ HoldingOrTombstone
    BY DEF EInv, Typed, Facts
  <1>2. CASE UNCHANGED <<holding, tombstones>>
    BY <1>1, <1>2 DEF Revoked, Active, HoldingOrTombstone
  <1>3. ASSUME NEW job \in Jobs,
               job.kind = "grant", tombstones' = tombstones,
               holding[job.entitlement].status = "NONE", job.entitlement \notin tombstones,
               holding' = [holding EXCEPT ![job.entitlement] =
                            [status |-> "ACTIVE", terms |-> {job.terms}]]
        PROVE  /\ Revoked(e) => Revoked(e)' /\ ~Active(e)'
               /\ e \in tombstones => e \in tombstones'
               /\ holding[e].status # "NONE" => holding'[e].terms = holding[e].terms
               /\ holding[e].status = "NONE" => \/ holding'[e] = holding[e]
                                                \/ holding'[e].status = "ACTIVE"
    <2>1. CASE e = job.entitlement
      BY <1>1, <1>3, <2>1 DEF Revoked, Active
    <2>2. CASE e # job.entitlement
      <3>1. holding'[e] = holding[e]
        BY <1>1, <1>3, <2>2
      <3> QED BY <1>1, <1>3, <3>1 DEF Revoked, Active, HoldingOrTombstone
    <2> QED BY <2>1, <2>2
  <1>4. ASSUME NEW x \in Entitled,
               holding[x].status = "NONE", tombstones' = tombstones \cup {x}, holding' = holding
        PROVE  /\ Revoked(e) => Revoked(e)' /\ ~Active(e)'
               /\ e \in tombstones => e \in tombstones'
               /\ holding[e].status # "NONE" => holding'[e].terms = holding[e].terms
               /\ holding[e].status = "NONE" => \/ holding'[e] = holding[e]
                                                \/ holding'[e].status = "ACTIVE"
    BY <1>1, <1>4 DEF Revoked, Active, HoldingOrTombstone
  <1>5. ASSUME NEW x \in Entitled,
               holding[x].status = "ACTIVE", tombstones' = tombstones,
               holding' = [holding EXCEPT ![x].status = "REVOKED"]
        PROVE  /\ Revoked(e) => Revoked(e)' /\ ~Active(e)'
               /\ e \in tombstones => e \in tombstones'
               /\ holding[e].status # "NONE" => holding'[e].terms = holding[e].terms
               /\ holding[e].status = "NONE" => \/ holding'[e] = holding[e]
                                                \/ holding'[e].status = "ACTIVE"
    <2>1. holding'[e].terms = holding[e].terms
      BY <1>1, <1>5
    <2>2. IF e = x THEN holding'[e].status = "REVOKED" ELSE holding'[e] = holding[e]
      BY <1>1, <1>5
    <2> QED BY <1>1, <1>5, <2>1, <2>2 DEF Revoked, Active, HoldingOrTombstone
  <1> QED BY <1>2, <1>3, <1>4, <1>5, RowsChange DEF RowsChanged

-----------------------------------------------------------------------------
(* The inbox                                                                *)

Statuses == {"NONE", "PENDING", "PROCESSING", "FAILED", "SUCCEEDED", "DEAD"}
Rows == [status : Statuses, attempts : Nat, body : Bodies \cup {NoBody}]
Requests == [pc : {"idle", "find", "create", "findAgain", "claim"} \cup Processing,
             event : Events \cup {NoEvent}, body : Bodies \cup {NoBody}]

(* What a request knows of the row of its event *)
Knows(r, row) ==
  /\ r.pc \in {"claim", "handle", "fail"} => row.status # "NONE" /\ row.body = r.body
  /\ r.pc = "findAgain" => row.status # "NONE"
  /\ r.pc = "handle" => row.status = "PROCESSING"
  /\ r.pc = "fail" => row.status \in {"PROCESSING", "SUCCEEDED"}

CountOK(row) ==
  /\ row.attempts <= MaxAttempts
  /\ row.status = "DEAD" => row.attempts = MaxAttempts
  /\ row.status \in {"NONE", "PENDING", "FAILED"} => row.attempts < MaxAttempts

WorksOn(w, e) == work[w].pc \in Processing /\ work[w].event = e

InboxTyped ==
  /\ inbound \in [Events -> Rows]
  /\ work \in [Workers -> Requests]
  /\ \A w \in Workers : work[w].pc # "idle" => work[w].event \in Events /\ work[w].body \in Bodies
  /\ abandoned \subseteq Events

Known == \A w \in Workers : work[w].pc # "idle" => Knows(work[w], inbound[work[w].event])
Alone == \A v, w \in Workers : \A e \in Events : WorksOn(v, e) /\ WorksOn(w, e) => v = w
Owned == \A e \in Events : inbound[e].status = "PROCESSING" =>
            e \in abandoned \/ \E w \in Workers : WorksOn(w, e)
Counted == \A e \in Events : CountOK(inbound[e])

InboxInv == InboxTyped /\ Known /\ Alone /\ Owned /\ Counted

LEMMA InboxInitially == Init => InboxInv
  <1> SUFFICES ASSUME Init PROVE InboxInv
    OBVIOUS
  <1> USE DEF Init, InitInbox, NoWork
  <1>1. inbound \in [Events -> Rows]
    BY DEF Rows, Statuses
  <1>2. work \in [Workers -> Requests]
    BY DEF Requests
  <1>3. \A w \in Workers : work[w].pc = "idle"
    OBVIOUS
  <1>4. \A e \in Events : inbound[e].status = "NONE" /\ inbound[e].attempts = 0
    OBVIOUS
  <1>5. InboxTyped /\ Known
    BY <1>1, <1>2, <1>3 DEF InboxTyped, Known
  <1>6. Alone
    BY <1>3 DEF Alone, WorksOn, Processing
  <1>7. Owned
    BY <1>4 DEF Owned
  <1>8. Counted
    BY <1>4, MaxAttemptsAssumption DEF Counted, CountOK
  <1> QED BY <1>5, <1>6, <1>7, <1>8 DEF InboxInv

(* A request goes on without a change of rows. *)
LEMMA Reads ==
  ASSUME InboxInv, NEW w \in Workers, NEW r \in Requests,
         work' = [work EXCEPT ![w] = r], inbound' = inbound,
         abandoned \subseteq abandoned', abandoned' \subseteq Events,
         r.pc # "idle" => r.event \in Events /\ r.body \in Bodies /\ Knows(r, inbound[r.event]),
         r.pc \in Processing => WorksOn(w, r.event),
         \A e \in Events : WorksOn(w, e) =>
           \/ inbound[e].status # "PROCESSING" \/ e \in abandoned'
           \/ r.pc \in Processing /\ r.event = e
  PROVE  InboxInv'
  <1>1. work'[w] = r /\ \A v \in Workers \ {w} : work'[v] = work[v]
    BY DEF InboxInv, InboxTyped
  <1>2. work' \in [Workers -> Requests]
    BY DEF InboxInv, InboxTyped
  <1>3. InboxTyped'
    BY <1>1, <1>2 DEF InboxInv, InboxTyped
  <1>4. Known'
    BY <1>1 DEF InboxInv, Known
  <1>5. \A v \in Workers : \A e \in Events : WorksOn(v, e)' => WorksOn(v, e)
    BY <1>1 DEF WorksOn
  <1>6. Alone'
    BY <1>5 DEF InboxInv, Alone
  <1>7. Owned'
    BY <1>1 DEF InboxInv, Owned, WorksOn
  <1>8. Counted'
    BY DEF InboxInv, Counted
  <1> QED BY <1>3, <1>4, <1>6, <1>7, <1>8 DEF InboxInv

(* A request writes the row of its event. *)
Written(w, r, e, row) ==
  /\ work' = [work EXCEPT ![w] = r]
  /\ inbound' = [inbound EXCEPT ![e] = row]
  /\ abandoned' = abandoned

Fits(w, r, e, row) ==
  /\ r.pc # "idle" => r.event = e /\ r.body \in Bodies /\ Knows(r, row)
  /\ \A v \in Workers \ {w} :
       work[v].pc # "idle" /\ work[v].event = e => Knows(work[v], row)
  /\ r.pc \in Processing => \A v \in Workers \ {w} : ~WorksOn(v, e)
  /\ row.status = "PROCESSING" => r.pc \in Processing
  /\ CountOK(row)

LEMMA WritesRow ==
  ASSUME InboxInv, NEW w \in Workers, NEW r \in Requests, NEW row \in Rows,
         NEW e \in Events, work[w].event = e, Written(w, r, e, row), Fits(w, r, e, row)
  PROVE  InboxInv'
  <1> USE DEF Written, Fits
  <1>1. work'[w] = r /\ \A v \in Workers \ {w} : work'[v] = work[v]
    BY DEF InboxInv, InboxTyped
  <1>2. inbound'[e] = row /\ \A x \in Events \ {e} : inbound'[x] = inbound[x]
    BY DEF InboxInv, InboxTyped
  <1>3. InboxTyped'
    <2>1. work' \in [Workers -> Requests] /\ inbound' \in [Events -> Rows]
      BY DEF InboxInv, InboxTyped
    <2> QED BY <1>1, <2>1 DEF InboxInv, InboxTyped
  <1>4. Known'
    <2> SUFFICES ASSUME NEW v \in Workers, work'[v].pc # "idle"
                 PROVE  Knows(work'[v], inbound'[work'[v].event])
      BY DEF Known, Knows
    <2>1. CASE v = w
      BY <1>1, <1>2, <2>1
    <2>2. CASE v # w
      <3>1. work'[v] = work[v] /\ work[v].event \in Events
        BY <1>1, <2>2 DEF InboxInv, InboxTyped
      <3>2. CASE work[v].event = e
        BY <1>2, <2>2, <3>1, <3>2
      <3>3. CASE work[v].event # e
        BY <1>2, <3>1, <3>3 DEF InboxInv, Known
      <3> QED BY <3>2, <3>3
    <2> QED BY <2>1, <2>2
  <1>5. Alone'
    BY <1>1 DEF InboxInv, Alone, WorksOn, Processing
  <1>6. Owned'
    BY <1>1, <1>2 DEF InboxInv, Owned, WorksOn, Processing
  <1>7. Counted'
    BY <1>2 DEF InboxInv, Counted, CountOK
  <1> QED BY <1>3, <1>4, <1>5, <1>6, <1>7 DEF InboxInv

At(w, pc) == [pc |-> pc, event |-> work[w].event, body |-> work[w].body]

LEMMA Busy ==
  ASSUME InboxTyped, NEW w \in Workers, work[w].pc # "idle"
  PROVE  /\ work[w].event \in Events /\ work[w].body \in Bodies
         /\ inbound[work[w].event] \in Rows
         /\ \A pc \in {"find", "create", "findAgain", "claim", "handle", "fail"} :
              /\ At(w, pc) \in Requests
              /\ Continue(w, pc) => work' = [work EXCEPT ![w] = At(w, pc)]
         /\ NoWork \in Requests
  BY DEF InboxTyped, At, Requests, Processing, Continue, NoWork

(* A request ends, or goes on, outside of the handler. *)
LEMMA Ends ==
  ASSUME InboxInv, NEW w \in Workers, work[w].pc \notin {"idle", "handle", "fail"},
         EndRequest(w), UnchangedRows
  PROVE  InboxInv'
  <1>1. NoWork \in Requests /\ NoWork.pc = "idle"
    BY Busy DEF InboxInv, NoWork
  <1>2. \A e \in Events : ~WorksOn(w, e)
    BY DEF WorksOn, Processing
  <1>3. abandoned \subseteq Events
    BY DEF InboxInv, InboxTyped
  <1>4. work' = [work EXCEPT ![w] = NoWork] /\ inbound' = inbound /\ abandoned' = abandoned
    BY DEF EndRequest, UnchangedRows
  <1>5. NoWork.pc \notin Processing
    BY <1>1 DEF Processing
  <1> HIDE DEF NoWork
  <1> QED BY <1>1, <1>2, <1>3, <1>4, <1>5, Reads

LEMMA Proceeds ==
  ASSUME InboxInv, NEW w \in Workers, work[w].pc \notin {"idle", "handle", "fail"},
         NEW pc \in {"create", "findAgain", "claim"}, Continue(w, pc), UnchangedRows,
         pc \in {"findAgain", "claim"} => inbound[work[w].event].status # "NONE",
         pc = "claim" => inbound[work[w].event].body = work[w].body
  PROVE  InboxInv'
  <1> DEFINE r == At(w, pc)
  <1>1. /\ r \in Requests /\ work' = [work EXCEPT ![w] = r]
        /\ r.event \in Events /\ r.body \in Bodies
    BY Busy DEF InboxInv, At
  <1>2. \A e \in Events : ~WorksOn(w, e)
    BY DEF WorksOn, Processing
  <1>3. abandoned \subseteq Events
    BY DEF InboxInv, InboxTyped
  <1>4. Knows(r, inbound[r.event])
    BY DEF Knows, At
  <1>5. r.pc \notin Processing
    BY DEF Processing, At
  <1>6. inbound' = inbound /\ abandoned' = abandoned
    BY DEF UnchangedRows
  <1> HIDE DEF r
  <1> QED BY <1>1, <1>2, <1>3, <1>4, <1>5, <1>6, Reads

LEMMA DeliverStep ==
  ASSUME InboxInv, NEW w \in Workers, NEW d \in Deliveries, Deliver(w, d)
  PROVE  InboxInv'
  <1> DEFINE r == [pc |-> "find", event |-> d[1], body |-> d[2]]
  <1>1. d[1] \in Events /\ d[2] \in Bodies
    BY DeliveriesAssumption
  <1>2. r \in Requests /\ r.pc \notin Processing /\ Knows(r, inbound[r.event])
    BY <1>1 DEF Requests, Processing, Knows
  <1>3. \A e \in Events : ~WorksOn(w, e)
    BY DEF Deliver, WorksOn, Processing
  <1>4. abandoned \subseteq Events
    BY DEF InboxInv, InboxTyped
  <1>5. work' = [work EXCEPT ![w] = r] /\ inbound' = inbound /\ abandoned' = abandoned
    BY DEF Deliver, UnchangedRows
  <1>6. r.event \in Events /\ r.body \in Bodies
    BY <1>1
  <1> HIDE DEF r
  <1> QED BY <1>2, <1>3, <1>4, <1>5, <1>6, Reads

LEMMA FindStep ==
  ASSUME InboxInv, NEW w \in Workers, Find(w)
  PROVE  InboxInv'
  <1>1. work[w].pc \notin {"idle", "handle", "fail"}
    BY DEF Find
  <1>2. /\ UnchangedRows
        /\ \/ Continue(w, "create")
           \/ EndRequest(w)
           \/ Continue(w, "claim") /\ RowOf(w).status # "NONE" /\ RowOf(w).body = work[w].body
    BY DEF Find
  <1>3. CASE Continue(w, "create")
    BY <1>1, <1>2, <1>3, Proceeds
  <1>4. CASE EndRequest(w)
    BY <1>1, <1>2, <1>4, Ends
  <1>5. CASE Continue(w, "claim") /\ RowOf(w).status # "NONE" /\ RowOf(w).body = work[w].body
    BY <1>1, <1>2, <1>5, Proceeds DEF RowOf
  <1> QED BY <1>2, <1>3, <1>4, <1>5

LEMMA FindAgainStep ==
  ASSUME InboxInv, NEW w \in Workers, FindAgain(w)
  PROVE  InboxInv'
  <1>1. work[w].pc \notin {"idle", "handle", "fail"} /\ UnchangedRows
    BY DEF FindAgain
  <1>2. CASE SameBody(w)
    <2>1. Continue(w, "claim") /\ inbound[work[w].event].body = work[w].body
      BY <1>2 DEF FindAgain, SameBody, RowOf
    <2>2. inbound[work[w].event].status # "NONE"
      BY DEF FindAgain, InboxInv, Known, Knows
    <2> QED BY <1>1, <2>1, <2>2, Proceeds
  <1>3. CASE ~SameBody(w)
    BY <1>1, <1>3, Ends DEF FindAgain
  <1> QED BY <1>2, <1>3

LEMMA ClaimFailsStep ==
  ASSUME InboxInv, NEW w \in Workers, ClaimFails(w)
  PROVE  InboxInv'
  <1>1. work[w].pc \notin {"idle", "handle", "fail"}
    BY DEF ClaimFails
  <1> QED BY <1>1, Ends DEF ClaimFails

LEMMA CreateStep ==
  ASSUME InboxInv, NEW w \in Workers, Create(w)
  PROVE  InboxInv'
  <1> DEFINE e == work[w].event
             row == [status |-> "PENDING", attempts |-> 0, body |-> work[w].body]
             r == At(w, "claim")
  <1>1. work[w].pc = "create"
    BY DEF Create
  <1>2. CASE inbound[e].status = "NONE"
    <2>1. /\ e \in Events /\ work[w].body \in Bodies /\ r \in Requests
          /\ Continue(w, "claim") => work' = [work EXCEPT ![w] = r]
      BY <1>1, Busy DEF InboxInv
    <2>2. /\ inbound' = [inbound EXCEPT ![e] = row] /\ work' = [work EXCEPT ![w] = r]
          /\ abandoned' = abandoned
      BY <1>2, <2>1 DEF Create, RowOf
    <2>3. row \in Rows /\ CountOK(row) /\ row.status # "PROCESSING"
      BY <2>1, MaxAttemptsAssumption DEF Rows, Statuses, CountOK
    <2>4. r.event = e /\ r.body \in Bodies /\ Knows(r, row) /\ r.pc \notin Processing
      BY <2>1 DEF At, Knows, Processing
    <2>5. \A v \in Workers \ {w} : work[v].pc # "idle" /\ work[v].event = e => Knows(work[v], row)
      BY <1>2 DEF InboxInv, Known, Knows
    <2> HIDE DEF e, row, r
    <2>6. work[w].event = e
      BY DEF e
    <2>7. Written(w, r, e, row)
      BY <2>2 DEF Written
    <2>8. Fits(w, r, e, row)
      BY <2>3, <2>4, <2>5 DEF Fits
    <2> QED BY <2>1, <2>3, <2>6, <2>7, <2>8, WritesRow
  <1>3. CASE inbound[e].status # "NONE"
    <2>1. Continue(w, "findAgain") /\ UnchangedRows
      BY <1>3 DEF Create, RowOf, UnchangedRows
    <2> QED BY <1>1, <1>3, <2>1, Proceeds
  <1> QED BY <1>2, <1>3

LEMMA ClaimStep ==
  ASSUME InboxInv, NEW w \in Workers, Claim(w)
  PROVE  InboxInv'
  <1> DEFINE e == work[w].event
             old == inbound[e]
             row == [status |-> "PROCESSING", attempts |-> old.attempts + 1, body |-> old.body]
             r == At(w, "handle")
  <1>1. work[w].pc = "claim" /\ old.status \in {"PENDING", "FAILED"}
    BY DEF Claim, Claimable, RowOf
  <1>2. /\ e \in Events /\ work[w].body \in Bodies /\ r \in Requests /\ old \in Rows
        /\ Continue(w, "handle") => work' = [work EXCEPT ![w] = r]
    BY <1>1, Busy DEF InboxInv
  <1>3. /\ inbound' = [inbound EXCEPT ![e] = row] /\ work' = [work EXCEPT ![w] = r]
        /\ abandoned' = abandoned
    BY <1>2 DEF Claim
  <1>4. old.body = work[w].body
    BY <1>1 DEF InboxInv, Known, Knows
  <1>5. row \in Rows
    BY <1>2 DEF Rows, Statuses
  <1>6. CountOK(row)
    BY <1>1, <1>2, MaxAttemptsAssumption DEF InboxInv, Counted, CountOK, Rows
  <1>7. r.event = e /\ r.body \in Bodies /\ Knows(r, row) /\ r.pc \in Processing
    BY <1>2, <1>4 DEF At, Knows, Processing
  <1>8. ASSUME NEW v \in Workers, work[v].pc # "idle", work[v].event = e
        PROVE  Knows(work[v], row) /\ ~WorksOn(v, e)
    <2>1. Knows(work[v], old)
      BY <1>8 DEF InboxInv, Known
    <2> QED BY <1>1, <2>1 DEF Knows, WorksOn, Processing
  <1>9. \A v \in Workers : work[v].pc = "idle" => ~WorksOn(v, e)
    BY DEF WorksOn, Processing
  <1>10. \A v \in Workers : ~WorksOn(v, e)
    BY <1>8, <1>9 DEF WorksOn
  <1> HIDE DEF e, row, r
  <1>11. work[w].event = e
    BY DEF e
  <1>12. Written(w, r, e, row)
    BY <1>3 DEF Written
  <1>13. Fits(w, r, e, row)
    BY <1>6, <1>7, <1>8, <1>10 DEF Fits
  <1> QED BY <1>2, <1>5, <1>11, <1>12, <1>13, WritesRow

(* While one request works on an event, what the others know of it stays.    *)
LEMMA OthersKnow ==
  ASSUME InboxInv, NEW w \in Workers, NEW e \in Events, WorksOn(w, e), NEW row \in Rows,
         row.status # "NONE", row.body = inbound[e].body,
         NEW v \in Workers \ {w}, work[v].pc # "idle", work[v].event = e
  PROVE  Knows(work[v], row)
  <1>1. ~WorksOn(v, e)
    BY DEF InboxInv, Alone
  <1>2. Knows(work[v], inbound[e])
    BY DEF InboxInv, Known
  <1> QED BY <1>1, <1>2 DEF Knows, WorksOn, Processing

LEMMA StatusWritten ==
  ASSUME InboxTyped, NEW e \in Events, NEW status,
         inbound' = [inbound EXCEPT ![e].status = status]
  PROVE  inbound' = [inbound EXCEPT ![e] =
           [status |-> status, attempts |-> inbound[e].attempts, body |-> inbound[e].body]]
  <1>1. inbound[e] \in Rows
    BY DEF InboxTyped
  <1>2. [inbound[e] EXCEPT !.status = status]
          = [status |-> status, attempts |-> inbound[e].attempts, body |-> inbound[e].body]
    BY <1>1 DEF Rows
  <1>3. inbound' = [inbound EXCEPT ![e] = [inbound[e] EXCEPT !.status = status]]
    OBVIOUS
  <1> QED BY <1>2, <1>3

(* The request that works on an event writes how it ended, and ends or goes  *)
(* on to record a failure.                                                   *)
Settled(w, r, status) ==
  /\ inbound' = [inbound EXCEPT ![work[w].event].status = status]
  /\ work' = [work EXCEPT ![w] = r]
  /\ abandoned' = abandoned

SettledRow(w, status) ==
  [status |-> status, attempts |-> inbound[work[w].event].attempts,
   body |-> inbound[work[w].event].body]

LEMMA Settles ==
  ASSUME InboxInv, NEW w \in Workers, work[w].pc \in Processing,
         NEW status \in {"SUCCEEDED", "FAILED", "DEAD"}, NEW r \in Requests,
         Settled(w, r, status),
         r.pc = "idle" \/ (r = At(w, "fail") /\ status = "SUCCEEDED"),
         CountOK(inbound[work[w].event]) => CountOK(SettledRow(w, status))
  PROVE  InboxInv'
  <1> DEFINE e == work[w].event
             row == SettledRow(w, status)
  <1> USE DEF Settled, SettledRow
  <1>1. work[w].pc # "idle"
    BY DEF Processing
  <1>2. e \in Events /\ inbound[e] \in Rows /\ work[w].body \in Bodies
    BY <1>1, Busy DEF InboxInv
  <1>3. inbound' = [inbound EXCEPT ![e] = row]
    BY <1>2, StatusWritten DEF InboxInv
  <1>4. row \in Rows /\ row.status \notin {"NONE", "PROCESSING"} /\ row.body = inbound[e].body
    BY <1>2 DEF Rows, Statuses
  <1>5. CountOK(row)
    BY <1>2 DEF InboxInv, Counted
  <1>6. WorksOn(w, e) /\ \A v \in Workers \ {w} : ~WorksOn(v, e)
    BY <1>2 DEF WorksOn, InboxInv, Alone
  <1>7. r.pc # "idle" => r.event = e /\ r.body \in Bodies /\ Knows(r, row)
    <2>1. inbound[e].body = work[w].body
      BY <1>1 DEF InboxInv, Known, Knows, Processing
    <2> QED BY <1>2, <2>1 DEF At, Knows
  <1> HIDE DEF e, row
  <1>8. work[w].event = e
    BY DEF e
  <1>9. \A v \in Workers \ {w} : work[v].pc # "idle" /\ work[v].event = e => Knows(work[v], row)
    BY <1>2, <1>4, <1>6, OthersKnow
  <1>10. Written(w, r, e, row)
    BY <1>3 DEF Written
  <1>11. Fits(w, r, e, row)
    BY <1>4, <1>5, <1>6, <1>7, <1>9 DEF Fits
  <1> QED BY <1>2, <1>4, <1>8, <1>10, <1>11, WritesRow

LEMMA MarkSucceededStep ==
  ASSUME InboxInv, NEW w \in Workers, MarkSucceeded(w)
  PROVE  InboxInv'
  <1>1. work[w].pc \in Processing /\ work[w].pc # "idle"
    BY DEF MarkSucceeded, Processing
  <1>2. NoWork \in Requests /\ NoWork.pc = "idle"
    BY <1>1, Busy DEF InboxInv, NoWork
  <1>3. Settled(w, NoWork, "SUCCEEDED")
    BY DEF MarkSucceeded, Marked, EndRequest, Settled
  <1>4. CountOK(inbound[work[w].event]) => CountOK(SettledRow(w, "SUCCEEDED"))
    BY DEF CountOK, SettledRow
  <1> HIDE DEF NoWork
  <1> QED BY <1>1, <1>2, <1>3, <1>4, Settles

LEMMA ThrowsStep ==
  ASSUME InboxInv, NEW w \in Workers, work[w].pc = "handle",
         Continue(w, "fail"), UnchangedRows
  PROVE  InboxInv'
  <1> DEFINE r == At(w, "fail")
  <1>1. /\ r \in Requests /\ work' = [work EXCEPT ![w] = r]
        /\ r.event \in Events /\ r.body \in Bodies
    BY Busy DEF InboxInv, At
  <1>2. Knows(r, inbound[r.event])
    BY DEF InboxInv, Known, Knows, At
  <1>3. r.pc \in Processing /\ \A e \in Events : WorksOn(w, e) => r.event = e
    BY DEF At, Processing, WorksOn
  <1>4. WorksOn(w, r.event)
    BY DEF At, WorksOn, Processing
  <1>5. inbound' = inbound /\ abandoned' = abandoned /\ abandoned \subseteq Events
    BY DEF UnchangedRows, InboxInv, InboxTyped
  <1> HIDE DEF r
  <1> QED BY <1>1, <1>2, <1>3, <1>4, <1>5, Reads

LEMMA MarkFailsStep ==
  ASSUME InboxInv, NEW w \in Workers, MarkFails(w)
  PROVE  InboxInv'
  <1>1. work[w].pc = "handle" /\ work[w].pc \in Processing /\ work[w].pc # "idle"
    BY DEF MarkFails, Processing
  <1>2. CASE UNCHANGED inbound
    BY <1>1, <1>2, ThrowsStep DEF MarkFails, UnchangedRows
  <1>3. CASE Marked(w)
    <2>1. At(w, "fail") \in Requests /\ work' = [work EXCEPT ![w] = At(w, "fail")]
      BY <1>1, Busy DEF InboxInv, MarkFails
    <2>2. Settled(w, At(w, "fail"), "SUCCEEDED")
      BY <1>3, <2>1 DEF MarkFails, Marked, Settled
    <2>3. CountOK(inbound[work[w].event]) => CountOK(SettledRow(w, "SUCCEEDED"))
      BY DEF CountOK, SettledRow
    <2> QED BY <1>1, <2>1, <2>2, <2>3, Settles
  <1> QED BY <1>2, <1>3 DEF MarkFails

LEMMA RecordFailureStep ==
  ASSUME InboxInv, NEW w \in Workers, RecordFailure(w)
  PROVE  InboxInv'
  <1>1. work[w].pc \in Processing /\ work[w].pc # "idle"
    BY DEF RecordFailure, Processing
  <1>2. NoWork \in Requests /\ NoWork.pc = "idle"
    BY <1>1, Busy DEF InboxInv, NoWork
  <1>3. PICK status : status = FailureStatus(RowOf(w))
    OBVIOUS
  <1>4. Settled(w, NoWork, status)
    BY <1>3 DEF RecordFailure, EndRequest, Settled
  <1>5. /\ status \in {"DEAD", "FAILED"}
        /\ status = "DEAD" <=> inbound[work[w].event].attempts >= MaxAttempts
    BY <1>3 DEF FailureStatus, Exhausted, RowOf
  <1>6. /\ inbound[work[w].event].attempts \in Nat
        /\ inbound[work[w].event].attempts <= MaxAttempts
    BY <1>1, Busy DEF InboxInv, Counted, CountOK, Rows
  <1>7. CountOK(SettledRow(w, status))
    BY <1>5, <1>6, MaxAttemptsAssumption DEF CountOK, SettledRow
  <1> HIDE DEF NoWork
  <1>8. CASE status = "DEAD"
    <2>1. Settled(w, NoWork, "DEAD") /\ CountOK(SettledRow(w, "DEAD"))
      BY <1>4, <1>7, <1>8
    <2> QED BY <1>1, <1>2, <2>1, Settles
  <1>9. CASE status = "FAILED"
    <2>1. Settled(w, NoWork, "FAILED") /\ CountOK(SettledRow(w, "FAILED"))
      BY <1>4, <1>7, <1>9
    <2> QED BY <1>1, <1>2, <2>1, Settles
  <1> QED BY <1>5, <1>8, <1>9

LEMMA CrashStep ==
  ASSUME InboxInv, NEW w \in Workers, Crash(w)
  PROVE  InboxInv'
  <1>1. work[w].pc # "idle" /\ work[w].event \in Events /\ NoWork \in Requests
    BY Busy DEF Crash, InboxInv
  <1>2. /\ work' = [work EXCEPT ![w] = NoWork] /\ inbound' = inbound
        /\ abandoned \subseteq abandoned' /\ abandoned' \subseteq Events
        /\ work[w].pc \in Processing => work[w].event \in abandoned'
    BY <1>1 DEF Crash, EndRequest, InboxInv, InboxTyped
  <1>3. \A e \in Events : WorksOn(w, e) => e \in abandoned'
    BY <1>2 DEF WorksOn
  <1>4. NoWork.pc = "idle" /\ NoWork.pc \notin Processing
    BY DEF NoWork, Processing
  <1> HIDE DEF NoWork
  <1> QED BY <1>1, <1>2, <1>3, <1>4, Reads

-----------------------------------------------------------------------------
(* Every step                                                               *)

Inv == EInv /\ InboxInv

LEMMA RequestStep ==
  ASSUME InboxInv, NEW w \in Workers, Request(w)
  PROVE  InboxInv'
  BY FindStep, CreateStep, FindAgainStep, ClaimFailsStep, RecordFailureStep DEF Request

LEMMA InboxUnchanged ==
  ASSUME InboxInv, UNCHANGED inboxVars
  PROVE  InboxInv'
  <1> USE DEF inboxVars
  <1>1. InboxTyped' /\ Known'
    BY DEF InboxInv, InboxTyped, Known
  <1>2. Alone' /\ Owned' /\ Counted'
    BY DEF InboxInv, Alone, Owned, Counted, WorksOn
  <1> QED BY <1>1, <1>2 DEF InboxInv

LEMMA HandlerEndsInbox ==
  ASSUME InboxInv, NEW w \in Workers, HandlerEnds(w)
  PROVE  InboxInv'
  <1>1. CASE MarkSucceeded(w)
    BY <1>1, MarkSucceededStep
  <1>2. CASE MarkFails(w)
    BY <1>2, MarkFailsStep
  <1>3. CASE HandlerThrows(w)
    BY <1>3, ThrowsStep DEF HandlerThrows
  <1> QED BY <1>1, <1>2, <1>3 DEF HandlerEnds

LEMMA NextInbox ==
  ASSUME InboxInv, [Next]_vars
  PROVE  InboxInv'
  <1>1. ASSUME NEW w \in Workers, Receive(w) PROVE InboxInv'
    BY <1>1, DeliverStep DEF Receive
  <1>2. ASSUME NEW w \in Workers, Inbox(w) PROVE InboxInv'
    BY <1>2, RequestStep DEF Inbox
  <1>3. ASSUME NEW w \in Workers, Dispatch(w) PROVE InboxInv'
    BY <1>3, ClaimStep DEF Dispatch
  <1>4. ASSUME NEW w \in Workers, Handler(w) \/ HandlerFails(w) PROVE InboxInv'
    BY <1>4, InboxUnchanged DEF Handler, HandlerFails
  <1>5. ASSUME NEW w \in Workers, HandlerEnds(w) PROVE InboxInv'
    BY <1>5, HandlerEndsInbox
  <1>6. ASSUME NEW w \in Workers, Dies(w) PROVE InboxInv'
    BY <1>6, CrashStep DEF Dies
  <1>7. CASE AdminStep /\ UNCHANGED inboxVars
    BY <1>7, InboxUnchanged
  <1>8. CASE UNCHANGED vars
    <2>1. UNCHANGED inboxVars
      BY <1>8 DEF vars, inboxVars
    <2> QED BY <2>1, InboxUnchanged
  <1> QED BY <1>1, <1>2, <1>3, <1>4, <1>5, <1>6, <1>7, <1>8 DEF Next, Work

(* Every step is, for the entitlements, one of those above. *)
LEMMA NextEntitlements ==
  ASSUME InboxInv, [Next]_vars
  PROVE  EntitlementStep
  <1>0. Workers \subseteq Callers /\ Admins \subseteq Callers
    BY CallersAssumption
  <1>1. ASSUME NEW w \in Workers, Receive(w) \/ Inbox(w) PROVE EntitlementStep
    BY <1>1 DEF Receive, Inbox, EntitlementStep
  <1>2. ASSUME NEW w \in Workers, Dispatch(w) PROVE EntitlementStep
    <2>1. work[w].body \in Jobs
      BY <1>2, Busy, BodiesAssumption DEF Dispatch, Claim, InboxInv
    <2> QED BY <1>0, <1>2, <2>1 DEF Dispatch, EntitlementStep
  <1>3. ASSUME NEW w \in Workers, Handler(w) \/ HandlerFails(w) PROVE EntitlementStep
    BY <1>0, <1>3 DEF Handler, HandlerFails, EntitlementStep
  <1>4. ASSUME NEW w \in Workers, HandlerEnds(w) \/ Dies(w) PROVE EntitlementStep
    <2>1. Idles(w)
      BY <1>4 DEF HandlerEnds, Return, Dies, Idles
    <2> QED BY <1>0, <2>1 DEF EntitlementStep
  <1>5. CASE AdminStep
    <2>1. ASSUME NEW a \in Admins, NEW e \in Entitled, AdminRevokes(a, e) PROVE EntitlementStep
      <3>1. [kind |-> "revoke", entitlement |-> e] \in Jobs
        BY DEF Jobs
      <3> QED BY <1>0, <2>1, <3>1 DEF AdminRevokes, EntitlementStep
    <2>2. ASSUME NEW a \in Admins, UseCase(a) \/ Throw(a) \/ AdminEnds(a) PROVE EntitlementStep
      BY <1>0, <2>2 DEF EntitlementStep
    <2>3. ASSUME NEW t \in Terms, AdminCreatesAsset(t) PROVE EntitlementStep
      BY <2>3 DEF EntitlementStep
    <2> QED BY <1>5, <2>1, <2>2, <2>3 DEF AdminStep
  <1>6. CASE UNCHANGED vars
    BY <1>6 DEF vars, entitlementVars, EntitlementStep
  <1> QED BY <1>1, <1>2, <1>3, <1>4, <1>5, <1>6 DEF Next, Work

LEMMA NextInv == Inv /\ [Next]_vars => Inv'
  BY NextInbox, NextEntitlements, EntitlementStepInv DEF Inv

LEMMA SpecInv == Spec => []Inv
  <1>1. Init => Inv
    BY Initially, InboxInitially DEF Inv
  <1> QED BY <1>1, NextInv, PTL DEF Spec

-----------------------------------------------------------------------------
(* Theorems                                                                 *)

\* A revocation that meets no holding leaves a tombstone only while it holds
\* the entitlement's lock, so no grant slips in between the two.
THEOREM AlwaysHoldingOrTombstone == Spec => []HoldingOrTombstone
  <1>1. Inv => HoldingOrTombstone
    BY DEF Inv, EInv, Facts
  <1> QED BY <1>1, SpecInv, PTL

\* The audit log has one revocation for every holding that is revoked.
THEOREM AlwaysRevokedOnce == Spec => []RevokedOnce
  <1>1. Inv => RevokedOnce
    BY DEF Inv, EInv, Facts
  <1> QED BY <1>1, SpecInv, PTL

\* What the second lock is for: of the unique indexes only that on the code of
\* a card made by hand can refuse a grant.
THEOREM AlwaysNoUniqueViolation == Spec => []NoUniqueViolation
  <1>1. Inv => NoUniqueViolation
    BY DEF Inv, EInv, CallOK, Relies, NoUniqueViolation, AssetFor
  <1> QED BY <1>1, SpecInv, PTL

\* No step, of whatever request or admin, makes active again what was revoked.
THEOREM AlwaysRevokedStaysRevoked == Spec => RevokedStaysRevoked
  <1>1. Inv /\ [Next]_vars
          => [\A e \in Entitled : Revoked(e) => Revoked(e)' /\ ~Active(e)']_entitlementVars
    BY NextEntitlements, RowsStay DEF Inv
  <1> QED BY <1>1, SpecInv, PTL DEF Spec, RevokedStaysRevoked

\* The claim lets one request at a time through.
THEOREM AlwaysOneWorkerPerEvent == Spec => []OneWorkerPerEvent
  <1>1. Inv => OneWorkerPerEvent
    <2> SUFFICES ASSUME Inv, NEW e \in Events
                 PROVE  /\ Cardinality(WorkersOn(e)) <= 1
                        /\ inbound[e].status = "PROCESSING" => WorkersOn(e) # {} \/ e \in abandoned
      BY DEF OneWorkerPerEvent
    <2>1. \A v, w \in WorkersOn(e) : v = w
      BY DEF Inv, InboxInv, Alone, WorksOn, WorkersOn
    <2>2. CASE WorkersOn(e) = {}
      BY <2>2, FS_EmptySet DEF Inv, InboxInv, Owned, WorksOn, WorkersOn
    <2>3. ASSUME NEW w \in WorkersOn(e) PROVE Cardinality(WorkersOn(e)) = 1
      <3>1. WorkersOn(e) = {w}
        BY <2>1, <2>3
      <3> QED BY <3>1, FS_Singleton
    <2> QED BY <2>2, <2>3
  <1> QED BY <1>1, SpecInv, PTL

\* The hash that is compared, and compared again after a lost race for the row,
\* keeps every other body from the handler.
THEOREM AlwaysFirstBodyOnly == Spec => []FirstBodyOnly
  <1>1. Inv => FirstBodyOnly
    BY DEF Inv, InboxInv, Known, Knows, FirstBodyOnly, Processing, RowOf
  <1> QED BY <1>1, SpecInv, PTL

\* A row is DEAD after the last attempt and before that FAILED.
THEOREM AlwaysGivenUpAfterMaxAttempts == Spec => []GivenUpAfterMaxAttempts
  <1>1. Inv => GivenUpAfterMaxAttempts
    BY DEF Inv, InboxInv, Counted, CountOK, GivenUpAfterMaxAttempts
  <1> QED BY <1>1, SpecInv, PTL

-----------------------------------------------------------------------------
(* What an event that shows SUCCEEDED asked for                             *)

Told(w) == call[w].pc = "done" /\ call[w].outcome \notin Thrown => Accomplished(call[w].job)
Handled(w) == work[w].pc = "handle" => call[w].pc # "idle" /\ call[w].job = work[w].body

TruthInv ==
  /\ \A e \in Entitled : holding[e].status = "NONE" => holding[e].terms = {}
  /\ \A w \in Workers : Told(w) /\ Handled(w)
  /\ \A e \in Events : inbound[e].status = "SUCCEEDED" => inbound[e].body \in Jobs
  /\ SucceededIsAccomplished

LEMMA TruthInitially == Init => TruthInv
  <1> SUFFICES ASSUME Init PROVE TruthInv
    OBVIOUS
  <1> USE DEF Init, InitInbox, InitEntitlements, NoWork, Idle
  <1>1. \A w \in Workers : call[w].pc = "idle" /\ work[w].pc = "idle"
    BY CallersAssumption
  <1>2. \A w \in Workers : Told(w) /\ Handled(w)
    BY <1>1 DEF Told, Handled
  <1> QED BY <1>2 DEF TruthInv, SucceededIsAccomplished

(* What is accomplished stays so. *)
LEMMA StaysAccomplished ==
  ASSUME EInv, EntitlementStep, TruthInv, NEW job \in Jobs, Accomplished(job)
  PROVE  Accomplished(job)'
  <1>1. job.entitlement \in Entitled /\ job.kind \in {"grant", "revoke"}
    BY JobFields
  <1>2. CASE job.kind = "revoke"
    BY <1>1, <1>2, RowsStay DEF Accomplished
  <1>3. CASE job.kind # "revoke"
    <2>1. CASE job.entitlement \in tombstones
      BY <1>1, <1>3, <2>1, RowsStay DEF Accomplished
    <2>2. CASE holding[job.entitlement].terms = {job.terms}
      <3>1. holding[job.entitlement].status # "NONE"
        BY <1>1, <2>2 DEF TruthInv
      <3> QED BY <1>1, <1>3, <2>2, <3>1, RowsStay DEF Accomplished
    <2> QED BY <1>3, <2>1, <2>2 DEF Accomplished
  <1> QED BY <1>2, <1>3

LEMMA NoTermsStep ==
  ASSUME EInv, EntitlementStep, TruthInv, NEW e \in Entitled, holding'[e].status = "NONE"
  PROVE  holding'[e].terms = {}
  <1>1. CASE holding[e].status = "NONE"
    BY <1>1, RowsStay DEF TruthInv
  <1>2. CASE holding[e].status # "NONE"
    <2>1. holding \in [Entitled -> [status : {"NONE", "ACTIVE", "REVOKED"}, terms : SUBSET Terms]]
      BY DEF EInv, Typed
    <2>2. RowsChanged
      BY RowsChange
    <2> QED BY <1>2, <2>1, <2>2 DEF RowsChanged
  <1> QED BY <1>1, <1>2

(* The answer to a request that repeats what is there *)
LEMMA ExistingIsTold ==
  ASSUME NEW job \in Jobs, job.kind = "grant",
         ExistingOutcome(holding[job.entitlement], job) \notin Thrown
  PROVE  Accomplished(job)
  BY DEF ExistingOutcome, Thrown, Accomplished

(* A caller goes on; if it is answered, then truly. *)
Truly(w, job) ==
  /\ call[w].pc = "done" /\ call[w].outcome \notin Thrown => Accomplished(job)
  /\ call[w].pc # "idle" /\ call[w].job = job

LEMMA GoesTruly ==
  ASSUME EInv, NEW w \in Workers, NEW job, job = call[w].job,
         NEW pc, NEW outcome, Goto(w, pc, outcome), pc # "idle",
         pc = "done" /\ outcome \notin Thrown => Accomplished(job)'
  PROVE  Truly(w, job)'
  <1>1. w \in Callers /\ call \in [Callers -> [pc : Places, job : Jobs \cup {NoJob}, outcome : Outcomes]]
    BY CallersAssumption DEF EInv, Typed
  <1>2. call'[w] = [pc |-> pc, job |-> job, outcome |-> outcome]
    BY <1>1 DEF Goto
  <1> QED BY <1>2 DEF Truly

(* The look, the decision and the look after a unique violation answer with  *)
(* what there is.                                                            *)
LEMMA ExistingTruly ==
  ASSUME EInv, NEW w \in Workers, NEW job \in Jobs, job = call[w].job, job.kind = "grant",
         UNCHANGED <<holding, tombstones>>,
         NEW h, h = holding[job.entitlement], Answer(w, ExistingOutcome(h, job))
  PROVE  Truly(w, job)'
  <1>1. PICK o : o = ExistingOutcome(h, job)
    OBVIOUS
  <1>2. Goto(w, "done", o)
    BY <1>1 DEF Answer
  <1>3. o \notin Thrown => Accomplished(job)
    BY <1>1, ExistingIsTold
  <1>4. Accomplished(job) => Accomplished(job)'
    BY DEF Accomplished, Revoked
  <1> QED BY <1>2, <1>3, <1>4, GoesTruly

LEMMA TrulyStep ==
  ASSUME EInv, NEW w \in Workers, NEW job, job = call[w].job, UseCase(w)
  PROVE  Truly(w, job)'
  <1> DEFINE e == job.entitlement
  <1>1. w \in Callers /\ w \notin Admins
    BY CallersAssumption
  <1>2. CallOK(w)
    BY <1>1 DEF EInv
  <1>3. call[w].pc \notin {"idle", "ended"} => job \in Jobs /\ e \in Entitled
    BY <1>2, JobFields DEF CallOK, Relies
  <1>4. CASE Look(w)
    <2>1. job \in Jobs /\ job.kind = "grant" /\ UNCHANGED <<holding, tombstones>>
      BY <1>2, <1>3, <1>4 DEF Look, CallOK, Relies
    <2>2. \/ Goto(w, "lock", "none")
          \/ Answer(w, ExistingOutcome(holding[e], job))
      BY <1>4 DEF Look, EntitlementOf
    <2>3. CASE Goto(w, "lock", "none")
      BY <2>3, GoesTruly
    <2>4. CASE Answer(w, ExistingOutcome(holding[e], job))
      BY <2>1, <2>4, ExistingTruly
    <2> QED BY <2>2, <2>3, <2>4
  <1>5. CASE Lock(w) \/ LockAsset(w) \/ FindAsset(w)
    <2>1. CASE Lock(w)
      BY <2>1, GoesTruly DEF Lock
    <2>2. CASE LockAsset(w)
      BY <2>2, GoesTruly DEF LockAsset
    <2>3. CASE FindAsset(w)
      BY <2>3, GoesTruly DEF FindAsset
    <2> QED BY <1>5, <2>1, <2>2, <2>3
  <1>6. CASE DecideGrant(w)
    <2>1. job \in Jobs /\ job.kind = "grant" /\ UNCHANGED <<holding, tombstones>>
      BY <1>3, <1>6 DEF DecideGrant
    <2>2. \/ Goto(w, "lockAsset", "none")
          \/ Answer(w, ExistingOutcome(holding[e], job))
          \/ Answer(w, "skipped") /\ e \in tombstones
      BY <1>6 DEF DecideGrant, EntitlementOf, GrantMayProceed
    <2>3. CASE Goto(w, "lockAsset", "none")
      BY <2>3, GoesTruly
    <2>4. CASE Answer(w, ExistingOutcome(holding[e], job))
      BY <2>1, <2>4, ExistingTruly
    <2>5. CASE Answer(w, "skipped") /\ e \in tombstones
      <3>1. Accomplished(job)'
        BY <2>1, <2>5 DEF Accomplished
      <3> QED BY <2>5, <3>1, GoesTruly DEF Answer
    <2> QED BY <2>2, <2>3, <2>4, <2>5
  <1>7. CASE WriteGrant(w)
    <2>1. job \in Jobs /\ job.kind = "grant" /\ e \in Entitled
      BY <1>3, <1>7 DEF WriteGrant
    <2>2. CASE Goto(w, "reread", "none")
      BY <2>2, GoesTruly
    <2>3. CASE /\ Answer(w, "granted")
               /\ holding' = [holding EXCEPT ![e] = [status |-> "ACTIVE", terms |-> {job.terms}]]
      <3>1. holding'[e].terms = {job.terms}
        BY <2>1, <2>3 DEF EInv, Typed
      <3>2. Accomplished(job)'
        BY <2>1, <3>1 DEF Accomplished
      <3> QED BY <2>3, <3>2, GoesTruly DEF Answer
    <2> QED BY <1>7, <2>2, <2>3 DEF WriteGrant, EntitlementOf
  <1>8. CASE Reread(w)
    <2>1. job \in Jobs /\ job.kind = "grant" /\ UNCHANGED <<holding, tombstones>>
      BY <1>2, <1>3, <1>8 DEF Reread, CallOK, Relies
    <2>2. \/ Answer(w, ExistingOutcome(holding[e], job))
          \/ Answer(w, "thrown")
      BY <1>8 DEF Reread, EntitlementOf
    <2>3. CASE Answer(w, ExistingOutcome(holding[e], job))
      BY <2>1, <2>3, ExistingTruly
    <2>4. CASE Answer(w, "thrown")
      BY <2>4, GoesTruly DEF Answer, Thrown
    <2> QED BY <2>2, <2>3, <2>4
  <1>9. CASE DecideRevoke(w)
    <2>1. job \in Jobs /\ job.kind = "revoke" /\ UNCHANGED <<holding, tombstones>> /\ e \in Entitled
      BY <1>3, <1>9 DEF DecideRevoke
    <2>2. holding[e].status \in {"NONE", "ACTIVE", "REVOKED"}
      BY <2>1 DEF EInv, Typed
    <2>3. \/ Goto(w, "write", "tombstone") \/ Goto(w, "write", "revoke")
          \/ \E o \in {"tombstoned", "already_revoked"} : Answer(w, o) /\ Revoked(e)
      <3>1. CASE holding[e].status = "NONE"
        BY <1>1, <1>9, <3>1 DEF DecideRevoke, EntitlementOf, Revoked
      <3>2. CASE holding[e].status # "NONE"
        BY <1>9, <2>2, <3>2 DEF DecideRevoke, EntitlementOf, Revocable, Revoked
      <3> QED BY <3>1, <3>2
    <2>4. CASE Goto(w, "write", "tombstone") \/ Goto(w, "write", "revoke")
      BY <2>4, GoesTruly
    <2>5. ASSUME NEW o, Answer(w, o), Revoked(e) PROVE Truly(w, job)'
      <3>1. Accomplished(job)'
        BY <2>1, <2>5 DEF Accomplished, Revoked
      <3> QED BY <2>5, <3>1, GoesTruly DEF Answer
    <2> QED BY <2>3, <2>4, <2>5
  <1>10. CASE WriteTombstone(w)
    <2>1. Answer(w, "tombstoned") /\ tombstones' = tombstones \cup {e} /\ job.kind = "revoke"
      BY <1>2, <1>10 DEF WriteTombstone, EntitlementOf, CallOK, Relies
    <2>2. Accomplished(job)'
      BY <2>1 DEF Accomplished, Revoked
    <2> QED BY <2>1, <2>2, GoesTruly DEF Answer
  <1>11. CASE WriteRevocation(w)
    <2>1. /\ Answer(w, "revoked") /\ job.kind = "revoke" /\ e \in Entitled
          /\ holding' = [holding EXCEPT ![e].status = "REVOKED"]
      BY <1>2, <1>3, <1>11 DEF WriteRevocation, EntitlementOf, CallOK, Relies
    <2>2. holding'[e].status = "REVOKED"
      BY <2>1 DEF EInv, Typed
    <2>3. Accomplished(job)'
      BY <2>1, <2>2 DEF Accomplished, Revoked
    <2> QED BY <2>1, <2>3, GoesTruly DEF Answer
  <1> QED BY <1>4, <1>5, <1>6, <1>7, <1>8, <1>9, <1>10, <1>11 DEF UseCase

(* A step that is another's: what was so for v still is. *)
LEMMA StaysTold ==
  ASSUME Inv, TruthInv, EntitlementStep, NEW v \in Workers,
         call'[v] = call[v],
         work'[v].pc = "handle" => work[v].pc = "handle" /\ work'[v].body = work[v].body
  PROVE  Told(v)' /\ Handled(v)'
  <1>1. v \in Callers
    BY CallersAssumption
  <1>2. call[v].pc = "done" => call[v].job \in Jobs
    BY <1>1 DEF Inv, EInv, CallOK, Relies
  <1>3. PICK job : job = call[v].job
    OBVIOUS
  <1>4. job \in Jobs /\ Accomplished(job) => Accomplished(job)'
    BY StaysAccomplished DEF Inv
  <1>5. Told(v) /\ Handled(v)
    BY DEF TruthInv
  <1>6. call'[v].job = job /\ (call'[v].pc = "done" => job \in Jobs)
    BY <1>2, <1>3
  <1>7. call[v].pc = "done" /\ call[v].outcome \notin Thrown => Accomplished(job)
    BY <1>3, <1>5 DEF Told
  <1>8. call'[v].pc = "done" /\ call'[v].outcome \notin Thrown => Accomplished(job)'
    BY <1>4, <1>6, <1>7
  <1>9. Told(v)'
    BY <1>6, <1>8 DEF Told
  <1> QED BY <1>5, <1>9 DEF Handled

(* Of the steps of an inbox only the claim leads to the handler. *)
LEMMA Elsewhere ==
  ASSUME InboxTyped, NEW w \in Workers, NEW v \in Workers
  PROVE  /\ \A pc : v # w /\ (Continue(w, pc) \/ EndRequest(w)) => work'[v] = work[v]
         /\ EndRequest(w) => work'[w].pc = "idle"
         /\ \A pc : Continue(w, pc) => work'[w].pc = pc
         /\ Request(w) => work'[w].pc # "handle" /\ (v # w => work'[v] = work[v])
  <1>1. \A pc : Continue(w, pc) => work'[w].pc = pc /\ (v # w => work'[v] = work[v])
    BY DEF InboxTyped, Continue
  <1>2. EndRequest(w) => work'[w].pc = "idle" /\ (v # w => work'[v] = work[v])
    BY DEF InboxTyped, EndRequest, NoWork
  <1>3. Request(w) => \/ Continue(w, "create") \/ Continue(w, "claim") \/ Continue(w, "findAgain")
                      \/ EndRequest(w)
    BY DEF Request, Find, Create, FindAgain, ClaimFails, RecordFailure
  <1> QED BY <1>1, <1>2, <1>3

LEMMA TruthOfAll ==
  ASSUME Inv, TruthInv, [Next]_vars, NEW v \in Workers
  PROVE  Told(v)' /\ Handled(v)'
  <1>1. EntitlementStep
    BY NextEntitlements DEF Inv
  <1>2. /\ v \in Callers /\ v \notin Admins /\ InboxTyped
        /\ call \in [Callers -> [pc : Places, job : Jobs \cup {NoJob}, outcome : Outcomes]]
    BY CallersAssumption DEF Inv, EInv, Typed, InboxInv
  <1>3. CASE call'[v] = call[v] /\ work'[v] = work[v]
    BY <1>1, <1>3, StaysTold
  <1>4. CASE call'[v] = call[v] /\ work'[v].pc # "handle"
    BY <1>1, <1>4, StaysTold
  <1>5. CASE call'[v] = Idle /\ work'[v].pc # "handle"
    BY <1>5 DEF Told, Handled, Idle
  <1>6. ASSUME NEW w \in Workers, Receive(w) \/ Inbox(w) PROVE Told(v)' /\ Handled(v)'
    <2>1. call' = call
      BY <1>6 DEF Receive, Inbox, entitlementVars
    <2>2. CASE Receive(w)
      BY <1>2, <1>3, <1>4, <2>1, <2>2 DEF Receive, Deliver, InboxTyped
    <2>3. CASE Inbox(w)
      BY <1>2, <1>3, <1>4, <2>1, <2>3, Elsewhere DEF Inbox
    <2> QED BY <1>6, <2>2, <2>3
  <1>7. ASSUME NEW w \in Workers, Dispatch(w) PROVE Told(v)' /\ Handled(v)'
    <2>1. w \in Callers
      BY CallersAssumption
    <2>2. CASE v # w
      BY <1>2, <1>3, <1>7, <2>1, <2>2, Elsewhere DEF Dispatch, Claim, Begin
    <2>3. CASE v = w
      <3>1. work'[w].body = work[w].body
        BY <1>2, <1>7 DEF Dispatch, Claim, Continue, InboxTyped
      <3>2. call'[w].pc \in {"look", "lock"} /\ call'[w].job = work[w].body
        BY <1>2, <1>7, <2>1 DEF Dispatch, Begin
      <3> QED BY <2>3, <3>1, <3>2 DEF Told, Handled
    <2> QED BY <2>2, <2>3
  <1>8. ASSUME NEW w \in Workers, UseCase(w) \/ Throw(w), UNCHANGED inboxVars
        PROVE  Told(v)' /\ Handled(v)'
    <2>1. work' = work
      BY <1>8 DEF inboxVars
    <2>2. PICK job : job = call[w].job
      OBVIOUS
    <2>3. Truly(w, job)'
      <3>1. CASE UseCase(w)
        BY <2>2, <3>1, TrulyStep DEF Inv
      <3>2. CASE Throw(w)
        BY <2>2, <3>2, GoesTruly DEF Inv, Throw, Answer, Thrown
      <3> QED BY <1>8, <3>1, <3>2
    <2>4. CASE v # w
      <3>1. call'[v] = call[v]
        BY <1>2, <1>8, <2>4 DEF UseCase, Throw, Answer, Goto, Look, Lock, DecideGrant, LockAsset,
          FindAsset, WriteGrant, Reread, DecideRevoke, WriteTombstone, WriteRevocation
      <3> QED BY <1>3, <2>1, <3>1
    <2>5. CASE v = w
      <3>1. Handled(w)
        BY DEF TruthInv
      <3> QED BY <2>1, <2>2, <2>3, <2>5, <3>1 DEF Told, Handled, Truly, Accomplished
    <2> QED BY <2>4, <2>5
  <1>9. ASSUME NEW w \in Workers, HandlerEnds(w) \/ Dies(w) PROVE Told(v)' /\ Handled(v)'
    <2>1. call' = [call EXCEPT ![w] = Idle] /\ w \in Callers
      BY <1>9, CallersAssumption DEF HandlerEnds, Return, Dies
    <2>2. EndRequest(w) \/ Continue(w, "fail")
      BY <1>9 DEF HandlerEnds, MarkSucceeded, MarkFails, HandlerThrows, Dies, Crash
    <2>3. CASE v # w
      BY <1>2, <1>3, <2>1, <2>2, <2>3, Elsewhere
    <2>4. CASE v = w
      BY <1>2, <1>5, <2>1, <2>2, <2>4, Elsewhere
    <2> QED BY <2>3, <2>4
  <1>10. CASE AdminStep /\ UNCHANGED inboxVars
    <2>1. work' = work
      BY <1>10 DEF inboxVars
    <2>2. call'[v] = call[v]
      BY <1>2, <1>10 DEF AdminStep, AdminRevokes, Begin, AdminCreatesAsset, AdminEnds,
        UseCase, Throw, Answer, Goto, Look, Lock, DecideGrant, LockAsset,
        FindAsset, WriteGrant, Reread, DecideRevoke, WriteTombstone, WriteRevocation
    <2> QED BY <1>3, <2>1, <2>2
  <1>11. CASE UNCHANGED vars
    BY <1>3, <1>11 DEF vars
  <1> QED BY <1>6, <1>7, <1>8, <1>9, <1>10, <1>11 DEF Next, Work, Handler, HandlerFails

(* An event comes to show SUCCEEDED when its handler has returned. *)
LEMMA BecomesSucceeded ==
  ASSUME Inv, [Next]_vars, NEW e \in Events, inbound'[e].status = "SUCCEEDED"
  PROVE  /\ inbound'[e].body = inbound[e].body
         /\ \/ inbound[e].status = "SUCCEEDED"
            \/ \E w \in Workers :
                 /\ work[w].pc = "handle" /\ inbound[e].body = work[w].body
                 /\ call[w].pc = "done" /\ call[w].outcome \notin Thrown
                 /\ UNCHANGED <<holding, tombstones>>
  <1>1. /\ inbound \in [Events -> Rows] /\ InboxTyped
        /\ \A w \in Workers : work[w].pc # "idle" => work[w].event \in Events
    BY DEF Inv, InboxInv, InboxTyped
  <1>2. CASE inbound' = inbound
    BY <1>2
  <1>3. ASSUME NEW w \in Workers, Create(w) \/ Claim(w)
        PROVE  inbound'[e] = inbound[e]
    BY <1>1, <1>3 DEF Create, Claim
  <1>4. ASSUME NEW w \in Workers, RecordFailure(w)
        PROVE  inbound'[e] = inbound[e]
    <2>1. FailureStatus(RowOf(w)) # "SUCCEEDED"
      BY DEF FailureStatus
    <2> QED BY <1>1, <1>4, <2>1 DEF RecordFailure
  <1>5. ASSUME NEW w \in Workers, HandlerEnds(w), inbound' # inbound
        PROVE  /\ inbound'[e].body = inbound[e].body
               /\ \/ inbound[e].status = "SUCCEEDED"
                  \/ /\ work[w].pc = "handle" /\ inbound[e].body = work[w].body
                     /\ call[w].pc = "done" /\ call[w].outcome \notin Thrown
                     /\ UNCHANGED <<holding, tombstones>>
    <2>1. /\ Return(w) /\ Reported(call[w].outcome)
          /\ work[w].pc = "handle" /\ Marked(w)
      BY <1>5 DEF HandlerEnds, MarkSucceeded, MarkFails, HandlerThrows, UnchangedRows
    <2>2. inbound[work[w].event].body = work[w].body
      BY <2>1 DEF Inv, InboxInv, Known, Knows
    <2>3. inbound'[e].body = inbound[e].body /\ (e # work[w].event => inbound'[e] = inbound[e])
      BY <1>1, <2>1 DEF Marked, Rows
    <2> QED BY <2>1, <2>2, <2>3 DEF Return, Reported
  <1>6. \/ inbound' = inbound
        \/ \E w \in Workers : Create(w) \/ Claim(w) \/ RecordFailure(w) \/ HandlerEnds(w)
    <2>1. ASSUME NEW w \in Workers, Receive(w) \/ Handler(w) \/ HandlerFails(w) \/ Dies(w)
          PROVE  inbound' = inbound
      BY <2>1 DEF Receive, Deliver, UnchangedRows, Handler, HandlerFails, Dies, Crash, inboxVars
    <2>2. ASSUME NEW w \in Workers, Inbox(w)
          PROVE  inbound' = inbound \/ Create(w) \/ RecordFailure(w)
      BY <2>2 DEF Inbox, Request, Find, FindAgain, ClaimFails, UnchangedRows
    <2>3. ASSUME NEW w \in Workers, Dispatch(w) PROVE Claim(w)
      BY <2>3 DEF Dispatch
    <2>4. CASE UNCHANGED inboxVars \/ UNCHANGED vars
      BY <2>4 DEF inboxVars, vars
    <2> QED BY <2>1, <2>2, <2>3, <2>4 DEF Next, Work
  <1> QED BY <1>2, <1>3, <1>4, <1>5, <1>6

LEMMA SucceededStep ==
  ASSUME Inv, TruthInv, [Next]_vars, NEW e \in Events, inbound'[e].status = "SUCCEEDED"
  PROVE  /\ Accomplished(inbound[e].body)'
         /\ inbound'[e].body \in Jobs
  <1>1. EntitlementStep /\ EInv
    BY NextEntitlements DEF Inv
  <1>2. PICK job : job = inbound[e].body
    OBVIOUS
  <1>3. inbound'[e].body = job
    BY <1>2, BecomesSucceeded
  <1>4. job \in Jobs /\ Accomplished(job)'
    <2>1. CASE inbound[e].status = "SUCCEEDED"
      <3>1. job \in Jobs /\ Accomplished(job)
        BY <1>2, <2>1 DEF TruthInv, SucceededIsAccomplished
      <3> QED BY <1>1, <3>1, StaysAccomplished
    <2>2. CASE inbound[e].status # "SUCCEEDED"
      <3>1. PICK w \in Workers :
              /\ work[w].pc = "handle" /\ job = work[w].body
              /\ call[w].pc = "done" /\ call[w].outcome \notin Thrown
        BY <1>2, <2>2, BecomesSucceeded
      <3>2. Told(w) /\ Handled(w)
        BY DEF TruthInv
      <3>3. Accomplished(job)
        BY <3>1, <3>2 DEF Told, Handled
      <3>4. job \in Jobs
        BY <3>1, BodiesAssumption DEF Inv, InboxInv, InboxTyped
      <3> QED BY <1>1, <3>3, <3>4, StaysAccomplished
    <2> QED BY <2>1, <2>2
  <1> QED BY <1>3, <1>4 DEF Accomplished

LEMMA TruthStep == Inv /\ TruthInv /\ [Next]_vars => TruthInv'
  <1> SUFFICES ASSUME Inv, TruthInv, [Next]_vars PROVE TruthInv'
    OBVIOUS
  <1>1. EntitlementStep /\ EInv
    BY NextEntitlements DEF Inv
  <1>2. \A e \in Entitled : holding'[e].status = "NONE" => holding'[e].terms = {}
    BY <1>1, NoTermsStep
  <1>3. \A w \in Workers : Told(w)' /\ Handled(w)'
    BY TruthOfAll
  <1>4. \A e \in Events : inbound'[e].status = "SUCCEEDED"
          => inbound'[e].body \in Jobs /\ Accomplished(inbound[e].body)'
    BY SucceededStep
  <1> QED BY <1>2, <1>3, <1>4 DEF TruthInv, SucceededIsAccomplished

\* What the mark on an event says is so: the use case committed before the
\* mark was made, its answer is what it found under the entitlement's lock, and
\* no later step undoes it.
THEOREM AlwaysSucceededIsAccomplished == Spec => []SucceededIsAccomplished
  <1>1. Init => TruthInv
    BY TruthInitially
  <1>2. TruthInv => SucceededIsAccomplished
    BY DEF TruthInv
  <1> QED BY <1>1, <1>2, SpecInv, TruthStep, PTL DEF Spec

-----------------------------------------------------------------------------
(* Types                                                                    *)

AssetsOK == assets \subseteq {AssetOf[t] : t \in Terms} /\ byHand \subseteq assets

LEMMA AssetsStep ==
  ASSUME EInv, AssetsOK, EntitlementStep
  PROVE  AssetsOK'
  <1>1. CASE UNCHANGED <<assets, byHand>>
    BY <1>1 DEF AssetsOK
  <1>2. ASSUME NEW c \in Callers, WriteGrant(c) PROVE AssetsOK'
    <2>1. call[c].job.terms \in Terms
      BY <1>2, JobFields DEF WriteGrant, EInv, CallOK, Relies
    <2> QED BY <1>2, <2>1 DEF WriteGrant, AssetsOK, AssetFor
  <1>3. ASSUME NEW t \in Terms, AdminCreatesAsset(t) PROVE AssetsOK'
    BY <1>3 DEF AdminCreatesAsset, AssetsOK
  <1>4. ASSUME NEW c \in Callers, UseCase(c) PROVE UNCHANGED <<assets, byHand>> \/ WriteGrant(c)
    BY <1>4 DEF UseCase, Look, Lock, DecideGrant, LockAsset, FindAsset, Reread,
      DecideRevoke, WriteTombstone, WriteRevocation
  <1>5. ASSUME NEW c \in Callers,
               Throw(c) \/ Idles(c) \/ AdminEnds(c) \/ \E job \in Jobs : Begin(c, job)
        PROVE  UNCHANGED <<assets, byHand>>
    BY <1>5 DEF Throw, Idles, AdminEnds, Begin
  <1>6. CASE UNCHANGED entitlementVars
    BY <1>1, <1>6 DEF entitlementVars
  <1> QED BY <1>1, <1>2, <1>3, <1>4, <1>5, <1>6 DEF EntitlementStep

\* Every record and every place a request or admin can be at is of its type.
THEOREM AlwaysTypeOK == Spec => []TypeOK
  <1>1. Init => AssetsOK
    BY DEF Init, InitEntitlements, AssetsOK
  <1>2. Inv /\ AssetsOK /\ [Next]_vars => AssetsOK'
    BY AssetsStep, NextEntitlements DEF Inv
  <1>3. Inv /\ AssetsOK => TypeOK
    <2> SUFFICES ASSUME Inv, AssetsOK PROVE TypeOK
      OBVIOUS
    <2>1. inbound \in [Events -> [status : Statuses, attempts : 0..MaxAttempts, body : Bodies \cup {NoBody}]]
      <3>1. inbound \in [Events -> Rows] /\ \A e \in Events : inbound[e].attempts <= MaxAttempts
        BY DEF Inv, InboxInv, InboxTyped, Counted, CountOK
      <3>2. \A e \in Events : inbound[e].attempts \in 0..MaxAttempts
        BY <3>1, MaxAttemptsAssumption DEF Rows
      <3> QED BY <3>1, <3>2 DEF Rows
    <2>2. /\ work \in [Workers -> Requests] /\ abandoned \subseteq Events
          /\ \A w \in Workers : work[w].pc # "idle" => work[w].event \in Events /\ work[w].body \in Bodies
      BY DEF Inv, InboxInv, InboxTyped
    <2>3. Typed
      BY DEF Inv, EInv
    <2>4. \A c \in Callers : call[c].pc \notin {"idle", "ended"} => call[c].job \in Jobs
      BY DEF Inv, EInv, CallOK, Relies
    <2> QED BY <2>1, <2>2, <2>3, <2>4 DEF TypeOK, Typed, AssetsOK, Statuses, Requests, Places
  <1> QED BY <1>1, <1>2, <1>3, SpecInv, PTL DEF Spec

=============================================================================
