------------------------ MODULE BackgroundJobs_proofs ------------------------
(***************************************************************************)
(* Theorems about the two kinds of work done in the background: the outbox   *)
(* (Outbox), for any events, dispatchers and limits and any number of manual *)
(* retries and crashes; and the scheduled jobs under their lock               *)
(* (ScheduledJobs), for any instances and lots, any number of days and any    *)
(* amounts.  The two share no state.                                         *)
(***************************************************************************)
EXTENDS Outbox, ScheduledJobs, FiniteSetTheorems, TLAPS

-----------------------------------------------------------------------------
(* The outbox                                                               *)

Rows == [status : Statuses, attempts : 0..MaxAttempts, due : BOOLEAN]
StepNames == {"claim", "send", "mark", "fail"}

\* Each dispatcher has a batch.
BatchShape == batch = [d \in Dispatchers |-> batch[d]]

\* An event that is still to be sent has attempts left.
PendingHasAttemptsLeft ==
  \A e \in Events : row[e].status = "PENDING" => row[e].attempts < MaxAttempts

\* The claim lets one dispatcher in, a manual retry at most one more: an event
\* has at most one sender per retry, and one more while it is PROCESSING.
SendersCounted ==
  \A e \in Events :
    /\ IsFiniteSet(Senders(e))
    /\ Cardinality(Senders(e)) <= retried[e] + (IF row[e].status = "PROCESSING" THEN 1 ELSE 0)

\* An attempt that is counted anywhere was made: in the row, in a list, and,
\* for the one being finished, over and above what was listed.
AttemptsWereMade ==
  /\ \A e \in Events : row[e].attempts <= tries[e]
  /\ \A d \in Dispatchers : \A e \in DOMAIN batch[d] : batch[d][e] <= tries[e]
  /\ \A d \in Dispatchers :
       step[d] \in {"mark", "fail"} => batch[d][sending[d]] + 1 <= tries[sending[d]]

\* A dispatcher marks an event as sent after the destination has it.
MarkedIsDelivered == \A d \in Dispatchers : step[d] = "mark" => delivered[sending[d]]

(* The inductive invariant *)
IInv ==
  /\ TypeOK
  /\ BatchShape
  /\ PendingHasAttemptsLeft
  /\ SendersCounted
  /\ AttemptsWereMade
  /\ MarkedIsDelivered
  /\ SentWasDelivered
  /\ NotGivenUpEarly
  /\ ProcessingIsOwned

-----------------------------------------------------------------------------
LEMMA InitInv == Init => IInv
  <1> SUFFICES ASSUME Init PROVE IInv
    OBVIOUS
  <1>1. \A e \in Events : row[e] = [status |-> "NONE", attempts |-> 0, due |-> FALSE]
    BY DEF Init
  <1>2. \A d \in Dispatchers : /\ DOMAIN batch[d] = {}
                               /\ batch[d] \in [DOMAIN batch[d] -> 0..(MaxAttempts - 1)]
                               /\ sending[d] = Nothing /\ step[d] = "claim"
    BY DEF Init
  <1>3. TypeOK
    <2>1. row \in [Events -> [status : Statuses, attempts : 0..MaxAttempts, due : BOOLEAN]]
      BY LimitsAssumption DEF Init, Statuses
    <2>2. /\ sending \in [Dispatchers -> Events \cup {Nothing}]
          /\ step \in [Dispatchers -> {"claim", "send", "mark", "fail"}]
      BY DEF Init
    <2>3. /\ delivered \in [Events -> BOOLEAN] /\ tries \in [Events -> Nat]
          /\ retried \in [Events -> 0..MaxRetries] /\ crashes \in 0..MaxCrashes
      BY BoundsAssumption DEF Init
    <2>4. QED
      BY <1>2, <2>1, <2>2, <2>3 DEF TypeOK
  <1>4. BatchShape
    BY DEF Init, BatchShape
  <1>5. PendingHasAttemptsLeft /\ SentWasDelivered /\ NotGivenUpEarly /\ ProcessingIsOwned
    BY <1>1 DEF PendingHasAttemptsLeft, SentWasDelivered, NotGivenUpEarly, ProcessingIsOwned
  <1>6. SendersCounted
    <2>1. \A e \in Events : Senders(e) = {} /\ retried[e] = 0
      BY <1>2, NothingAssumption DEF Senders, Init
    <2>2. QED
      BY <1>1, <2>1, FS_EmptySet DEF SendersCounted
  <1>7. AttemptsWereMade /\ MarkedIsDelivered
    BY <1>1, <1>2 DEF AttemptsWereMade, MarkedIsDelivered, Init
  <1>8. QED
    BY <1>3, <1>4, <1>5, <1>6, <1>7 DEF IInv

LEMMA Types ==
  ASSUME IInv
  PROVE  /\ row \in [Events -> Rows]
         /\ batch = [d \in Dispatchers |-> batch[d]]
         /\ \A d \in Dispatchers : /\ DOMAIN batch[d] \subseteq Events
                                   /\ batch[d] \in [DOMAIN batch[d] -> 0..(MaxAttempts - 1)]
                                   /\ sending[d] = Nothing <=> step[d] = "claim"
                                   /\ sending[d] # Nothing => sending[d] \in DOMAIN batch[d]
         /\ sending \in [Dispatchers -> Events \cup {Nothing}]
         /\ step \in [Dispatchers -> StepNames]
         /\ delivered \in [Events -> BOOLEAN]
         /\ tries \in [Events -> Nat]
         /\ retried \in [Events -> 0..MaxRetries]
         /\ crashes \in 0..MaxCrashes
  BY DEF IInv, TypeOK, BatchShape, Rows, StepNames

(* The senders of an event when one dispatcher takes an event up, or puts one *)
(* down, and nothing else changes.                                            *)
LEMMA TakesUp ==
  ASSUME IInv, NEW d \in Dispatchers, NEW e \in Events, sending[d] = Nothing,
         sending' = [sending EXCEPT ![d] = e]
  PROVE  /\ IsFiniteSet(Senders(e)') /\ Cardinality(Senders(e)') = Cardinality(Senders(e)) + 1
         /\ d \in Senders(e)'
         /\ \A f \in Events \ {e} : Senders(f)' = Senders(f)
  <1>1. Senders(e)' = Senders(e) \cup {d} /\ d \notin Senders(e)
    BY Types, NothingAssumption DEF Senders
  <1>2. \A f \in Events \ {e} : Senders(f)' = Senders(f)
    BY Types, NothingAssumption DEF Senders
  <1>3. IsFiniteSet(Senders(e))
    BY DEF IInv, SendersCounted
  <1>4. /\ IsFiniteSet(Senders(e)')
        /\ Cardinality(Senders(e)') = Cardinality(Senders(e)) + 1
    BY <1>1, <1>3, FS_AddElement
  <1>5. QED
    BY <1>1, <1>2, <1>4

LEMMA PutsDown ==
  ASSUME IInv, NEW d \in Dispatchers, NEW e \in Events, sending[d] = e,
         sending' = [sending EXCEPT ![d] = Nothing]
  PROVE  /\ IsFiniteSet(Senders(e)') /\ Cardinality(Senders(e)') + 1 = Cardinality(Senders(e))
         /\ Cardinality(Senders(e)) \in Nat /\ Cardinality(Senders(e)') \in Nat
         /\ \A f \in Events \ {e} : Senders(f)' = Senders(f)
  <1>1. Senders(e)' = Senders(e) \ {d} /\ d \in Senders(e)
    BY Types, NothingAssumption DEF Senders
  <1>2. \A f \in Events \ {e} : Senders(f)' = Senders(f)
    BY Types, NothingAssumption DEF Senders
  <1>3. IsFiniteSet(Senders(e))
    BY DEF IInv, SendersCounted
  <1>4. /\ IsFiniteSet(Senders(e)')
        /\ Cardinality(Senders(e)') = Cardinality(Senders(e)) - 1
    BY <1>1, <1>3, FS_RemoveElement
  <1>5. Cardinality(Senders(e)) \in Nat /\ Cardinality(Senders(e)') \in Nat
    BY <1>3, <1>4, FS_CardinalityType
  <1>6. QED
    BY <1>2, <1>4, <1>5

(* One row is written. *)
LEMMA Written ==
  ASSUME IInv, NEW e \in Events, NEW x \in Rows, row' = [row EXCEPT ![e] = x]
  PROVE  /\ row' \in [Events -> Rows]
         /\ row'[e] = x
         /\ \A f \in Events \ {e} : row'[f] = row[f]
  BY Types

-----------------------------------------------------------------------------
(* Enqueue and ManualRetry make a row new: PENDING, due, with no attempts.    *)
LEMMA RenewedKeeps ==
  ASSUME IInv, NEW e \in Events,
         row' = [row EXCEPT ![e] = [status |-> "PENDING", attempts |-> 0, due |-> TRUE]],
         \/ row[e].status = "NONE" /\ UNCHANGED retried
         \/ /\ retried[e] < MaxRetries
            /\ retried' = [retried EXCEPT ![e] = @ + 1],
         UNCHANGED <<batch, sending, step, delivered, tries, crashes>>
  PROVE  IInv'
  <1> DEFINE new == [status |-> "PENDING", attempts |-> 0, due |-> TRUE]
  <1>1. new \in Rows
    BY LimitsAssumption DEF Rows, Statuses
  <1>2. /\ row' \in [Events -> Rows] /\ row'[e] = new
        /\ \A f \in Events \ {e} : row'[f] = row[f]
    BY <1>1, Written
  <1>3. /\ retried' \in [Events -> 0..MaxRetries]
        /\ \A f \in Events : retried[f] \in Nat /\ retried'[f] \in Nat /\ retried[f] <= retried'[f]
        /\ row[e].status = "NONE" \/ retried'[e] = retried[e] + 1
    BY Types, BoundsAssumption
  <1>4. TypeOK' /\ BatchShape'
    BY <1>2, <1>3 DEF IInv, TypeOK, BatchShape, Rows
  <1>5. PendingHasAttemptsLeft'
    BY <1>2, LimitsAssumption DEF IInv, PendingHasAttemptsLeft
  <1>6. SendersCounted'
    <2>1. \A f \in Events : Senders(f)' = Senders(f)
      BY DEF Senders
    <2>2. \A f \in Events : IsFiniteSet(Senders(f)) /\ Cardinality(Senders(f)) \in Nat
      BY FS_CardinalityType DEF IInv, SendersCounted
    <2>3. Cardinality(Senders(e)) <= retried'[e]
      BY <1>3, <2>2, Types DEF IInv, SendersCounted
    <2>4. \A f \in Events \ {e} :
            Cardinality(Senders(f)) <= retried'[f] + (IF row'[f].status = "PROCESSING" THEN 1 ELSE 0)
      BY <1>2, <1>3, <2>2 DEF IInv, SendersCounted
    <2>5. QED
      BY <1>2, <1>3, <2>1, <2>2, <2>3, <2>4 DEF SendersCounted
  <1>7. AttemptsWereMade' /\ MarkedIsDelivered'
    BY <1>2, Types DEF IInv, AttemptsWereMade, MarkedIsDelivered
  <1>8. SentWasDelivered' /\ NotGivenUpEarly'
    BY <1>2 DEF IInv, SentWasDelivered, NotGivenUpEarly
  <1>9. ProcessingIsOwned'
    BY <1>2, <1>3 DEF IInv, ProcessingIsOwned, Senders
  <1>10. QED
    BY <1>4, <1>5, <1>6, <1>7, <1>8, <1>9 DEF IInv

LEMMA EnqueueKeeps ==
  ASSUME IInv, NEW e \in Events, Enqueue(e)
  PROVE  IInv'
  BY RenewedKeeps DEF Enqueue

LEMMA ManualRetryKeeps ==
  ASSUME IInv, NEW e \in Events, ManualRetry(e)
  PROVE  IInv'
  BY RenewedKeeps DEF ManualRetry

LEMMA BackoffEndsKeeps ==
  ASSUME IInv, NEW e \in Events, BackoffEnds(e)
  PROVE  IInv'
  <1> DEFINE new == [row[e] EXCEPT !.due = TRUE]
  <1>1. row[e] \in Rows
    BY Types
  <1>2. /\ new \in Rows
        /\ new.status = row[e].status /\ new.attempts = row[e].attempts
    BY <1>1 DEF Rows
  <1>3. row' = [row EXCEPT ![e] = new]
    BY DEF BackoffEnds
  <1> HIDE DEF new
  <1>4. /\ row' \in [Events -> Rows]
        /\ \A f \in Events : row'[f].status = row[f].status /\ row'[f].attempts = row[f].attempts
    BY <1>2, <1>3, Written
  <1>5. UNCHANGED <<batch, sending, step, delivered, tries, retried, crashes>>
    BY DEF BackoffEnds
  <1>6. TypeOK' /\ BatchShape'
    BY <1>4, <1>5 DEF IInv, TypeOK, BatchShape, Rows
  <1>7. PendingHasAttemptsLeft' /\ SentWasDelivered' /\ NotGivenUpEarly' /\ ProcessingIsOwned'
    BY <1>4, <1>5 DEF IInv, PendingHasAttemptsLeft, SentWasDelivered, NotGivenUpEarly,
                      ProcessingIsOwned, Senders
  <1>8. SendersCounted'
    <2>1. \A f \in Events : Senders(f)' = Senders(f)
      BY <1>5 DEF Senders
    <2>2. QED
      BY <1>4, <1>5, <2>1 DEF IInv, SendersCounted
  <1>9. AttemptsWereMade' /\ MarkedIsDelivered'
    BY <1>4, <1>5 DEF IInv, AttemptsWereMade, MarkedIsDelivered
  <1>10. QED
    BY <1>6, <1>7, <1>8, <1>9 DEF IInv

LEMMA ListKeeps ==
  ASSUME IInv, NEW d \in Dispatchers, List(d)
  PROVE  IInv'
  <1>1. PICK listed \in SUBSET Due :
          batch' = [batch EXCEPT ![d] = [e \in listed |-> row[e].attempts]]
    BY DEF List
  <1> DEFINE new == [e \in listed |-> row[e].attempts]
  <1>2. /\ sending[d] = Nothing /\ step[d] = "claim"
        /\ UNCHANGED <<row, sending, step, delivered, tries, retried, crashes>>
    BY Types DEF List
  <1>3. /\ DOMAIN new \subseteq Events
        /\ new \in [DOMAIN new -> 0..(MaxAttempts - 1)]
        /\ \A e \in DOMAIN new : new[e] <= tries[e]
    BY Types, LimitsAssumption DEF IInv, Due, PendingHasAttemptsLeft, AttemptsWereMade, Rows
  <1> HIDE DEF new
  <1>4. /\ batch'[d] = new
        /\ \A c \in Dispatchers \ {d} : batch'[c] = batch[c]
        /\ BatchShape'
    BY <1>1, Types DEF new, BatchShape
  <1>5. TypeOK'
    <2>1. \A c \in Dispatchers :
            /\ DOMAIN batch'[c] \subseteq Events
            /\ batch'[c] \in [DOMAIN batch'[c] -> 0..(MaxAttempts - 1)]
            /\ IF sending'[c] = Nothing THEN step'[c] = "claim"
               ELSE step'[c] # "claim" /\ sending'[c] \in DOMAIN batch'[c]
      BY <1>2, <1>3, <1>4, Types
    <2>2. QED
      BY <1>2, <2>1 DEF IInv, TypeOK
  <1>6. PendingHasAttemptsLeft' /\ SendersCounted' /\ MarkedIsDelivered' /\ SentWasDelivered'
        /\ NotGivenUpEarly' /\ ProcessingIsOwned'
    BY <1>2 DEF IInv, PendingHasAttemptsLeft, SendersCounted, MarkedIsDelivered, SentWasDelivered,
                NotGivenUpEarly, ProcessingIsOwned, Senders
  <1>7. AttemptsWereMade'
    BY <1>2, <1>3, <1>4 DEF IInv, AttemptsWereMade
  <1>8. QED
    BY <1>4, <1>5, <1>6, <1>7 DEF IInv

(* An event leaves a dispatcher's list. *)
LEMMA Leaves ==
  ASSUME IInv, NEW d \in Dispatchers, NEW e \in Events,
         batch' = [batch EXCEPT ![d] = Without(@, e)]
  PROVE  /\ BatchShape'
         /\ batch'[d] \in [DOMAIN batch[d] \ {e} -> 0..(MaxAttempts - 1)]
         /\ \A f \in DOMAIN batch'[d] : batch'[d][f] = batch[d][f]
         /\ \A c \in Dispatchers \ {d} : batch'[c] = batch[c]
  <1>1. batch'[d] = Without(batch[d], e) /\ \A c \in Dispatchers \ {d} : batch'[c] = batch[c]
    BY Types
  <1>2. BatchShape'
    BY Types DEF BatchShape
  <1>3. batch[d] \in [DOMAIN batch[d] -> 0..(MaxAttempts - 1)]
    BY Types
  <1>4. /\ Without(batch[d], e) \in [DOMAIN batch[d] \ {e} -> 0..(MaxAttempts - 1)]
        /\ \A f \in DOMAIN batch[d] \ {e} : Without(batch[d], e)[f] = batch[d][f]
        /\ DOMAIN Without(batch[d], e) = DOMAIN batch[d] \ {e}
    BY <1>3 DEF Without
  <1>5. QED
    BY <1>1, <1>2, <1>4

LEMMA ClaimKeeps ==
  ASSUME IInv, NEW d \in Dispatchers, NEW e \in Events, Claim(d, e)
  PROVE  IInv'
  <1>1. /\ sending[d] = Nothing /\ e \in DOMAIN batch[d] /\ step[d] = "claim"
        /\ UNCHANGED <<delivered, tries, retried, crashes>>
    BY Types DEF Claim
  <1>2. CASE Claimable(e)
    <2> DEFINE new == [row[e] EXCEPT !.status = "PROCESSING"]
    <2>1. row[e].status = "PENDING" /\ UNCHANGED batch
      BY <1>2 DEF Claimable, Claim
    <2>2. /\ row' = [row EXCEPT ![e] = new] /\ new \in Rows
          /\ new.status = "PROCESSING" /\ new.attempts = row[e].attempts
      BY <1>2, Types DEF Claim, Rows, Statuses
    <2> HIDE DEF new
    <2>3. /\ row' \in [Events -> Rows] /\ row'[e] = new
          /\ \A f \in Events \ {e} : row'[f] = row[f]
      BY <2>2, Written
    <2>4. /\ sending' = [sending EXCEPT ![d] = e] /\ step' = [step EXCEPT ![d] = "send"]
      BY <1>2 DEF Claim
    <2>5. /\ sending' \in [Dispatchers -> Events \cup {Nothing}]
          /\ step' \in [Dispatchers -> StepNames]
          /\ sending'[d] = e /\ step'[d] = "send"
          /\ \A c \in Dispatchers \ {d} : sending'[c] = sending[c] /\ step'[c] = step[c]
      BY <2>4, Types DEF StepNames
    <2>6. TypeOK' /\ BatchShape'
      <3>1. \A c \in Dispatchers :
              IF sending'[c] = Nothing THEN step'[c] = "claim"
              ELSE step'[c] # "claim" /\ sending'[c] \in DOMAIN batch'[c]
        BY <1>1, <2>1, <2>5, Types, NothingAssumption
      <3>2. QED
        BY <1>1, <2>1, <2>3, <2>5, <3>1 DEF IInv, TypeOK, BatchShape, Rows, StepNames
    <2>7. PendingHasAttemptsLeft' /\ SentWasDelivered' /\ NotGivenUpEarly'
      BY <1>1, <2>2, <2>3 DEF IInv, PendingHasAttemptsLeft, SentWasDelivered, NotGivenUpEarly
    <2>8. SendersCounted' /\ ProcessingIsOwned'
      <3>1. /\ IsFiniteSet(Senders(e)') /\ Cardinality(Senders(e)') = Cardinality(Senders(e)) + 1
            /\ d \in Senders(e)'
            /\ \A f \in Events \ {e} : Senders(f)' = Senders(f)
        BY <1>1, <2>4, TakesUp
      <3>2. Cardinality(Senders(e)) <= retried[e] + 0 /\ IsFiniteSet(Senders(e))
        BY <2>1 DEF IInv, SendersCounted
      <3>3. Cardinality(Senders(e)) \in Nat /\ retried[e] \in Nat
        BY <3>2, Types, BoundsAssumption, FS_CardinalityType
      <3>4. Cardinality(Senders(e)') <= retried[e] + 1
        BY <3>1, <3>2, <3>3
      <3>5. SendersCounted'
        BY <1>1, <2>2, <2>3, <3>1, <3>4 DEF IInv, SendersCounted
      <3>6. ProcessingIsOwned'
        BY <1>1, <2>3, <3>1 DEF IInv, ProcessingIsOwned
      <3>7. QED BY <3>5, <3>6
    <2>9. AttemptsWereMade'
      BY <1>1, <2>1, <2>2, <2>3, <2>5 DEF IInv, AttemptsWereMade
    <2>10. MarkedIsDelivered'
      BY <1>1, <2>5 DEF IInv, MarkedIsDelivered
    <2>11. QED
      BY <2>6, <2>7, <2>8, <2>9, <2>10 DEF IInv
  <1>3. CASE ~Claimable(e)
    <2>1. /\ batch' = [batch EXCEPT ![d] = Without(@, e)]
          /\ UNCHANGED <<row, sending, step>>
      BY <1>3 DEF Claim
    <2>2. /\ BatchShape'
          /\ batch'[d] \in [DOMAIN batch[d] \ {e} -> 0..(MaxAttempts - 1)]
          /\ \A f \in DOMAIN batch'[d] : batch'[d][f] = batch[d][f]
          /\ \A c \in Dispatchers \ {d} : batch'[c] = batch[c]
      BY <2>1, Leaves
    <2>3. TypeOK'
      <3>1. \A c \in Dispatchers :
              /\ DOMAIN batch'[c] \subseteq Events
              /\ batch'[c] \in [DOMAIN batch'[c] -> 0..(MaxAttempts - 1)]
              /\ IF sending'[c] = Nothing THEN step'[c] = "claim"
                 ELSE step'[c] # "claim" /\ sending'[c] \in DOMAIN batch'[c]
        BY <1>1, <2>1, <2>2, Types
      <3>2. QED
        BY <1>1, <2>1, <3>1 DEF IInv, TypeOK
    <2>4. PendingHasAttemptsLeft' /\ SendersCounted' /\ MarkedIsDelivered' /\ SentWasDelivered'
          /\ NotGivenUpEarly' /\ ProcessingIsOwned'
      BY <1>1, <2>1 DEF IInv, PendingHasAttemptsLeft, SendersCounted, MarkedIsDelivered,
                        SentWasDelivered, NotGivenUpEarly, ProcessingIsOwned, Senders
    <2>5. AttemptsWereMade'
      BY <1>1, <2>1, <2>2, Types DEF IInv, AttemptsWereMade
    <2>6. QED
      BY <2>2, <2>3, <2>4, <2>5 DEF IInv
  <1>4. QED
    BY <1>2, <1>3

LEMMA SendKeeps ==
  ASSUME IInv, NEW d \in Dispatchers, Send(d)
  PROVE  IInv'
  <1> DEFINE e == sending[d]
  <1>1. /\ step[d] = "send" /\ e \in Events /\ e \in DOMAIN batch[d]
        /\ UNCHANGED <<row, batch, sending, retried, crashes>>
    BY Types DEF Send
  <1>2. PICK received \in BOOLEAN :
          /\ delivered' = [delivered EXCEPT ![e] = @ \/ received]
          /\ \E next \in AfterSend(received) : step' = [step EXCEPT ![d] = next]
    BY DEF Send
  <1>3. PICK next \in AfterSend(received) : step' = [step EXCEPT ![d] = next]
    BY <1>2
  <1>4. next \in {"mark", "fail"} /\ (next = "mark" => received)
    BY <1>3 DEF AfterSend
  <1>5. /\ step' \in [Dispatchers -> StepNames]
        /\ step'[d] = next
        /\ \A c \in Dispatchers \ {d} : step'[c] = step[c]
    BY <1>3, <1>4, Types DEF StepNames
  <1>6. /\ tries' \in [Events -> Nat]
        /\ tries'[e] = tries[e] + 1
        /\ \A f \in Events : tries[f] \in Nat /\ tries'[f] \in Nat /\ tries[f] <= tries'[f]
    BY <1>1, Types DEF Send
  <1>7. /\ delivered' \in [Events -> BOOLEAN]
        /\ \A f \in Events : delivered[f] => delivered'[f]
        /\ next = "mark" => delivered'[e]
    BY <1>1, <1>2, <1>4, Types
  <1>8. TypeOK' /\ BatchShape'
    <2>1. \A c \in Dispatchers :
            IF sending'[c] = Nothing THEN step'[c] = "claim"
            ELSE step'[c] # "claim" /\ sending'[c] \in DOMAIN batch'[c]
      BY <1>1, <1>4, <1>5, Types, NothingAssumption
    <2>2. QED
      BY <1>1, <1>5, <1>6, <1>7, <2>1 DEF IInv, TypeOK, BatchShape, StepNames
  <1>9. PendingHasAttemptsLeft' /\ SendersCounted' /\ ProcessingIsOwned'
    BY <1>1 DEF IInv, PendingHasAttemptsLeft, SendersCounted, ProcessingIsOwned, Senders
  <1>10. SentWasDelivered'
    BY <1>1, <1>7 DEF IInv, SentWasDelivered
  <1>11. NotGivenUpEarly'
    BY <1>1, <1>6, LimitsAssumption DEF IInv, NotGivenUpEarly
  <1>12. MarkedIsDelivered'
    <2>1. \A c \in Dispatchers : step[c] = "mark" => sending[c] \in Events
      BY Types
    <2>2. QED
      BY <1>1, <1>4, <1>5, <1>7, <2>1 DEF IInv, MarkedIsDelivered
  <1>13. AttemptsWereMade'
    <2>1. \A f \in Events : row'[f].attempts <= tries'[f]
      BY <1>1, <1>6, Types DEF IInv, AttemptsWereMade, Rows
    <2>2. \A c \in Dispatchers : \A f \in DOMAIN batch[c] :
            f \in Events /\ batch[c][f] \in Nat /\ batch[c][f] <= tries[f]
      BY Types, LimitsAssumption DEF IInv, AttemptsWereMade
    <2>3. \A c \in Dispatchers : \A f \in DOMAIN batch[c] : batch[c][f] <= tries'[f]
      BY <1>6, <2>2
    <2>4. \A c \in Dispatchers :
            step'[c] \in {"mark", "fail"} => batch[c][sending[c]] + 1 <= tries'[sending[c]]
      <3> SUFFICES ASSUME NEW c \in Dispatchers, step'[c] \in {"mark", "fail"}
                   PROVE  batch[c][sending[c]] + 1 <= tries'[sending[c]]
        OBVIOUS
      <3>1. CASE c = d
        BY <1>1, <1>6, <2>2, <3>1
      <3>2. CASE c # d
        <4>1. step[c] \in {"mark", "fail"} /\ sending[c] \in DOMAIN batch[c] /\ sending[c] \in Events
          BY <1>5, <3>2, Types
        <4>2. batch[c][sending[c]] + 1 <= tries[sending[c]]
          BY <4>1 DEF IInv, AttemptsWereMade
        <4>3. QED
          BY <1>6, <2>2, <4>1, <4>2
      <3>3. QED BY <3>1, <3>2
    <2>5. QED
      BY <1>1, <2>1, <2>3, <2>4 DEF AttemptsWereMade
  <1>14. QED
    BY <1>8, <1>9, <1>10, <1>11, <1>12, <1>13 DEF IInv

(* A dispatcher is done with an event, whose row it leaves SENT, FAILED or    *)
(* PENDING.                                                                   *)
LEMMA DoneKeeps ==
  ASSUME IInv, NEW d \in Dispatchers, NEW e \in Events, e = sending[d], NEW x \in Rows,
         row' = [row EXCEPT ![e] = x], Processed(d),
         UNCHANGED <<delivered, tries, retried, crashes>>,
         x.status \in {"SENT", "FAILED", "PENDING"},
         x.attempts <= tries[e],
         x.status = "SENT" => delivered[e],
         x.status = "FAILED" => tries[e] >= MaxAttempts,
         x.status = "PENDING" => x.attempts < MaxAttempts
  PROVE  IInv'
  <1>1. /\ row' \in [Events -> Rows] /\ row'[e] = x
        /\ \A f \in Events \ {e} : row'[f] = row[f]
    BY Written
  <1>2. /\ batch' = [batch EXCEPT ![d] = Without(@, e)]
        /\ sending' = [sending EXCEPT ![d] = Nothing]
        /\ step' = [step EXCEPT ![d] = "claim"]
    BY DEF Processed
  <1>3. /\ BatchShape'
        /\ batch'[d] \in [DOMAIN batch[d] \ {e} -> 0..(MaxAttempts - 1)]
        /\ \A f \in DOMAIN batch'[d] : batch'[d][f] = batch[d][f]
        /\ \A c \in Dispatchers \ {d} : batch'[c] = batch[c]
    BY <1>2, Leaves
  <1>4. /\ sending' \in [Dispatchers -> Events \cup {Nothing}]
        /\ step' \in [Dispatchers -> StepNames]
        /\ sending'[d] = Nothing /\ step'[d] = "claim"
        /\ \A c \in Dispatchers \ {d} : sending'[c] = sending[c] /\ step'[c] = step[c]
    BY <1>2, Types DEF StepNames
  <1>5. TypeOK'
    <2>1. \A c \in Dispatchers :
            /\ DOMAIN batch'[c] \subseteq Events
            /\ batch'[c] \in [DOMAIN batch'[c] -> 0..(MaxAttempts - 1)]
            /\ IF sending'[c] = Nothing THEN step'[c] = "claim"
               ELSE step'[c] # "claim" /\ sending'[c] \in DOMAIN batch'[c]
      BY <1>3, <1>4, Types
    <2>2. QED
      BY <1>1, <1>4, <2>1 DEF IInv, TypeOK, Rows, StepNames
  <1>6. PendingHasAttemptsLeft' /\ SentWasDelivered' /\ NotGivenUpEarly'
    BY <1>1 DEF IInv, PendingHasAttemptsLeft, SentWasDelivered, NotGivenUpEarly
  <1>7. SendersCounted' /\ ProcessingIsOwned'
    <2>1. /\ IsFiniteSet(Senders(e)') /\ Cardinality(Senders(e)') + 1 = Cardinality(Senders(e))
          /\ Cardinality(Senders(e)) \in Nat /\ Cardinality(Senders(e)') \in Nat
          /\ \A f \in Events \ {e} : Senders(f)' = Senders(f)
      BY <1>2, PutsDown
    <2>2. Cardinality(Senders(e)) <= retried[e] + 1 /\ retried[e] \in Nat
      <3>1. retried[e] \in Nat BY Types, BoundsAssumption
      <3>2. QED BY <2>1, <3>1 DEF IInv, SendersCounted
    <2>3. Cardinality(Senders(e)') <= retried[e]
      BY <2>1, <2>2
    <2>4. SendersCounted'
      BY <1>1, <2>1, <2>2, <2>3 DEF IInv, SendersCounted
    <2>5. ProcessingIsOwned'
      BY <1>1, <2>1 DEF IInv, ProcessingIsOwned
    <2>6. QED BY <2>4, <2>5
  <1>8. AttemptsWereMade' /\ MarkedIsDelivered'
    <2>1. \A f \in Events : row'[f].attempts <= tries'[f]
      BY <1>1 DEF IInv, AttemptsWereMade
    <2>2. \A c \in Dispatchers : \A f \in DOMAIN batch'[c] : batch'[c][f] <= tries'[f]
      BY <1>3, Types DEF IInv, AttemptsWereMade
    <2>3. \A c \in Dispatchers :
            step'[c] \in {"mark", "fail"} => batch'[c][sending'[c]] + 1 <= tries'[sending'[c]]
      BY <1>3, <1>4 DEF IInv, AttemptsWereMade
    <2>4. MarkedIsDelivered'
      BY <1>4 DEF IInv, MarkedIsDelivered
    <2>5. QED
      BY <2>1, <2>2, <2>3, <2>4 DEF AttemptsWereMade
  <1>9. QED
    BY <1>3, <1>5, <1>6, <1>7, <1>8 DEF IInv

LEMMA MarkSentKeeps ==
  ASSUME IInv, NEW d \in Dispatchers, MarkSent(d)
  PROVE  IInv'
  <1> DEFINE e == sending[d]
             x == [row[e] EXCEPT !.status = "SENT"]
  <1>1. /\ step[d] = "mark" /\ e \in Events /\ delivered[e]
        /\ Processed(d) /\ UNCHANGED <<delivered, tries, retried, crashes>>
    BY Types DEF MarkSent, IInv, MarkedIsDelivered
  <1>2. row[e] \in Rows /\ row[e].attempts <= tries[e]
    BY <1>1, Types DEF IInv, AttemptsWereMade
  <1>3. x \in Rows /\ x.status = "SENT" /\ x.attempts <= tries[e]
    BY <1>2 DEF Rows, Statuses
  <1>4. row' = [row EXCEPT ![e] = x]
    BY DEF MarkSent
  <1> HIDE DEF x
  <1>5. QED
    BY <1>1, <1>3, <1>4, DoneKeeps

LEMMA RecordFailureKeeps ==
  ASSUME IInv, NEW d \in Dispatchers, RecordFailure(d)
  PROVE  IInv'
  <1> DEFINE e == sending[d]
             n == batch[d][e] + 1
             x == [row[e] EXCEPT !.status = FailureStatus(n), !.attempts = n,
                                 !.due = IF Exhausted(n) THEN row[e].due ELSE FALSE]
  <1>1. /\ step[d] = "fail" /\ e \in Events /\ e \in DOMAIN batch[d]
        /\ Processed(d) /\ UNCHANGED <<delivered, tries, retried, crashes>>
    BY Types DEF RecordFailure
  <1>2. n \in 0..MaxAttempts /\ n <= tries[e]
    BY <1>1, Types, LimitsAssumption DEF IInv, AttemptsWereMade
  <1>3. row[e] \in Rows /\ row' = [row EXCEPT ![e] = x]
    <2>1. row[e] \in Rows /\ DOMAIN row = Events
      BY <1>1, Types
    <2>2. row' = [row EXCEPT ![e].status = FailureStatus(n), ![e].attempts = n,
                             ![e].due = IF Exhausted(n) THEN @ ELSE FALSE]
      BY DEF RecordFailure
    <2>3. QED
      BY <1>1, <2>1, <2>2 DEF Rows
  <1>4. /\ FailureStatus(n) \in {"FAILED", "PENDING"}
        /\ FailureStatus(n) = "FAILED" => n >= MaxAttempts
        /\ FailureStatus(n) = "PENDING" => n < MaxAttempts
    BY <1>2, LimitsAssumption DEF FailureStatus, Exhausted
  <1>5. x \in Rows /\ x.status = FailureStatus(n) /\ x.attempts = n
    <2>1. (IF Exhausted(n) THEN row[e].due ELSE FALSE) \in BOOLEAN
      BY <1>3 DEF Rows
    <2>2. FailureStatus(n) \in Statuses
      BY <1>4 DEF Statuses
    <2>3. QED
      BY <1>2, <1>3, <2>1, <2>2 DEF Rows
  <1>6. /\ x.attempts <= tries[e]
        /\ x.status = "FAILED" => tries[e] >= MaxAttempts
        /\ x.status = "PENDING" => x.attempts < MaxAttempts
    BY <1>1, <1>2, <1>4, <1>5, Types, LimitsAssumption
  <1>7. x.status \in {"SENT", "FAILED", "PENDING"} /\ x.status # "SENT"
    BY <1>4, <1>5
  <1> HIDE DEF x
  <1>8. QED
    BY <1>1, <1>3, <1>5, <1>6, <1>7, DoneKeeps

LEMMA MarkFailsKeeps ==
  ASSUME IInv, NEW d \in Dispatchers, MarkFails(d)
  PROVE  IInv'
  <1>1. /\ step[d] = "mark" /\ sending[d] # Nothing
        /\ UNCHANGED <<row, batch, sending, delivered, tries, retried, crashes>>
    BY Types DEF MarkFails
  <1>2. /\ step' \in [Dispatchers -> StepNames]
        /\ step'[d] = "fail"
        /\ \A c \in Dispatchers \ {d} : step'[c] = step[c]
    BY Types DEF MarkFails, StepNames
  <1>3. TypeOK' /\ BatchShape'
    <2>1. \A c \in Dispatchers :
            IF sending'[c] = Nothing THEN step'[c] = "claim"
            ELSE step'[c] # "claim" /\ sending'[c] \in DOMAIN batch'[c]
      BY <1>1, <1>2, Types
    <2>2. QED
      BY <1>1, <1>2, <2>1 DEF IInv, TypeOK, BatchShape, StepNames
  <1>4. PendingHasAttemptsLeft' /\ SendersCounted' /\ SentWasDelivered' /\ NotGivenUpEarly'
        /\ ProcessingIsOwned'
    BY <1>1 DEF IInv, PendingHasAttemptsLeft, SendersCounted, SentWasDelivered, NotGivenUpEarly,
                ProcessingIsOwned, Senders
  <1>5. AttemptsWereMade' /\ MarkedIsDelivered'
    BY <1>1, <1>2 DEF IInv, AttemptsWereMade, MarkedIsDelivered
  <1>6. QED
    BY <1>3, <1>4, <1>5 DEF IInv

LEMMA CrashKeeps ==
  ASSUME IInv, NEW d \in Dispatchers, Crash(d)
  PROVE  IInv'
  <1> DEFINE none == [e \in {} |-> 0]
  <1>1. /\ crashes' = crashes + 1 /\ crashes \in Nat /\ crashes < MaxCrashes
        /\ UNCHANGED <<row, delivered, tries, retried>>
    BY Types, BoundsAssumption DEF Crash
  <1>2. /\ batch' = [batch EXCEPT ![d] = none]
        /\ sending' = [sending EXCEPT ![d] = Nothing]
        /\ step' = [step EXCEPT ![d] = "claim"]
    BY DEF Crash
  <1>3. none \in [{} -> 0..(MaxAttempts - 1)] /\ DOMAIN none = {}
    OBVIOUS
  <1> HIDE DEF none
  <1>4. /\ batch'[d] = none
        /\ \A c \in Dispatchers \ {d} : batch'[c] = batch[c]
        /\ BatchShape'
    BY <1>2, Types DEF BatchShape
  <1>5. /\ sending' \in [Dispatchers -> Events \cup {Nothing}]
        /\ step' \in [Dispatchers -> StepNames]
        /\ sending'[d] = Nothing /\ step'[d] = "claim"
        /\ \A c \in Dispatchers \ {d} : sending'[c] = sending[c] /\ step'[c] = step[c]
    BY <1>2, Types DEF StepNames
  <1>6. TypeOK'
    <2>1. \A c \in Dispatchers :
            /\ DOMAIN batch'[c] \subseteq Events
            /\ batch'[c] \in [DOMAIN batch'[c] -> 0..(MaxAttempts - 1)]
            /\ IF sending'[c] = Nothing THEN step'[c] = "claim"
               ELSE step'[c] # "claim" /\ sending'[c] \in DOMAIN batch'[c]
      BY <1>3, <1>4, <1>5, Types
    <2>2. crashes' \in 0..MaxCrashes
      BY <1>1, BoundsAssumption
    <2>3. QED
      BY <1>1, <1>5, <2>1, <2>2 DEF IInv, TypeOK, StepNames
  <1>7. PendingHasAttemptsLeft' /\ SentWasDelivered' /\ NotGivenUpEarly' /\ ProcessingIsOwned'
    BY <1>1 DEF IInv, PendingHasAttemptsLeft, SentWasDelivered, NotGivenUpEarly, ProcessingIsOwned
  <1>8. SendersCounted'
    <2>1. CASE sending[d] = Nothing
      <3>1. \A e \in Events : Senders(e)' = Senders(e)
        BY <1>2, <2>1, Types, NothingAssumption DEF Senders
      <3>2. QED
        BY <1>1, <3>1 DEF IInv, SendersCounted
    <2>2. CASE sending[d] # Nothing
      <3>1. PICK e \in Events : sending[d] = e
        BY <2>2, Types
      <3>2. /\ IsFiniteSet(Senders(e)') /\ Cardinality(Senders(e)') + 1 = Cardinality(Senders(e))
            /\ Cardinality(Senders(e)) \in Nat /\ Cardinality(Senders(e)') \in Nat
            /\ \A f \in Events \ {e} : Senders(f)' = Senders(f)
        BY <1>2, <3>1, PutsDown
      <3>3. retried[e] \in Nat
        BY <3>1, Types, BoundsAssumption
      <3>4. Cardinality(Senders(e)) <= retried[e] + (IF row[e].status = "PROCESSING" THEN 1 ELSE 0)
        BY <3>1 DEF IInv, SendersCounted
      <3>5. Cardinality(Senders(e)') <= retried[e] + (IF row[e].status = "PROCESSING" THEN 1 ELSE 0)
        BY <3>2, <3>3, <3>4
      <3>6. QED
        BY <1>1, <3>2, <3>5 DEF IInv, SendersCounted
    <2>3. QED BY <2>1, <2>2
  <1>9. AttemptsWereMade' /\ MarkedIsDelivered'
    BY <1>1, <1>3, <1>4, <1>5 DEF IInv, AttemptsWereMade, MarkedIsDelivered
  <1>10. QED
    BY <1>4, <1>6, <1>7, <1>8, <1>9 DEF IInv

-----------------------------------------------------------------------------
LEMMA StepKeeps == IInv /\ [Next]_vars => IInv'
  <1> SUFFICES ASSUME IInv, [Next]_vars PROVE IInv'
    OBVIOUS
  <1>1. CASE UNCHANGED vars
    BY <1>1 DEF vars, IInv, TypeOK, BatchShape, PendingHasAttemptsLeft, SendersCounted, Senders,
                AttemptsWereMade, MarkedIsDelivered, SentWasDelivered, NotGivenUpEarly,
                ProcessingIsOwned
  <1>2. ASSUME NEW e \in Events, Enqueue(e) \/ BackoffEnds(e) \/ ManualRetry(e) PROVE IInv'
    BY <1>2, EnqueueKeeps, BackoffEndsKeeps, ManualRetryKeeps
  <1>3. ASSUME NEW d \in Dispatchers, Dispatch(d) PROVE IInv'
    BY <1>3, ListKeeps, ClaimKeeps, SendKeeps, MarkSentKeeps, MarkFailsKeeps, RecordFailureKeeps
       DEF Dispatch
  <1>4. ASSUME NEW d \in Dispatchers, Crash(d) PROVE IInv'
    BY <1>4, CrashKeeps
  <1>5. QED
    BY <1>1, <1>2, <1>3, <1>4 DEF Next

LEMMA Invariance == Spec => []IInv
  <1>1. QED
    BY InitInv, StepKeeps, PTL DEF Spec

\* Rows, lists and dispatchers are well typed: no attempt count passes the
\* limit, and a dispatcher sends only what is still on its list.
THEOREM Typing == Spec => []TypeOK
  <1>1. IInv => TypeOK BY DEF IInv
  <1>2. QED BY <1>1, Invariance, PTL

\* One dispatcher sends an event at a time, and one more for each manual retry
\* it had, whatever the number of dispatchers and the age of their lists.
THEOREM Exclusion == Spec => []ExclusiveUnlessRetried
  <1>1. ASSUME IInv PROVE ExclusiveUnlessRetried
    <2> SUFFICES ASSUME NEW e \in Events PROVE Cardinality(Senders(e)) <= 1 + retried[e]
      BY DEF ExclusiveUnlessRetried
    <2>1. Cardinality(Senders(e)) \in Nat /\ retried[e] \in Nat
      BY <1>1, Types, BoundsAssumption, FS_CardinalityType DEF IInv, SendersCounted
    <2>2. QED
      BY <1>1, <2>1 DEF IInv, SendersCounted
  <1>2. QED BY <1>1, Invariance, PTL

\* An event that is PROCESSING is in the hands of a dispatcher, unless one
\* died or an admin retried it.
THEOREM Ownership == Spec => []ProcessingIsOwned
  <1>1. IInv => ProcessingIsOwned BY DEF IInv
  <1>2. QED BY <1>1, Invariance, PTL

\* SENT is the truth: the destination has the event.
THEOREM SentIsDelivered == Spec => []SentWasDelivered
  <1>1. IInv => SentWasDelivered BY DEF IInv
  <1>2. QED BY <1>1, Invariance, PTL

\* FAILED comes after MAX_ATTEMPTS tries at least, although dispatchers count
\* from lists that may be old.
THEOREM FailedIsExhausted == Spec => []NotGivenUpEarly
  <1>1. IInv => NotGivenUpEarly BY DEF IInv
  <1>2. QED BY <1>1, Invariance, PTL

-----------------------------------------------------------------------------
(* An event that was never retried and is settled is in no dispatcher's hands. *)
LEMMA SettledHasNoSender ==
  ASSUME IInv, NEW e \in Events, row[e].status \in {"SENT", "FAILED"}, retried[e] = 0
  PROVE  \A d \in Dispatchers : sending[d] # e
  <1>1. IsFiniteSet(Senders(e)) /\ Cardinality(Senders(e)) <= 0
    BY DEF IInv, SendersCounted
  <1>2. Cardinality(Senders(e)) = 0
    BY <1>1, FS_CardinalityType
  <1>3. Senders(e) = {}
    BY <1>1, <1>2, FS_EmptySet
  <1>4. QED
    BY <1>3 DEF Senders

LEMMA SettledStep ==
  ASSUME IInv, Next, NEW e \in Events,
         row[e].status \in {"SENT", "FAILED"}, retried'[e] = 0
  PROVE  row'[e].status = row[e].status
  <1>1. ASSUME NEW f \in Events, Enqueue(f) PROVE row'[e].status = row[e].status
    BY <1>1, Types DEF Enqueue
  <1>2. ASSUME NEW f \in Events, ManualRetry(f) PROVE row'[e].status = row[e].status
    <2>1. retried[f] \in Nat /\ retried'[f] = retried[f] + 1
      BY <1>2, Types, BoundsAssumption DEF ManualRetry
    <2>2. e # f
      BY <2>1
    <2>3. QED
      BY <1>2, <2>2, Types DEF ManualRetry
  <1>3. ASSUME NEW f \in Events, BackoffEnds(f) PROVE row'[e].status = row[e].status
    BY <1>3, Types DEF BackoffEnds, Rows
  <1>4. ASSUME NEW d \in Dispatchers, List(d) \/ Send(d) \/ MarkFails(d) \/ Crash(d)
        PROVE  row'[e].status = row[e].status
    BY <1>4 DEF List, Send, MarkFails, Crash
  <1>5. ASSUME NEW d \in Dispatchers, NEW f \in Events, Claim(d, f)
        PROVE  row'[e].status = row[e].status
    BY <1>5, Types DEF Claim, Claimable
  <1>6. ASSUME NEW d \in Dispatchers, MarkSent(d) \/ RecordFailure(d)
        PROVE  row'[e].status = row[e].status
    <2>1. UNCHANGED retried
      BY <1>6 DEF MarkSent, RecordFailure
    <2>2. sending[d] # e
      BY <2>1, SettledHasNoSender
    <2>3. QED
      BY <1>6, <2>2, Types DEF MarkSent, RecordFailure
  <1>7. QED
    BY <1>1, <1>2, <1>3, <1>4, <1>5, <1>6 DEF Next, Dispatch

\* SENT and FAILED are final until an admin retries the event: no dispatcher,
\* however old its list, changes them.
THEOREM Finality == Spec => SettledStaysSettled
  <1>1. IInv /\ [Next]_vars
          => [\A e \in Events :
                row[e].status \in {"SENT", "FAILED"} /\ retried'[e] = 0
                  => row'[e].status = row[e].status]_vars
    BY SettledStep
  <1>2. QED
    BY <1>1, Invariance, PTL DEF Spec, SettledStaysSettled

-----------------------------------------------------------------------------
(* Scheduled jobs                                                           *)

JobNames == {"liability-snapshot", "expiry-notice"}
Figures == [balanceAtCapture : SUBSET Transactions, movementAfterPeriod : SUBSET Transactions]
RunPhases == Working \cup {"idle", "expire"}

JobsTypeOK ==
  /\ day \in Nat \ {0}
  /\ month \subseteq Transactions /\ since \subseteq Transactions
  /\ committed \subseteq month \cup since
  /\ holders \in [Jobs -> Nat]
  /\ ttl \subseteq Jobs
  /\ job \in [Instances -> JobNames]
  /\ pc \in [Instances -> RunPhases]
  /\ now \in [Instances -> Nat]
  /\ earlier \in [Instances -> SUBSET Transactions]
  /\ balance \in [Instances -> SUBSET Transactions]
  /\ found \in [Instances -> SUBSET Lots]
  /\ told \in [Lots -> Nat] /\ marked \subseteq Lots
  /\ crossed \subseteq Instances
  /\ disturbed \in BOOLEAN
  /\ snapshot # None => snapshot \in Figures
  /\ \A i \in Instances : pc[i] # "idle" => job[i] \in Jobs

\* From INCR to DEL, the moment before EXPIRE included
Busy(i, j) == job[i] = j /\ pc[i] \in Working \cup {"expire"}

\* A lock that never ran out under its holder is there, and has one.
OneHolder ==
  \A j \in Jobs \ overran : \A i, k \in Instances : Busy(i, j) /\ Busy(k, j) => i = k
HolderHolds == \A j \in Jobs \ overran : \A i \in Instances : Busy(i, j) => holders[j] > 0

\* The time to live belongs to a key that is there, and before EXPIRE there is
\* none: a lock cannot run out before its job has begun.
EndingIsThere == \A j \in ttl : holders[j] > 0
NoneBeforeExpire ==
  \A j \in Jobs \ overran : \A i \in Instances : job[i] = j /\ pc[i] = "expire" => j \notin ttl

LocksInv == OneHolder /\ HolderHolds /\ EndingIsThere /\ NoneBeforeExpire

\* Lots a run still has to tell of are not marked, and what is not marked was
\* not told of.
NoticesInv ==
  /\ \A i \in Instances : pc[i] \in {"list", "notify"} => job[i] = "expiry-notice"
  /\ \A i \in Instances : found[i] # {} => pc[i] = "notify"
  /\ "expiry-notice" \notin overran =>
       /\ \A l \in Lots : told[l] <= 1 /\ (l \notin marked => told[l] = 0)
       /\ \A i \in Instances : found[i] \cap marked = {}

\* A transaction is of the month or of the time since.
Apart == month \cap since = {}

\* A capture about to sum the wallets is crossed by what began after it and is
\* committed; one that has summed them, by what its two sums do not share.
OnlyCapturesCrossed == \A i \in crossed : pc[i] \in {"existing", "balances", "movement"}
CrossedBeforeSum ==
  \A i \in Instances : pc[i] \in {"existing", "balances"} =>
    (i \notin crossed <=> since \cap committed \subseteq earlier[i])
CrossedAfterSum ==
  \A i \in Instances : pc[i] = "movement" =>
    /\ balance[i] \subseteq committed
    /\ i \notin crossed <=> balance[i] = (month \cap committed) \cup sumMovement(i)

\* The columns of the snapshot are of committed transactions.
SnapshotIsCommitted ==
  snapshot # None => /\ snapshot.balanceAtCapture \subseteq committed
                     /\ snapshot.movementAfterPeriod \subseteq since

SnapshotInv ==
  /\ Apart
  /\ OnlyCapturesCrossed
  /\ CrossedBeforeSum
  /\ CrossedAfterSum
  /\ SnapshotIsCommitted
  /\ SnapshotIsMonthEndUnlessCrossed

(* The inductive invariant of the scheduled jobs *)
JobsInv == JobsTypeOK /\ LocksInv /\ NoticesInv /\ SnapshotInv /\ LockEndsUnlessCutShort

LEMMA JobsInitInv == JobsInit => JobsInv
<1> SUFFICES ASSUME JobsInit PROVE JobsInv
  OBVIOUS
<1>1. JobsTypeOK
  <2>1. /\ month \subseteq Transactions /\ since \subseteq Transactions
        /\ committed \subseteq month \cup since
    BY DEF JobsInit
  <2>2. holders \in [Jobs -> Nat] /\ ttl \subseteq Jobs /\ job \in [Instances -> JobNames]
    BY DEF JobsInit, JobNames
  <2>3. pc \in [Instances -> RunPhases] /\ \A i \in Instances : pc[i] = "idle"
    BY DEF JobsInit, RunPhases
  <2>4. /\ now \in [Instances -> Nat] /\ found \in [Instances -> SUBSET Lots]
        /\ earlier \in [Instances -> SUBSET Transactions]
        /\ balance \in [Instances -> SUBSET Transactions]
        /\ told \in [Lots -> Nat] /\ marked \subseteq Lots
    BY DEF JobsInit
  <2>5. day \in Nat \ {0}
    BY DEF JobsInit
  <2>6. crossed \subseteq Instances /\ disturbed \in BOOLEAN /\ snapshot = None
    BY DEF JobsInit
  <2> QED BY <2>1, <2>2, <2>3, <2>4, <2>5, <2>6 DEF JobsTypeOK
<1>2. LocksInv
  BY DEF JobsInit, LocksInv, OneHolder, HolderHolds, EndingIsThere, NoneBeforeExpire, Busy, Working
<1>3. NoticesInv
  BY DEF JobsInit, NoticesInv
<1>4. SnapshotInv /\ LockEndsUnlessCutShort
  BY DEF JobsInit, SnapshotInv, Apart, OnlyCapturesCrossed, CrossedBeforeSum, CrossedAfterSum,
         SnapshotIsCommitted, SnapshotIsMonthEndUnlessCrossed, LockEndsUnlessCutShort
<1> QED BY <1>1, <1>2, <1>3, <1>4 DEF JobsInv

\* What each action of an instance does, told apart by what it changes.
LEMMA LeaveTypes ==
  ASSUME JobsTypeOK, NEW i \in Instances, NEW phase \in {"idle", "done"}, Leave(i, phase)
  PROVE  /\ pc' \in [Instances -> RunPhases] /\ now' \in [Instances -> Nat]
         /\ earlier' \in [Instances -> SUBSET Transactions]
         /\ balance' \in [Instances -> SUBSET Transactions]
         /\ crossed' = crossed \ {i} /\ crossed' \subseteq Instances
         /\ found' \in [Instances -> SUBSET Lots]
         /\ pc'[i] = phase /\ \A k \in Instances \ {i} : pc'[k] = pc[k]
         /\ now'[i] = 1 /\ \A k \in Instances \ {i} : now'[k] = now[k]
         /\ found'[i] = {} /\ \A k \in Instances \ {i} : found'[k] = found[k]
         /\ \A k \in Instances \ {i} : earlier'[k] = earlier[k] /\ balance'[k] = balance[k]
  BY DEF JobsTypeOK, Leave, Goto, RunPhases, Working

LEMMA GotoTypes ==
  ASSUME JobsTypeOK, NEW i \in Instances, NEW phase \in RunPhases, Goto(i, phase)
  PROVE  /\ pc' \in [Instances -> RunPhases]
         /\ pc'[i] = phase /\ \A k \in Instances \ {i} : pc'[k] = pc[k]
  BY DEF JobsTypeOK, Goto

-----------------------------------------------------------------------------
(* Types *)

LEMMA RunTypes == ASSUME JobsTypeOK, NEW i \in Instances, Run(i) PROVE JobsTypeOK'
<1>1. {"idle", "expire", "list", "existing", "balances", "movement", "notify", "done"} \subseteq RunPhases
  BY DEF RunPhases, Working
<1>2. CASE Expire(i)
  <2>1. Begun(job[i]) \in RunPhases /\ Goto(i, Begun(job[i])) /\ pc[i] # "idle"
    BY <1>1, <1>2 DEF Begun, Expire
  <2>2. ttl' \subseteq Jobs
    BY <1>2, <2>1 DEF Expire, Ending, JobsTypeOK
  <2>3. now' \in [Instances -> Nat] /\ earlier' \in [Instances -> SUBSET Transactions]
    BY <1>2 DEF Expire, JobsTypeOK
  <2>4. \A k \in Instances : pc'[k] # "idle" => job[k] \in Jobs
    BY <2>1, GotoTypes DEF JobsTypeOK
  <2> QED BY <1>2, <2>1, <2>2, <2>3, <2>4, GotoTypes DEF Expire, JobsTypeOK, ledgerVars, history
<1>3. CASE Existing(i)
  <2>1. CASE now[i] >= Boundary /\ snapshot = None
    <3>1. Goto(i, "balances") /\ pc[i] # "idle"
          /\ UNCHANGED <<now, earlier, found, balance, crossed, holders, ttl, job, told, marked>>
          /\ UNCHANGED <<day, month, since, committed, snapshot, disturbed>>
      BY <1>3, <2>1 DEF Existing, ledgerVars, history
    <3> QED BY <1>1, <3>1, GotoTypes DEF JobsTypeOK
  <2>2. CASE ~(now[i] >= Boundary /\ snapshot = None)
    <3>1. Leave(i, "done") /\ pc[i] # "idle"
          /\ UNCHANGED <<holders, ttl, job, told, marked, day, month, since, committed, snapshot, disturbed>>
      BY <1>3, <2>2 DEF Existing, ledgerVars, history
    <3> QED BY <3>1, LeaveTypes DEF JobsTypeOK
  <2> QED BY <2>1, <2>2
<1>4. CASE sumWalletBalances(i)
  <2>1. Goto(i, "movement") /\ pc[i] # "idle" /\ balance' \in [Instances -> SUBSET Transactions]
        /\ UNCHANGED <<now, earlier, found, crossed, holders, ttl, job, told, marked>>
        /\ UNCHANGED <<day, month, since, committed, snapshot, disturbed>>
    BY <1>4 DEF sumWalletBalances, ledgerVars, history, JobsTypeOK
  <2> QED BY <1>1, <2>1, GotoTypes DEF JobsTypeOK
<1>5. CASE Capture(i)
  <2>1. Leave(i, "done") /\ pc[i] # "idle"
        /\ UNCHANGED <<holders, ttl, job, told, marked, day, month, since, committed>>
    BY <1>5 DEF Capture, ledgerVars
  <2>2. disturbed' \in BOOLEAN /\ (snapshot' # None => snapshot' \in Figures)
    <3>1. Create(i, [balanceAtCapture |-> balance[i], movementAfterPeriod |-> sumMovement(i)])
      BY <1>5 DEF Capture
    <3>2. [balanceAtCapture |-> balance[i], movementAfterPeriod |-> sumMovement(i)] \in Figures
      BY DEF Figures, sumMovement, JobsTypeOK
    <3>3. CASE snapshot = None
      BY <3>1, <3>2, <3>3 DEF Create
    <3>4. CASE snapshot # None
      BY <3>1, <3>4 DEF Create, JobsTypeOK
    <3> QED BY <3>3, <3>4
  <2> QED BY <2>1, <2>2, LeaveTypes DEF JobsTypeOK
<1>6. CASE ListDue(i)
  <2>1. Goto(i, "notify") /\ pc[i] # "idle" /\ found' \in [Instances -> SUBSET Lots]
        /\ UNCHANGED <<now, earlier, balance, crossed, holders, ttl, job, told, marked>>
        /\ UNCHANGED <<day, month, since, committed, snapshot, disturbed>>
    BY <1>6 DEF ListDue, DueLots, ledgerVars, history, JobsTypeOK
  <2> QED BY <1>1, <2>1, GotoTypes DEF JobsTypeOK
<1>7. CASE Notify(i)
  <2>1. CASE found[i] = {}
    <3>1. Leave(i, "done") /\ pc[i] # "idle"
          /\ UNCHANGED <<holders, ttl, job, told, marked, day, month, since, committed, snapshot, disturbed>>
      BY <1>7, <2>1 DEF Notify, ledgerVars, history
    <3> QED BY <3>1, LeaveTypes DEF JobsTypeOK
  <2>2. CASE found[i] # {}
    <3>1. PICK S \in SUBSET found[i] :
            Tell(S) /\ found' = [found EXCEPT ![i] = @ \ S]
            /\ UNCHANGED <<pc, now, earlier, balance, crossed, holders, ttl, job>>
            /\ UNCHANGED <<day, month, since, committed, snapshot, disturbed>>
      BY <1>7, <2>2 DEF Notify, ledgerVars, history
    <3>2. told' \in [Lots -> Nat] /\ marked' \subseteq Lots /\ found' \in [Instances -> SUBSET Lots]
      BY <3>1 DEF Tell, JobsTypeOK
    <3> QED BY <3>1, <3>2 DEF JobsTypeOK
  <2> QED BY <2>1, <2>2
<1>8. CASE Del(i)
  <2>1. Leave(i, "idle")
        /\ UNCHANGED <<told, marked, day, month, since, committed, snapshot, disturbed>>
        /\ job' = [job EXCEPT ![i] = "expiry-notice"]
        /\ holders' \in [Jobs -> Nat] /\ ttl' \subseteq Jobs
    BY <1>8 DEF Del, ledgerVars, history, JobsTypeOK
  <2> QED BY <2>1, LeaveTypes DEF JobsTypeOK, JobNames
<1> QED BY <1>2, <1>3, <1>4, <1>5, <1>6, <1>7, <1>8 DEF Run

LEMMA JobsTypesStep == ASSUME JobsTypeOK, [JobsNext]_schedulerVars PROVE JobsTypeOK'
<1>1. ASSUME NEW t \in Transactions, Post(t) \/ Commit(t) PROVE JobsTypeOK'
  <2>1. CASE Post(t)
    <3>1. /\ month' \subseteq Transactions /\ since' \subseteq Transactions
          /\ committed' \subseteq month' \cup since'
      BY <2>1 DEF Post, JobsTypeOK
    <3> QED BY <2>1, <3>1 DEF Post, JobsTypeOK, jobVars, history
  <2>2. CASE Commit(t)
    BY <2>2 DEF Commit, JobsTypeOK
  <2> QED BY <1>1, <2>1, <2>2
<1>2. CASE Midnight
  BY <1>2 DEF Midnight, JobsTypeOK, jobVars, history
<1>3. ASSUME NEW i \in Instances, NEW j \in Jobs, Incr(i, j) PROVE JobsTypeOK'
  <2>1. "expire" \in RunPhases /\ j \in JobNames
    BY JobsAssumption DEF RunPhases, JobNames
  <2>2. holders' \in [Jobs -> Nat]
    BY <1>3 DEF Incr, JobsTypeOK
  <2>3. CASE holders[j] = 0
    <3>1. Goto(i, "expire") /\ job' = [job EXCEPT ![i] = j]
      BY <1>3, <2>3 DEF Incr
    <3>2. job' \in [Instances -> JobNames] /\ job'[i] = j /\ \A k \in Instances \ {i} : job'[k] = job[k]
      BY <2>1, <3>1 DEF JobsTypeOK
    <3>3. \A k \in Instances : pc'[k] # "idle" => job'[k] \in Jobs
      BY <2>1, <3>1, <3>2, GotoTypes DEF JobsTypeOK
    <3> QED BY <1>3, <2>1, <2>2, <3>1, <3>2, <3>3, GotoTypes DEF Incr, JobsTypeOK, ledgerVars, history
  <2>4. CASE holders[j] # 0
    BY <1>3, <2>2, <2>4 DEF Incr, JobsTypeOK, ledgerVars, history
  <2> QED BY <2>3, <2>4
<1>4. ASSUME NEW i \in Instances, Run(i) PROVE JobsTypeOK'
  BY <1>4, RunTypes
<1>5. ASSUME NEW i \in Instances, Fail(i) \/ Die(i) PROVE JobsTypeOK'
  <2>1. PICK phase \in {"idle", "done"} : Leave(i, phase) /\ pc[i] # "idle"
    BY <1>5 DEF Fail, Die, Working
  <2>2. /\ UNCHANGED <<holders, ttl, told, marked, day, month, since, committed, snapshot, disturbed>>
        /\ job' = job \/ (phase = "idle" /\ job' = [job EXCEPT ![i] = "expiry-notice"])
    BY <1>5, <2>1 DEF Fail, Die, Leave, Goto, ledgerVars, history, JobsTypeOK
  <2> QED BY <2>1, <2>2, LeaveTypes DEF JobsTypeOK, JobNames
<1>6. ASSUME NEW j \in Jobs, LockExpires(j) PROVE JobsTypeOK'
  BY <1>6 DEF LockExpires, JobsTypeOK, ledgerVars
<1>7. CASE UNCHANGED schedulerVars
  BY <1>7 DEF schedulerVars, ledgerVars, jobVars, history, JobsTypeOK
<1> QED BY <1>1, <1>2, <1>3, <1>4, <1>5, <1>6, <1>7 DEF JobsNext

-----------------------------------------------------------------------------
(* The locks *)

LEMMA LocksStep ==
  ASSUME JobsTypeOK, LocksInv, [JobsNext]_schedulerVars
  PROVE  LocksInv'
<1> USE DEF LocksInv, OneHolder, HolderHolds, EndingIsThere, NoneBeforeExpire, Busy
<1>1. ASSUME NEW t \in Transactions, Post(t) \/ Commit(t) PROVE LocksInv'
  BY <1>1 DEF Post, Commit, jobVars, history
<1>2. CASE Midnight
  BY <1>2 DEF Midnight, jobVars, history
<1>3. ASSUME NEW i \in Instances, NEW j \in Jobs, Incr(i, j) PROVE LocksInv'
  <2>1. pc[i] = "idle" /\ overran' = overran /\ ttl' = ttl
        /\ holders' = [holders EXCEPT ![j] = IF @ = 0 THEN 1 ELSE 2]
    BY <1>3 DEF Incr, history
  <2>2. \A k \in Jobs : (k # j => holders'[k] = holders[k]) /\ holders'[j] > 0
    BY <2>1 DEF JobsTypeOK
  <2>3. CASE holders[j] = 0
    <3>1. /\ pc'[i] = "expire" /\ job'[i] = j
          /\ \A k \in Instances \ {i} : pc'[k] = pc[k] /\ job'[k] = job[k]
      BY <1>3, <2>3 DEF Incr, Goto, JobsTypeOK
    <3>2. j \notin ttl
      BY <2>3
    <3>3. j \notin overran => \A k \in Instances : ~Busy(k, j)
      BY <2>3
    <3>4. OneHolder'
      BY <2>1, <3>1, <3>3
    <3>5. HolderHolds'
      BY <2>1, <2>2, <3>1
    <3>6. EndingIsThere'
      BY <2>1, <2>2 DEF JobsTypeOK
    <3>7. NoneBeforeExpire'
      BY <2>1, <3>1, <3>2
    <3> QED BY <3>4, <3>5, <3>6, <3>7
  <2>4. CASE holders[j] # 0
    <3>1. UNCHANGED <<pc, job>>
      BY <1>3, <2>4 DEF Incr
    <3>2. HolderHolds' /\ EndingIsThere'
      BY <2>1, <2>2, <3>1 DEF JobsTypeOK
    <3> QED BY <2>1, <3>1, <3>2
  <2> QED BY <2>3, <2>4
<1>4. ASSUME NEW i \in Instances, Expire(i) PROVE LocksInv'
  <2>1. pc[i] = "expire" /\ UNCHANGED <<holders, job, overran>> /\ ttl' = ttl \cup Ending(job[i])
    BY <1>4 DEF Expire, history
  <2>2. pc'[i] \in Working /\ \A k \in Instances \ {i} : pc'[k] = pc[k]
    BY <1>4 DEF Expire, Goto, Begun, Working, JobsTypeOK
  <2>3. OneHolder' /\ HolderHolds'
    BY <2>1, <2>2
  <2>4. EndingIsThere'
    BY <2>1 DEF Ending
  <2>5. NoneBeforeExpire'
    BY <2>1, <2>2 DEF Ending, Working
  <2> QED BY <2>3, <2>4, <2>5
<1>5. ASSUME NEW i \in Instances, Existing(i) \/ sumWalletBalances(i) \/ Capture(i) \/ ListDue(i) \/ Notify(i)
      PROVE  LocksInv'
  <2>1. /\ UNCHANGED <<holders, ttl, job, overran>>
        /\ pc[i] \in {"existing", "balances", "movement", "list", "notify"}
    BY <1>5 DEF Existing, sumWalletBalances, Capture, ListDue, Notify, history
  <2>2. pc'[i] \in Working /\ \A k \in Instances \ {i} : pc'[k] = pc[k]
    <3>1. pc' = pc \/ \E phase \in {"balances", "movement", "notify", "done"} : pc' = [pc EXCEPT ![i] = phase]
      BY <1>5 DEF Existing, sumWalletBalances, Capture, ListDue, Notify, Goto, Leave
    <3> QED BY <2>1, <3>1 DEF Working, JobsTypeOK
  <2>3. \A k \in Instances, j \in Jobs : Busy(k, j)' => Busy(k, j)
    BY <2>1, <2>2 DEF Working
  <2>4. \A k \in Instances : pc'[k] = "expire" => pc[k] = "expire"
    BY <2>2 DEF Working
  <2> QED BY <2>1, <2>3, <2>4
<1>6. ASSUME NEW i \in Instances, Del(i) PROVE LocksInv'
  <2>1. /\ pc[i] = "done" /\ UNCHANGED overran
        /\ holders' = [holders EXCEPT ![job[i]] = 0] /\ ttl' = ttl \ {job[i]}
        /\ pc'[i] = "idle" /\ \A k \in Instances \ {i} : pc'[k] = pc[k] /\ job'[k] = job[k]
    BY <1>6 DEF Del, Leave, Goto, JobsTypeOK, history
  <2>2. job[i] \in Jobs /\ \A k \in Jobs : k # job[i] => holders'[k] = holders[k]
    BY <2>1 DEF JobsTypeOK
  <2>3. OneHolder' /\ NoneBeforeExpire'
    BY <2>1 DEF Working
  <2>4. EndingIsThere'
    BY <2>1, <2>2 DEF JobsTypeOK
  <2>5. HolderHolds'
    <3>1. job[i] \notin overran => \A k \in Instances \ {i} : ~Busy(k, job[i])
      BY <2>1, <2>2 DEF Working
    <3> QED BY <2>1, <2>2, <3>1 DEF Working
  <2> QED BY <2>3, <2>4, <2>5
<1>7. ASSUME NEW i \in Instances, Fail(i) \/ Die(i) PROVE LocksInv'
  <2>1. /\ UNCHANGED <<holders, ttl, overran>>
        /\ pc'[i] = "idle" \/ (pc'[i] = "done" /\ pc[i] \in Working /\ job'[i] = job[i])
        /\ \A k \in Instances \ {i} : pc'[k] = pc[k] /\ job'[k] = job[k]
    BY <1>7 DEF Fail, Die, Leave, Goto, JobsTypeOK, history
  <2>2. \A k \in Instances, j \in Jobs : Busy(k, j)' => Busy(k, j)
    BY <2>1 DEF Working
  <2>3. \A k \in Instances : pc'[k] = "expire" => pc[k] = "expire"
    BY <2>1
  <2> QED BY <2>1, <2>2, <2>3
<1>8. ASSUME NEW j \in Jobs, LockExpires(j) PROVE LocksInv'
  <2>1. /\ j \in ttl /\ holders' = [holders EXCEPT ![j] = 0] /\ ttl' = ttl \ {j}
        /\ UNCHANGED <<job, pc>> /\ overran \subseteq overran'
        /\ (\E i \in Instances : Runs(i, j)) => j \in overran'
    BY <1>8 DEF LockExpires
  <2>2. \A k \in Jobs : k # j => holders'[k] = holders[k]
    BY <2>1 DEF JobsTypeOK
  <2>3. EndingIsThere'
    BY <2>1, <2>2 DEF JobsTypeOK
  <2>4. j \notin overran' => \A i \in Instances : ~Busy(i, j)
    BY <2>1 DEF Runs
  <2>5. HolderHolds'
    BY <2>1, <2>2, <2>4
  <2> QED BY <2>1, <2>3, <2>5
<1>9. CASE UNCHANGED schedulerVars
  BY <1>9 DEF schedulerVars, jobVars, history
<1> QED BY <1>1, <1>2, <1>3, <1>4, <1>5, <1>6, <1>7, <1>8, <1>9 DEF JobsNext, Run

\* A lock without a time to live is about to get one, or its holder died first.
LEMMA EndsStep ==
  ASSUME JobsTypeOK, LockEndsUnlessCutShort, [JobsNext]_schedulerVars
  PROVE  LockEndsUnlessCutShort'
<1> USE DEF LockEndsUnlessCutShort
<1>1. ASSUME NEW t \in Transactions, Post(t) \/ Commit(t) PROVE LockEndsUnlessCutShort'
  BY <1>1 DEF Post, Commit, jobVars, history
<1>2. CASE Midnight
  BY <1>2 DEF Midnight, jobVars, history
<1>3. ASSUME NEW i \in Instances, NEW j \in Jobs, Incr(i, j) PROVE LockEndsUnlessCutShort'
  <2>1. pc[i] = "idle" /\ cutShort' = cutShort /\ ttl' = ttl
        /\ \A k \in Jobs : k # j => holders'[k] = holders[k]
    BY <1>3 DEF Incr, history, JobsTypeOK
  <2>2. CASE holders[j] = 0
    <3>1. /\ pc'[i] = "expire" /\ job'[i] = j
          /\ \A k \in Instances \ {i} : pc'[k] = pc[k] /\ job'[k] = job[k]
      BY <1>3, <2>2 DEF Incr, Goto, JobsTypeOK
    <3> QED BY <2>1, <3>1
  <2>3. CASE holders[j] # 0
    <3>1. UNCHANGED <<pc, job>> /\ holders[j] > 0
      BY <1>3, <2>3 DEF Incr, JobsTypeOK
    <3> QED BY <2>1, <3>1
  <2> QED BY <2>2, <2>3
<1>4. ASSUME NEW i \in Instances, Expire(i) PROVE LockEndsUnlessCutShort'
  <2>1. pc[i] = "expire" /\ UNCHANGED <<holders, job, cutShort>> /\ ttl' = ttl \cup Ending(job[i])
        /\ \A k \in Instances \ {i} : pc'[k] = pc[k]
    BY <1>4 DEF Expire, history, Goto, JobsTypeOK
  <2> QED BY <2>1 DEF Ending
<1>5. ASSUME NEW i \in Instances,
             Existing(i) \/ sumWalletBalances(i) \/ Capture(i) \/ ListDue(i) \/ Notify(i) \/ Fail(i)
      PROVE  LockEndsUnlessCutShort'
  <2>1. UNCHANGED <<holders, ttl, job, cutShort>> /\ pc[i] \in Working
    BY <1>5 DEF Existing, sumWalletBalances, Capture, ListDue, Notify, Fail, Working, history
  <2>2. \A k \in Instances \ {i} : pc'[k] = pc[k]
    <3>1. pc' = pc \/ \E phase : Goto(i, phase)
      BY <1>5 DEF Existing, sumWalletBalances, Capture, ListDue, Notify, Fail, Leave
    <3>2. ASSUME NEW phase, Goto(i, phase) PROVE \A k \in Instances \ {i} : pc'[k] = pc[k]
      BY <3>2 DEF Goto, JobsTypeOK
    <3> QED BY <3>1, <3>2
  <2>3. \A k \in Instances : pc[k] = "expire" => pc'[k] = "expire"
    BY <2>1, <2>2 DEF Working
  <2> QED BY <2>1, <2>3
<1>6. ASSUME NEW i \in Instances, Del(i) PROVE LockEndsUnlessCutShort'
  <2>1. /\ pc[i] = "done" /\ UNCHANGED cutShort
        /\ holders' = [holders EXCEPT ![job[i]] = 0] /\ ttl' = ttl \ {job[i]}
        /\ \A k \in Instances \ {i} : pc'[k] = pc[k] /\ job'[k] = job[k]
    BY <1>6 DEF Del, Leave, Goto, JobsTypeOK, history
  <2>2. ASSUME NEW j \in Jobs \ cutShort', holders'[j] > 0
        PROVE  j \in ttl' \/ \E k \in Instances : job'[k] = j /\ pc'[k] = "expire"
    <3>1. j # job[i] /\ holders[j] > 0
      BY <2>1, <2>2 DEF JobsTypeOK
    <3>2. j \in ttl \/ \E k \in Instances : job[k] = j /\ pc[k] = "expire"
      BY <2>1, <2>2, <3>1
    <3> QED BY <2>1, <3>1, <3>2
  <2> QED BY <2>2
<1>7. ASSUME NEW i \in Instances, Die(i) PROVE LockEndsUnlessCutShort'
  <2>1. /\ UNCHANGED <<holders, ttl>> /\ cutShort \subseteq cutShort'
        /\ pc[i] = "expire" => job[i] \in cutShort'
        /\ \A k \in Instances \ {i} : pc'[k] = pc[k] /\ job'[k] = job[k]
    BY <1>7 DEF Die, Leave, Goto, JobsTypeOK
  <2> QED BY <2>1
<1>8. ASSUME NEW j \in Jobs, LockExpires(j) PROVE LockEndsUnlessCutShort'
  <2>1. /\ holders' = [holders EXCEPT ![j] = 0] /\ ttl' = ttl \ {j}
        /\ UNCHANGED <<job, pc, cutShort>>
    BY <1>8 DEF LockExpires
  <2>2. holders'[j] = 0 /\ \A k \in Jobs : k # j => holders'[k] = holders[k]
    BY <2>1 DEF JobsTypeOK
  <2> QED BY <2>1, <2>2
<1>9. CASE UNCHANGED schedulerVars
  BY <1>9 DEF schedulerVars, jobVars, history
<1> QED BY <1>1, <1>2, <1>3, <1>4, <1>5, <1>6, <1>7, <1>8, <1>9 DEF JobsNext, Run

-----------------------------------------------------------------------------
(* The notices *)

LEMMA NoticesStep ==
  ASSUME JobsTypeOK, LocksInv, NoticesInv, [JobsNext]_schedulerVars
  PROVE  NoticesInv'
<1>1. ASSUME NEW t \in Transactions, Post(t) \/ Commit(t) PROVE NoticesInv'
  BY <1>1 DEF Post, Commit, jobVars, history, NoticesInv
<1>2. CASE Midnight
  BY <1>2 DEF Midnight, jobVars, history, NoticesInv
<1>3. ASSUME NEW i \in Instances, NEW j \in Jobs, Incr(i, j) PROVE NoticesInv'
  <2>1. /\ pc[i] = "idle" /\ UNCHANGED <<found, told, marked, overran>>
        /\ pc'[i] = "idle" \/ pc'[i] = "expire"
        /\ \A k \in Instances \ {i} : pc'[k] = pc[k] /\ job'[k] = job[k]
    BY <1>3 DEF Incr, Goto, history, JobsTypeOK
  <2> QED BY <2>1 DEF NoticesInv
<1>4. ASSUME NEW i \in Instances, Expire(i) PROVE NoticesInv'
  <2>1. /\ pc[i] = "expire" /\ UNCHANGED <<found, told, marked, overran, job>>
        /\ pc'[i] = Begun(job[i]) /\ \A k \in Instances \ {i} : pc'[k] = pc[k]
    BY <1>4 DEF Expire, Goto, history, JobsTypeOK
  <2>2. pc'[i] \in {"list", "notify"} => job[i] = "expiry-notice"
    BY <2>1 DEF Begun
  <2> QED BY <2>1, <2>2 DEF NoticesInv
<1>5. ASSUME NEW i \in Instances, Existing(i) \/ sumWalletBalances(i) \/ Capture(i) PROVE NoticesInv'
  <2>1. /\ pc[i] \in {"existing", "balances", "movement"} /\ UNCHANGED <<told, marked, overran, job>>
        /\ pc'[i] \notin {"list", "notify"} /\ \A k \in Instances \ {i} : pc'[k] = pc[k]
        /\ \A k \in Instances : found'[k] = found[k] \/ found'[k] = {}
    BY <1>5 DEF Existing, sumWalletBalances, Capture, Leave, Goto, history, JobsTypeOK
  <2> QED BY <2>1 DEF NoticesInv
<1>6. ASSUME NEW i \in Instances, ListDue(i) PROVE NoticesInv'
  <2>1. /\ pc[i] = "list" /\ UNCHANGED <<told, marked, overran, job>>
        /\ pc'[i] = "notify" /\ \A k \in Instances \ {i} : pc'[k] = pc[k]
    BY <1>6 DEF ListDue, Goto, history, JobsTypeOK
  <2>2. found'[i] \cap marked = {} /\ \A k \in Instances \ {i} : found'[k] = found[k]
    BY <1>6 DEF ListDue, DueLots, JobsTypeOK
  <2> QED BY <2>1, <2>2 DEF NoticesInv
<1>7. ASSUME NEW i \in Instances, Notify(i) PROVE NoticesInv'
  <2>1. pc[i] = "notify" /\ UNCHANGED <<overran, job>>
    BY <1>7 DEF Notify, history
  <2>2. CASE found[i] = {}
    <3>1. Leave(i, "done") /\ UNCHANGED <<told, marked>>
      BY <1>7, <2>2 DEF Notify
    <3> QED BY <2>1, <3>1, LeaveTypes DEF NoticesInv
  <2>3. CASE found[i] # {}
    <3>1. PICK S \in SUBSET found[i] :
            Tell(S) /\ found' = [found EXCEPT ![i] = @ \ S] /\ pc' = pc
      BY <1>7, <2>3 DEF Notify
    <3>2. /\ found'[i] = found[i] \ S /\ \A k \in Instances \ {i} : found'[k] = found[k]
          /\ marked' = marked \cup S
          /\ \A l \in Lots : told'[l] = IF l \in S THEN told[l] + 1 ELSE told[l]
      BY <3>1 DEF Tell, JobsTypeOK
    <3>3. \A k \in Instances : found'[k] # {} => pc'[k] = "notify"
      BY <2>1, <3>1, <3>2 DEF NoticesInv
    <3>4. ASSUME "expiry-notice" \notin overran
          PROVE  /\ \A l \in Lots : told'[l] <= 1 /\ (l \notin marked' => told'[l] = 0)
                 /\ \A k \in Instances : found'[k] \cap marked' = {}
      <4>1. \A l \in S : l \notin marked /\ told[l] = 0
        BY <3>1, <3>4 DEF NoticesInv, JobsTypeOK
      <4>2. \A l \in Lots : told'[l] <= 1 /\ (l \notin marked' => told'[l] = 0)
        BY <3>2, <3>4, <4>1 DEF NoticesInv, JobsTypeOK
      <4>3. ASSUME NEW k \in Instances \ {i} PROVE found[k] = {}
        <5>1. "expiry-notice" \in Jobs /\ Busy(i, "expiry-notice")
          BY <2>1 DEF NoticesInv, JobsTypeOK, Busy, Working
        <5>2. ~Busy(k, "expiry-notice")
          BY <3>4, <5>1 DEF LocksInv, OneHolder
        <5> QED BY <5>2 DEF NoticesInv, Busy, Working
      <4> QED BY <3>2, <3>4, <4>2, <4>3 DEF NoticesInv
    <3> QED BY <2>1, <3>1, <3>3, <3>4 DEF NoticesInv
  <2> QED BY <2>2, <2>3
<1>8. ASSUME NEW i \in Instances, Del(i) \/ Fail(i) \/ Die(i) PROVE NoticesInv'
  <2>1. /\ UNCHANGED <<told, marked, overran>>
        /\ \A k \in Instances \ {i} : job'[k] = job[k]
        /\ \E phase \in {"idle", "done"} : Leave(i, phase)
    BY <1>8 DEF Del, Fail, Die, history, JobsTypeOK
  <2> QED BY <2>1, LeaveTypes DEF NoticesInv
<1>9. ASSUME NEW j \in Jobs, LockExpires(j) PROVE NoticesInv'
  <2>1. UNCHANGED <<told, marked, job, pc, found>> /\ overran \subseteq overran'
    BY <1>9 DEF LockExpires
  <2> QED BY <2>1 DEF NoticesInv
<1>10. CASE UNCHANGED schedulerVars
  BY <1>10 DEF schedulerVars, jobVars, history, NoticesInv
<1> QED BY <1>1, <1>2, <1>3, <1>4, <1>5, <1>6, <1>7, <1>8, <1>9, <1>10 DEF JobsNext, Run

-----------------------------------------------------------------------------
(* The snapshot *)

LEMMA SnapshotStep ==
  ASSUME JobsTypeOK, SnapshotInv, [JobsNext]_schedulerVars
  PROVE  SnapshotInv'
<1> USE DEF SnapshotInv, Apart, OnlyCapturesCrossed, CrossedBeforeSum, CrossedAfterSum,
            SnapshotIsCommitted, SnapshotIsMonthEndUnlessCrossed, sumMovement
<1>t. /\ month \subseteq Transactions /\ since \subseteq Transactions
      /\ committed \subseteq month \cup since
      /\ crossed \subseteq Instances
      /\ \A i \in Instances : earlier[i] \subseteq Transactions /\ balance[i] \subseteq Transactions
  BY DEF JobsTypeOK
\* A step that leaves the transactions alone changes one run.
<1>1. ASSUME UNCHANGED <<month, since, committed, snapshot, disturbed>>, NEW i \in Instances,
             \A k \in Instances \ {i} : UNCHANGED <<pc[k], earlier[k], balance[k]>>,
             crossed' \ {i} = crossed \ {i},
             i \in crossed' => pc'[i] \in {"existing", "balances", "movement"},
             pc'[i] \in {"existing", "balances"} =>
               (i \notin crossed' <=> since \cap committed \subseteq earlier'[i]),
             pc'[i] = "movement" =>
               /\ balance'[i] \subseteq committed
               /\ i \notin crossed' <=> balance'[i] = (month \cap committed)
                                                      \cup (since \cap earlier'[i] \cap committed)
      PROVE  SnapshotInv'
  <2>1. OnlyCapturesCrossed'
    BY <1>1, <1>t
  <2>2. CrossedBeforeSum'
    BY <1>1
  <2>3. CrossedAfterSum'
    BY <1>1
  <2> QED BY <1>1, <2>1, <2>2, <2>3
<1>2. ASSUME NEW i \in Instances, NEW phase \in {"idle", "done"}, Leave(i, phase),
             UNCHANGED <<month, since, committed, snapshot, disturbed>>
      PROVE  SnapshotInv'
  <2>1. /\ pc'[i] = phase /\ crossed' = crossed \ {i}
        /\ \A k \in Instances \ {i} : UNCHANGED <<pc[k], earlier[k], balance[k]>>
    BY <1>2, LeaveTypes
  <2> QED BY <1>1, <1>2, <2>1
\* A transaction that begins is in none of the sums, and earlier than no run.
<1>3. ASSUME NEW t \in Transactions, Post(t) PROVE SnapshotInv'
  <2>1. /\ t \notin month \cup since
        /\ \/ month' = month \cup {t} /\ since' = since
           \/ since' = since \cup {t} /\ month' = month
        /\ UNCHANGED <<committed, pc, earlier, balance, crossed, snapshot, disturbed>>
    BY <1>3 DEF Post, jobVars, history
  <2>2. t \notin committed
    BY <2>1, <1>t
  <2>3. /\ month' \cap committed' = month \cap committed
        /\ since' \cap committed' = since \cap committed
        /\ \A k \in Instances : sumMovement(k)' = sumMovement(k)
    BY <2>1, <2>2
  <2> QED BY <2>1, <2>3
\* A commit crosses a run exactly when it falsifies what the run relies on.
<1>4. ASSUME NEW t \in Transactions, Commit(t) PROVE SnapshotInv'
  <2>1. /\ t \in month \cup since /\ t \notin committed /\ committed' = committed \cup {t}
        /\ crossed' = crossed \cup {i \in Instances : Crosses(t, i)}
        /\ disturbed' = (disturbed \/ (snapshot # None /\ t \in month))
        /\ UNCHANGED <<month, since, pc, earlier, balance, snapshot>>
    BY <1>4 DEF Commit
  <2>2. \A k \in Instances : k \in crossed' <=> k \in crossed \/ Crosses(t, k)
    BY <2>1
  <2>3. Apart' /\ OnlyCapturesCrossed'
    BY <2>1, <2>2 DEF Crosses
  <2>4. CrossedBeforeSum'
    <3>1. ASSUME NEW k \in Instances, pc[k] \in {"existing", "balances"}
          PROVE  k \notin crossed' <=> since \cap committed' \subseteq earlier[k]
      <4>1. Crosses(t, k) <=> t \in since \ earlier[k]
        BY <3>1 DEF Crosses
      <4> QED BY <2>1, <2>2, <3>1, <4>1
    <3> QED BY <2>1, <3>1
  <2>5. CrossedAfterSum'
    <3>1. ASSUME NEW k \in Instances, pc[k] = "movement"
          PROVE  k \notin crossed' <=> balance[k] = (month \cap committed')
                                                    \cup (since \cap earlier[k] \cap committed')
      <4>1. Crosses(t, k) <=> t \in month \cup earlier[k]
        BY <3>1 DEF Crosses
      <4>2. t \notin balance[k]
        BY <2>1, <3>1
      <4>3. CASE Crosses(t, k)
        BY <2>1, <2>2, <4>1, <4>2, <4>3
      <4>4. CASE ~Crosses(t, k)
        <5>1. /\ month \cap committed' = month \cap committed
              /\ since \cap earlier[k] \cap committed' = since \cap earlier[k] \cap committed
          BY <2>1, <4>1, <4>4
        <5> QED BY <2>2, <3>1, <4>4, <5>1
      <4> QED BY <4>3, <4>4
    <3> QED BY <2>1, <3>1
  <2>6. SnapshotIsCommitted'
    BY <2>1
  <2>7. SnapshotIsMonthEndUnlessCrossed'
    <3>1. CASE t \in month
      BY <2>1, <3>1
    <3>2. CASE t \notin month
      <4>1. month \cap committed' = month \cap committed
        BY <2>1, <3>2
      <4> QED BY <2>1, <3>2, <4>1
    <3> QED BY <3>1, <3>2
  <2> QED BY <2>3, <2>4, <2>5, <2>6, <2>7
<1>5. CASE Midnight
  BY <1>5 DEF Midnight, jobVars, history
<1>6. ASSUME NEW i \in Instances, NEW j \in Jobs, Incr(i, j) PROVE SnapshotInv'
  <2>1. /\ UNCHANGED <<month, since, committed, snapshot, disturbed, earlier, balance, crossed>>
        /\ pc[i] = "idle" /\ pc'[i] \in {"idle", "expire"}
        /\ \A k \in Instances \ {i} : pc'[k] = pc[k]
    BY <1>6 DEF Incr, Goto, ledgerVars, history, JobsTypeOK
  <2> QED BY <1>1, <2>1
<1>7. ASSUME NEW i \in Instances, Expire(i) PROVE SnapshotInv'
  <2>1. /\ UNCHANGED <<month, since, committed, snapshot, disturbed, balance, crossed>>
        /\ pc[i] = "expire" /\ pc' = [pc EXCEPT ![i] = Begun(job[i])]
        /\ earlier' = IF job[i] = "expiry-notice" THEN earlier
                      ELSE [earlier EXCEPT ![i] = month \cup since]
    BY <1>7 DEF Expire, Goto, ledgerVars, history
  <2>2. /\ pc'[i] = Begun(job[i]) /\ i \notin crossed
        /\ job[i] # "expiry-notice" => earlier'[i] = month \cup since
        /\ \A k \in Instances \ {i} : UNCHANGED <<pc[k], earlier[k], balance[k]>>
    BY <2>1 DEF JobsTypeOK
  <2> QED BY <1>1, <2>1, <2>2 DEF Begun
<1>8. ASSUME NEW i \in Instances, Existing(i) PROVE SnapshotInv'
  <2>1. pc[i] = "existing" /\ UNCHANGED <<month, since, committed, snapshot, disturbed>>
    BY <1>8 DEF Existing, ledgerVars, history
  <2>2. CASE now[i] >= Boundary /\ snapshot = None
    <3>1. Goto(i, "balances") /\ UNCHANGED <<earlier, balance, crossed>>
      BY <1>8, <2>2 DEF Existing
    <3>2. pc'[i] = "balances" /\ \A k \in Instances \ {i} : pc'[k] = pc[k]
      BY <3>1 DEF Goto, JobsTypeOK
    <3> QED BY <1>1, <2>1, <3>1, <3>2
  <2>3. CASE ~(now[i] >= Boundary /\ snapshot = None)
    BY <1>2, <1>8, <2>1, <2>3 DEF Existing
  <2> QED BY <2>2, <2>3
<1>9. ASSUME NEW i \in Instances, sumWalletBalances(i) PROVE SnapshotInv'
  <2>1. /\ pc[i] = "balances"
        /\ UNCHANGED <<month, since, committed, snapshot, disturbed, earlier, crossed>>
        /\ balance'[i] = committed /\ pc'[i] = "movement"
        /\ \A k \in Instances \ {i} : pc'[k] = pc[k] /\ balance'[k] = balance[k]
    BY <1>9 DEF sumWalletBalances, Goto, ledgerVars, history, JobsTypeOK
  <2>2. since \cap committed \subseteq earlier[i]
          <=> committed = (month \cap committed) \cup (since \cap earlier[i] \cap committed)
    BY <1>t
  <2>3. i \notin crossed <=> since \cap committed \subseteq earlier[i]
    BY <2>1
  <2> QED BY <1>1, <2>1, <2>2, <2>3
<1>10. ASSUME NEW i \in Instances, Capture(i) PROVE SnapshotInv'
  <2> DEFINE figures == [balanceAtCapture |-> balance[i], movementAfterPeriod |-> sumMovement(i)]
  <2>1. /\ pc[i] = "movement" /\ Leave(i, "done") /\ UNCHANGED <<month, since, committed>>
        /\ Create(i, figures)
    BY <1>10 DEF Capture, ledgerVars
  <2>2. CASE snapshot # None
    BY <1>2, <2>1, <2>2 DEF Create
  <2>3. CASE snapshot = None
    <3>1. snapshot' = figures /\ disturbed' = (i \in crossed)
      BY <2>1, <2>3 DEF Create
    <3>2. SnapshotIsCommitted' /\ SnapshotIsMonthEndUnlessCrossed'
      BY <2>1, <3>1
    <3>3. /\ pc'[i] = "done" /\ crossed' = crossed \ {i}
          /\ \A k \in Instances \ {i} : UNCHANGED <<pc[k], earlier[k], balance[k]>>
      BY <2>1, LeaveTypes
    <3>4. OnlyCapturesCrossed' /\ CrossedBeforeSum' /\ CrossedAfterSum'
      BY <2>1, <3>3, <1>t
    <3> QED BY <2>1, <3>2, <3>4
  <2> QED BY <2>2, <2>3
<1>11. ASSUME NEW i \in Instances, ListDue(i) \/ Notify(i) PROVE SnapshotInv'
  <2>1. /\ UNCHANGED <<month, since, committed, snapshot, disturbed>>
        /\ pc[i] \in {"list", "notify"}
        /\ \/ UNCHANGED <<earlier, balance, crossed>> /\ pc' \in {pc, [pc EXCEPT ![i] = "notify"]}
           \/ Leave(i, "done")
    BY <1>11 DEF ListDue, Notify, Goto, ledgerVars, history
  <2>2. CASE UNCHANGED <<earlier, balance, crossed>> /\ pc' \in {pc, [pc EXCEPT ![i] = "notify"]}
    <3>1. pc'[i] \in {"list", "notify"} /\ \A k \in Instances \ {i} : pc'[k] = pc[k]
      BY <2>1, <2>2 DEF JobsTypeOK
    <3> QED BY <1>1, <2>1, <2>2, <3>1
  <2> QED BY <1>2, <2>1, <2>2
<1>12. ASSUME NEW i \in Instances, Del(i) \/ Fail(i) \/ Die(i) PROVE SnapshotInv'
  <2>1. /\ UNCHANGED <<month, since, committed, snapshot, disturbed>>
        /\ \E phase \in {"idle", "done"} : Leave(i, phase)
    BY <1>12 DEF Del, Fail, Die, ledgerVars, history
  <2> QED BY <1>2, <2>1
<1>13. ASSUME NEW j \in Jobs, LockExpires(j) PROVE SnapshotInv'
  BY <1>13 DEF LockExpires, ledgerVars
<1>14. CASE UNCHANGED schedulerVars
  BY <1>14 DEF schedulerVars, jobVars, ledgerVars, history
<1> QED BY <1>3, <1>4, <1>5, <1>6, <1>7, <1>8, <1>9, <1>10, <1>11, <1>12, <1>13, <1>14
        DEF JobsNext, Run

-----------------------------------------------------------------------------
LEMMA JobsInvariance == JobsSpec => []JobsInv
<1>1. JobsInv /\ [JobsNext]_schedulerVars => JobsInv'
  BY JobsTypesStep, LocksStep, NoticesStep, SnapshotStep, EndsStep DEF JobsInv
<1> QED BY <1>1, JobsInitInv, PTL DEF JobsSpec

\* The lock in Redis keeps a job to one instance until it runs out under it,
\* whatever INCRs are lost and whichever processes die (withLock).
THEOREM JobExclusion == JobsSpec => []OneUnlessOverrun
<1>1. JobsInv => OneUnlessOverrun
  BY DEF JobsInv, LocksInv, OneHolder, Busy, OneUnlessOverrun, Runs
<1> QED BY <1>1, JobsInvariance, PTL

\* A read long before the marks, and transactions per account in between, tell
\* nobody twice, for any lots, accounts and runs (createExpiryNotices).
THEOREM ToldOnce == JobsSpec => []ToldOnceUnlessOverrun
<1>1. JobsInv => ToldOnceUnlessOverrun
  BY DEF JobsInv, NoticesInv, ToldOnceUnlessOverrun
<1> QED BY <1>1, JobsInvariance, PTL

\* Four statements outside a transaction give the month's figure, for any number
\* of captures at once and of transactions, if and only if no commit crosses the
\* capture and none of the month comes after it (captureMonthEndSnapshot).
THEOREM MonthEnd == JobsSpec => []SnapshotIsMonthEndUnlessCrossed
<1>1. JobsInv => SnapshotIsMonthEndUnlessCrossed
  BY DEF JobsInv, SnapshotInv
<1> QED BY <1>1, JobsInvariance, PTL

\* Only a death between INCR and EXPIRE leaves a lock that never ends.
THEOREM LockEnds == JobsSpec => []LockEndsUnlessCutShort
<1>1. JobsInv => LockEndsUnlessCutShort
  BY DEF JobsInv
<1> QED BY <1>1, JobsInvariance, PTL

=============================================================================
