----------------------------- MODULE StoreProofs -----------------------------
(***************************************************************************)
(* The invariants of the order journal, for every set of intents, order    *)
(* quantity, open-order limit and revision bound, and for every client.    *)
(***************************************************************************)
EXTENDS Store, TLAPS

USE QtyAssumption, MaxRevisionAssumption

\* StoreInitInv: an empty database satisfies the invariant.
LEMMA StoreInitInv == StoreInit => StoreInv
  BY DEF StoreInit, StoreInv, StoreTypeOK, JournalsAgree, RowsAgree,
         FillsFollowOutcome, BookedWithinOrder, ServiceState

\* ControlPreserves: a write of the service state leaves the journal alone.
LEMMA ControlPreserves == StoreInv /\ ControlStep => StoreInv'
  BY DEF ControlStep, set_service_state, set_service_state_if_unchanged,
         journalVars, fillVars, StoreInv, StoreTypeOK, JournalsAgree, RowsAgree,
         FillsFollowOutcome, BookedWithinOrder, ServiceState

\* TransitionPreserves: the four moves of transition_intent that have no order.
LEMMA TransitionPreserves ==
  ASSUME StoreInv, NEW i \in Intents, NEW from, NEW to,
         <<from, to>> \in {<<"RECEIVED", "VALIDATING">>, <<"RECEIVED", "REJECTED">>,
                           <<"VALIDATING", "REJECTED">>, <<"APPROVED", "PREPARING">>},
         transition_intent(i, from, to)
  PROVE  StoreInv'
  BY DEF transition_intent, controlVars, fillVars, StoreInv, StoreTypeOK,
         JournalsAgree, RowsAgree, FillsFollowOutcome, BookedWithinOrder,
         IntentState

\* IntentPreserves: admission, validation, reservation and preparation.
LEMMA IntentPreserves ==
  ASSUME StoreInv, NEW i \in Intents, IntentStep(i)
  PROVE  StoreInv'
<1> USE DEF controlVars, fillVars, StoreInv, StoreTypeOK, JournalsAgree,
            RowsAgree, FillsFollowOutcome, BookedWithinOrder, IntentState,
            ReservationState
<1>1. CASE admit_intent(i)
  BY <1>1 DEF admit_intent
<1>2. CASE \/ transition_intent(i, "RECEIVED", "VALIDATING")
           \/ transition_intent(i, "RECEIVED", "REJECTED")
           \/ transition_intent(i, "VALIDATING", "REJECTED")
           \/ transition_intent(i, "APPROVED", "PREPARING")
  BY <1>2, TransitionPreserves
<1>3. CASE approve_risk(i)
  BY <1>3 DEF approve_risk
<1>4. CASE create_prepared_order(i)
  BY <1>4 DEF create_prepared_order, OrderState, AttemptState
<1>5. CASE reject_preparation(i)
  BY <1>5 DEF reject_preparation
<1>6. QED
  BY <1>1, <1>2, <1>3, <1>4, <1>5 DEF IntentStep, evaluate_and_reserve_risk

\* FillArithmetic: booking a validated fill keeps the booked quantity a natural
\* number within what the order no longer has to fill.
LEMMA FillArithmetic ==
  ASSUME StoreInv, NEW i \in Intents, NEW delta \in Int, NEW key \in 0..Qty,
         NEW left \in 0..Qty, apply_matched_fill(i, delta, key),
         booked[i] + left <= Qty,
         delta > 0 => booked[i] + delta + left <= Qty
  PROVE  /\ tradeIds' \in [Intents -> SUBSET (0..Qty)]
         /\ booked' \in [Intents -> 0..Qty]
         /\ booked'[i] + left <= Qty
         /\ \A j \in Intents \ {i} : booked'[j] = booked[j] /\ tradeIds'[j] = tradeIds[j]
  BY DEF apply_matched_fill, StoreInv, StoreTypeOK

\* FinishPreserves: each outcome finish_submission commits.
LEMMA FinishPreserves ==
  ASSUME StoreInv, NEW i \in Intents, NEW next, NEW state, NEW filled \in 0..Qty,
         NEW ids \in 0..Qty, finish_submission(i, next, state, filled, ids),
         \/ next = "SUBMITTED" /\ state \in {"LIVE", "FILLED", "CANCELLED", "EXPIRED"}
         \/ next = "UNKNOWN" /\ state = "UNKNOWN" /\ filled = 0
         \/ next = "SUBMITTED" /\ state = "REJECTED" /\ filled = 0
  PROVE  StoreInv'
<1> DEFINE left == SubmissionRemaining(state, filled)
<1>1. left \in 0..Qty /\ left + filled <= Qty
  BY DEF finish_submission, SubmissionRemaining, validate_venue_order_evidence,
         TerminalOrderState
<1>2. booked[i] = 0 /\ attempt[i] = "SUBMITTING" /\ reservation[i] = "CONSUMED"
      /\ tradeIds[i] = {}
  BY DEF finish_submission, StoreInv, JournalsAgree, RowsAgree, FillsFollowOutcome
<1>3. /\ tradeIds' \in [Intents -> SUBSET (0..Qty)]
      /\ booked' \in [Intents -> 0..Qty]
      /\ booked'[i] + left <= Qty
      /\ \A j \in Intents \ {i} : booked'[j] = booked[j] /\ tradeIds'[j] = tradeIds[j]
  <2>1. CASE next = "SUBMITTED"
    BY <2>1, <1>1, <1>2, FillArithmetic DEF finish_submission
  <2>2. CASE next = "UNKNOWN"
    BY <2>2, <1>1, <1>2 DEF finish_submission, StoreInv, StoreTypeOK
  <2>3. QED
    BY <2>1, <2>2
<1>4. next = "UNKNOWN" => left = Qty /\ booked'[i] = 0 /\ tradeIds'[i] = {}
  BY <1>2 DEF finish_submission, SubmissionRemaining, TerminalOrderState
<1> HIDE DEF left
<1>5. /\ intent' = [intent EXCEPT ![i] = next]
      /\ order' = [order EXCEPT ![i] = state]
      /\ venueOrderId' = [venueOrderId EXCEPT ![i] = @ \/ state # "REJECTED"]
      /\ remaining' = [remaining EXCEPT ![i] = left]
      /\ attempt' = [attempt EXCEPT ![i] =
           IF next = "UNKNOWN" THEN "UNKNOWN"
           ELSE IF state = "REJECTED" THEN "REJECTED" ELSE "ACCEPTED"]
      /\ UNCHANGED <<control, revision, reservation>>
  BY <1>2 DEF finish_submission, controlVars, left, StoreInv, StoreTypeOK
<1>6. StoreTypeOK'
  BY <1>1, <1>3, <1>5
  DEF StoreInv, StoreTypeOK, IntentState, OrderState, AttemptState
<1>7. JournalsAgree'
  BY <1>2, <1>5
  DEF StoreInv, StoreTypeOK, JournalsAgree, RowsAgree, ReconciledOrderState,
      TerminalOrderState
<1>8. FillsFollowOutcome'
  BY <1>3, <1>4, <1>5 DEF StoreInv, StoreTypeOK, FillsFollowOutcome
<1>9. BookedWithinOrder'
  BY <1>1, <1>3, <1>5 DEF StoreInv, StoreTypeOK, BookedWithinOrder
<1>10. QED
  BY <1>6, <1>7, <1>8, <1>9 DEF StoreInv

\* ResolvePreserves: positive evidence for an ambiguous submission.
LEMMA ResolvePreserves ==
  ASSUME StoreInv, NEW i \in Intents, NEW e \in VenueEvidence,
         resolve_unknown_submission(i, e)
  PROVE  StoreInv'
<1>1. /\ e.state \in ReconciledOrderState \cup TerminalOrderState
      /\ e.filled \in 0..Qty /\ e.remaining \in 0..Qty /\ e.ids \in 0..Qty
      /\ e.remaining + e.filled <= Qty
  BY DEF resolve_unknown_submission, validate_venue_order_evidence, VenueEvidence,
         OrderState, ReconciledOrderState, TerminalOrderState
<1>2. intent[i] = "UNKNOWN"
  BY DEF resolve_unknown_submission, StoreInv, StoreTypeOK, JournalsAgree,
         RowsAgree, IntentState, ReconciledOrderState, TerminalOrderState
<1>3. /\ booked[i] = 0 /\ attempt[i] = "UNKNOWN" /\ reservation[i] = "CONSUMED"
  BY <1>2 DEF StoreInv, JournalsAgree, RowsAgree, FillsFollowOutcome
<1>4. /\ tradeIds' \in [Intents -> SUBSET (0..Qty)]
      /\ booked' \in [Intents -> 0..Qty]
      /\ booked'[i] + e.remaining <= Qty
      /\ \A j \in Intents \ {i} : booked'[j] = booked[j] /\ tradeIds'[j] = tradeIds[j]
  BY <1>1, <1>3, FillArithmetic DEF resolve_unknown_submission
<1>5. /\ intent' = [intent EXCEPT ![i] = "SUBMITTED"]
      /\ order' = [order EXCEPT ![i] = e.state]
      /\ venueOrderId' = [venueOrderId EXCEPT ![i] = TRUE]
      /\ remaining' = [remaining EXCEPT ![i] = e.remaining]
      /\ attempt' = [attempt EXCEPT ![i] = "RESOLVED"]
      /\ UNCHANGED <<control, revision, reservation>>
  BY <1>2, <1>3 DEF resolve_unknown_submission, controlVars, StoreInv, StoreTypeOK
<1>6. StoreTypeOK'
  BY <1>1, <1>4, <1>5
  DEF StoreInv, StoreTypeOK, IntentState, OrderState, AttemptState,
      ReconciledOrderState, TerminalOrderState
<1>7. JournalsAgree'
  BY <1>1, <1>3, <1>5 DEF StoreInv, StoreTypeOK, JournalsAgree, RowsAgree
<1>8. FillsFollowOutcome'
  BY <1>4, <1>5 DEF StoreInv, StoreTypeOK, FillsFollowOutcome
<1>9. BookedWithinOrder'
  BY <1>1, <1>4, <1>5 DEF StoreInv, StoreTypeOK, BookedWithinOrder
<1>10. QED
  BY <1>6, <1>7, <1>8, <1>9 DEF StoreInv

\* ProjectPreserves: a venue observation, fresh or stale, of a submitted order.
LEMMA ProjectPreserves ==
  ASSUME StoreInv, NEW i \in Intents, NEW e \in VenueEvidence,
         order[i] \in ReconciledOrderState \cup TerminalOrderState,
         reconcile_order_projection(i, e)
  PROVE  StoreInv'
<1>1. /\ e.state \in ReconciledOrderState \cup TerminalOrderState
      /\ e.filled \in 0..Qty /\ e.remaining \in 0..Qty /\ e.ids \in 0..Qty
      /\ e.remaining + e.filled <= Qty
  BY DEF reconcile_order_projection, validate_venue_order_evidence, VenueEvidence,
         OrderState, ReconciledOrderState, TerminalOrderState
<1>2. intent[i] = "SUBMITTED"
  BY DEF reconcile_order_projection, StoreInv, StoreTypeOK, JournalsAgree,
         FillsFollowOutcome, RowsAgree, IntentState, ReconciledOrderState,
         TerminalOrderState
<1>3. booked[i] \in 0..Qty /\ remaining[i] \in 0..Qty /\ booked[i] + remaining[i] <= Qty
  BY DEF StoreInv, StoreTypeOK, BookedWithinOrder
<1>4. /\ tradeIds' \in [Intents -> SUBSET (0..Qty)]
      /\ booked' \in [Intents -> 0..Qty]
      /\ booked'[i] + e.remaining <= Qty
      /\ \A j \in Intents \ {i} : booked'[j] = booked[j] /\ tradeIds'[j] = tradeIds[j]
  <2> DEFINE delta == e.filled - LocalFilled(i)
  <2>1. /\ delta \in Int /\ booked[i] + delta + e.remaining <= Qty
        /\ booked[i] + e.remaining <= Qty
    BY <1>1, <1>3 DEF LocalFilled, reconcile_order_projection
  <2>2. apply_matched_fill(i, delta, e.ids)
    BY DEF reconcile_order_projection
  <2> HIDE DEF delta
  <2>3. QED
    BY <1>1, <2>1, <2>2, FillArithmetic
<1>5. /\ order' = [order EXCEPT ![i] = order'[i]]
      /\ order'[i] \in ReconciledOrderState \cup TerminalOrderState
      /\ remaining' = [remaining EXCEPT ![i] = e.remaining]
      /\ UNCHANGED <<control, revision, intent, reservation, attempt, venueOrderId>>
  BY <1>1
  DEF reconcile_order_projection, controlVars, StoreInv, StoreTypeOK,
      ReconciledOrderState
<1>6. StoreTypeOK'
  BY <1>1, <1>4, <1>5
  DEF StoreInv, StoreTypeOK, OrderState, ReconciledOrderState, TerminalOrderState
<1>7. JournalsAgree'
  BY <1>2, <1>5 DEF StoreInv, StoreTypeOK, JournalsAgree, RowsAgree
<1>8. FillsFollowOutcome'
  BY <1>2, <1>4, <1>5 DEF StoreInv, StoreTypeOK, FillsFollowOutcome
<1>9. BookedWithinOrder'
  BY <1>1, <1>4, <1>5 DEF StoreInv, StoreTypeOK, BookedWithinOrder
<1>10. QED
  BY <1>6, <1>7, <1>8, <1>9 DEF StoreInv

\* OrderPreserves: submission, venue observations and cancellation.
LEMMA OrderPreserves ==
  ASSUME StoreInv, NEW i \in Intents, OrderStep(i)
  PROVE  StoreInv'
<1>1. CASE begin_submission(i)
  BY <1>1
  DEF begin_submission, controlVars, fillVars, StoreInv, StoreTypeOK,
      JournalsAgree, RowsAgree, FillsFollowOutcome, BookedWithinOrder,
      IntentState, OrderState, AttemptState
<1>2. CASE SubmissionOutcome(i)
  <2>1. CASE \E state \in {"LIVE", "FILLED", "CANCELLED", "EXPIRED"},
               filled \in 0..Qty, ids \in 0..Qty :
               finish_submission(i, "SUBMITTED", state, filled, ids)
    BY <2>1, FinishPreserves
  <2>2. CASE \/ finish_submission(i, "UNKNOWN", "UNKNOWN", 0, 0)
             \/ finish_submission(i, "SUBMITTED", "REJECTED", 0, 0)
    <3>1. 0 \in 0..Qty
      OBVIOUS
    <3>2. QED
      BY <2>2, <3>1, FinishPreserves
  <2>3. QED
    BY <1>2, <2>1, <2>2 DEF SubmissionOutcome
<1>3. CASE \E e \in VenueEvidence : resolve_unknown_submission(i, e)
  BY <1>3, ResolvePreserves
<1>4. CASE /\ order[i] \in ReconciledOrderState \cup TerminalOrderState
           /\ \E e \in VenueEvidence : reconcile_order_projection(i, e)
  BY <1>4, ProjectPreserves
<1>5. ASSUME NEW next \in {"CANCEL_PENDING", "FILLED", "CANCELLED", "EXPIRED"},
             transition_order(i, next)
      PROVE  StoreInv'
  <2>1. intent[i] \in {"SUBMITTED", "UNKNOWN", "REJECTED"}
    BY <1>5
    DEF transition_order, valid_order_transition, StoreInv, StoreTypeOK,
        JournalsAgree, RowsAgree, IntentState, TerminalOrderState
  <2>2. \/ UNCHANGED <<order, intent>>
        \/ /\ intent[i] = "SUBMITTED"
           /\ order' = [order EXCEPT ![i] = next]
           /\ UNCHANGED intent
        \/ /\ intent[i] = "UNKNOWN"
           /\ order' = [order EXCEPT ![i] = next]
           /\ intent' = [intent EXCEPT ![i] = "SUBMITTED"]
    BY <1>5, <2>1
    DEF transition_order, valid_order_transition, StoreInv, StoreTypeOK,
        JournalsAgree, RowsAgree
  <2>3. QED
    BY <1>5, <2>2
    DEF transition_order, controlVars, fillVars, StoreInv, StoreTypeOK,
        JournalsAgree, RowsAgree, FillsFollowOutcome, BookedWithinOrder,
        IntentState, OrderState, ReconciledOrderState, TerminalOrderState
<1>6. CASE cancel_prepared_order(i)
  BY <1>6
  DEF cancel_prepared_order, controlVars, fillVars, StoreInv, StoreTypeOK,
      JournalsAgree, RowsAgree, FillsFollowOutcome, BookedWithinOrder,
      IntentState, OrderState, AttemptState, ReconciledOrderState,
      TerminalOrderState
<1>7. QED
  BY <1>1, <1>2, <1>3, <1>4, <1>5, <1>6 DEF OrderStep

\* RecoveryPreserves: the two recovery transactions of a restart.
LEMMA RecoveryPreserves == StoreInv /\ RecoveryStep => StoreInv'
<1> SUFFICES ASSUME StoreInv, RecoveryStep PROVE StoreInv'
  OBVIOUS
<1>1. CASE recover_interrupted_submissions
  BY <1>1
  DEF recover_interrupted_submissions, Interrupted, controlVars, StoreInv,
      StoreTypeOK, JournalsAgree, RowsAgree, FillsFollowOutcome,
      BookedWithinOrder, IntentState, OrderState, AttemptState,
      ReconciledOrderState, TerminalOrderState
<1>2. CASE recover_pre_submission_work
  BY <1>2
  DEF recover_pre_submission_work, Recoverable, RecoverableIntentState,
      controlVars, fillVars, StoreInv, StoreTypeOK, JournalsAgree, RowsAgree,
      FillsFollowOutcome, BookedWithinOrder, IntentState, ReservationState
<1>3. QED
  BY <1>1, <1>2 DEF RecoveryStep

\* StoreStepPreserves: every transaction preserves the invariant.
LEMMA StoreStepPreserves == StoreInv /\ [StoreNext]_storeVars => StoreInv'
<1> SUFFICES ASSUME StoreInv, [StoreNext]_storeVars PROVE StoreInv'
  OBVIOUS
<1>1. CASE UNCHANGED storeVars
  BY <1>1
  DEF storeVars, StoreInv, StoreTypeOK, JournalsAgree, RowsAgree,
      FillsFollowOutcome, BookedWithinOrder
<1>2. QED
  BY <1>1, ControlPreserves, IntentPreserves, OrderPreserves, RecoveryPreserves
  DEF StoreNext

\* StoreInvariant: the inductive invariant holds in every reachable state.
THEOREM StoreInvariant == StoreSpec => []StoreInv
  BY StoreInitInv, StoreStepPreserves, PTL DEF StoreSpec

\* StoreTypeCorrect: every column only ever holds one of its values.
THEOREM StoreTypeCorrect == StoreSpec => []StoreTypeOK
<1>1. StoreInv => StoreTypeOK
  BY DEF StoreInv
<1>2. QED
  BY <1>1, StoreInvariant, PTL

\* JournalAgreement: the four tables agree on the life of every intent in every
\* committed state (store.rs), whatever client drives the store.
THEOREM JournalAgreement == StoreSpec => []JournalsAgree
<1>1. StoreInv => JournalsAgree
  BY DEF StoreInv
<1>2. QED
  BY <1>1, StoreInvariant, PTL

\* OutcomeBeforeFills: no order has a venue identity or fills before the outcome
\* of its submission is committed (finish_submission in store.rs).
THEOREM OutcomeBeforeFills == StoreSpec => []FillsFollowOutcome
<1>1. StoreInv => FillsFollowOutcome
  BY DEF StoreInv
<1>2. QED
  BY <1>1, StoreInvariant, PTL

\* NoOverbooking: fills reported several times are never booked beyond the
\* ordered quantity (apply_matched_fill in store.rs).
THEOREM NoOverbooking == StoreSpec => []BookedWithinOrder
<1>1. StoreInv => BookedWithinOrder
  BY DEF StoreInv
<1>2. QED
  BY <1>1, StoreInvariant, PTL

\* SubmittedAtMostOnce: no committed step, recovery after a crash included,
\* makes an intent submittable again once begin_submission (store.rs) committed.
THEOREM SubmittedAtMostOnce == StoreSpec => NeverSubmittableAgain
<1> DEFINE Done == {"SUBMITTING", "SUBMITTED", "UNKNOWN", "REJECTED"}
           Kept == \A i \in Intents : intent[i] \in Done =>
                     intent'[i] \in Done
                     /\ (intent[i] # "SUBMITTING" => intent'[i] # "SUBMITTING")
<1>1. ASSUME StoreInv, [StoreNext]_storeVars
      PROVE  [Kept]_storeVars
  <2>1. CASE ControlStep
    BY <1>1, <2>1
    DEF ControlStep, set_service_state, set_service_state_if_unchanged, journalVars
  <2>2. ASSUME NEW i \in Intents, IntentStep(i)
        PROVE  Kept
    BY <1>1, <2>2
    DEF IntentStep, admit_intent, transition_intent, evaluate_and_reserve_risk,
        approve_risk, create_prepared_order, reject_preparation, StoreInv,
        StoreTypeOK
  <2>3. ASSUME NEW i \in Intents, OrderStep(i)
        PROVE  Kept
    BY <1>1, <2>3
    DEF OrderStep, begin_submission, SubmissionOutcome, finish_submission,
        resolve_unknown_submission, reconcile_order_projection, transition_order,
        cancel_prepared_order, StoreInv, StoreTypeOK
  <2>4. CASE RecoveryStep
    BY <1>1, <2>4
    DEF RecoveryStep, recover_interrupted_submissions, Interrupted,
        recover_pre_submission_work, Recoverable, RecoverableIntentState,
        StoreInv, StoreTypeOK, JournalsAgree, RowsAgree, IntentState,
        ReconciledOrderState, TerminalOrderState
  <2>5. QED
    BY <1>1, <2>1, <2>2, <2>3, <2>4 DEF StoreNext
<1>2. QED
  BY <1>1, StoreInvariant, PTL DEF StoreSpec, NeverSubmittableAgain
=============================================================================
