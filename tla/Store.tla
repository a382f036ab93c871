-------------------------------- MODULE Store --------------------------------
(***************************************************************************)
(* The order journal of store.rs.  Every operation is one SQLite           *)
(* transaction under the write gate, so every operation is one action; a   *)
(* transaction whose guards fail rolls back and is not an action.  An      *)
(* intent has at most one row in each of intents, risk_reservations,       *)
(* orders and submission_attempts, so each table is a function on intents. *)
(*                                                                         *)
(* Quantities are counted in lots: an order is for Qty lots.  A venue      *)
(* reports a fill with the list of its trade identifiers; each lot trades  *)
(* under its own identifier, so the list is known by its length, and the   *)
(* UNIQUE key trades.venue_trade_id built from it is that length (0 for    *)
(* "submission:<order>", the key used when the venue reports no list).     *)
(*                                                                         *)
(* The client is arbitrary: any transaction may be called at any time, in  *)
(* any order, with any argument the coordinator could pass.  What is       *)
(* proved of this module is therefore enforced by the database alone.      *)
(***************************************************************************)
EXTENDS Domain, Integers, FiniteSets

CONSTANTS Intents,        \* identifiers of the intents that may be admitted
          Qty,            \* original_quantity of an order, in lots
          MaxOpenOrders,  \* RiskPolicy.max_open_orders
          MaxRevision     \* where checked_add on control_state.revision fails

ASSUME QtyAssumption == Qty \in Nat \ {0}
ASSUME MaxOpenOrdersAssumption == MaxOpenOrders \in Nat \ {0}
ASSUME MaxRevisionAssumption == MaxRevision \in Nat

VARIABLES
  control,      \* control_state.state
  revision,     \* control_state.revision
  intent,       \* intents.state
  reservation,  \* risk_reservations.state
  order,        \* orders.state
  venueOrderId, \* orders.venue_order_id IS NOT NULL
  remaining,    \* orders.remaining_quantity
  attempt,      \* submission_attempts.state
  tradeIds,     \* trades.venue_trade_id of the order's trades
  booked        \* total trades.size of the order's trades

storeVars == <<control, revision, intent, reservation, order, venueOrderId,
               remaining, attempt, tradeIds, booked>>
controlVars == <<control, revision>>
fillVars == <<venueOrderId, remaining, tradeIds, booked>>
journalVars == <<intent, reservation, order, attempt>>

\* StoreTypeOK: every column keeps its type; the revision stops at its maximum
\* instead of wrapping, and no quantity leaves 0..Qty (store.rs).
StoreTypeOK ==
  /\ control \in ServiceState
  /\ revision \in 0..MaxRevision
  /\ intent \in [Intents -> IntentState \cup {"ABSENT"}]
  /\ reservation \in [Intents -> ReservationState \cup {"ABSENT"}]
  /\ order \in [Intents -> OrderState \cup {"ABSENT"}]
  /\ venueOrderId \in [Intents -> BOOLEAN]
  /\ remaining \in [Intents -> 0..Qty]
  /\ attempt \in [Intents -> AttemptState \cup {"ABSENT"}]
  /\ tradeIds \in [Intents -> SUBSET (0..Qty)]
  /\ booked \in [Intents -> 0..Qty]

StoreInit ==
  /\ control = "STARTING"
  /\ revision = 0
  /\ intent = [i \in Intents |-> "ABSENT"]
  /\ reservation = [i \in Intents |-> "ABSENT"]
  /\ order = [i \in Intents |-> "ABSENT"]
  /\ venueOrderId = [i \in Intents |-> FALSE]
  /\ remaining = [i \in Intents |-> Qty]
  /\ attempt = [i \in Intents |-> "ABSENT"]
  /\ tradeIds = [i \in Intents |-> {}]
  /\ booked = [i \in Intents |-> 0]

-----------------------------------------------------------------------------
(* Control state                                                           *)

\* Mutant: the revision is advanced without the checked addition.
UncheckedRevision(next) ==
  /\ control' = next
  /\ revision' = revision + 1
  /\ UNCHANGED <<journalVars, fillVars>>

set_service_state(next) ==
  /\ revision < MaxRevision
  /\ control' = next
  /\ revision' = revision + 1
  /\ UNCHANGED <<journalVars, fillVars>>

\* Mutant: resume only checks that the service is halted.
SetIfHalted(next, expected) == control = "HALTED" /\ set_service_state(next)

\* The conditional write of resume: still halted, and nothing written since
\* the revision was read.
set_service_state_if_unchanged(next, expected) ==
  /\ control = "HALTED"
  /\ revision = expected
  /\ set_service_state(next)

-----------------------------------------------------------------------------
(* Intents and risk reservations                                           *)

admit_intent(i) ==
  /\ intent[i] = "ABSENT"
  /\ control = "READY"
  /\ intent' = [intent EXCEPT ![i] = "RECEIVED"]
  /\ UNCHANGED <<controlVars, reservation, order, attempt, fillVars>>

transition_intent(i, expected, next) ==
  /\ intent[i] = expected
  /\ intent' = [intent EXCEPT ![i] = next]
  /\ UNCHANGED <<controlVars, reservation, order, attempt, fillVars>>

\* The rows the risk engine counts against max_open_orders.
OpenExposure ==
  {i \in Intents : order[i] \in ExposedOrderState \/ reservation[i] = "ACTIVE"}

\* The decisions RiskPolicy::evaluate may take: max_open_orders is compared with
\* the snapshot, every other rule and limit of the policy may reject.
evaluate ==
  {"reject"} \cup (IF Cardinality(OpenExposure) < MaxOpenOrders THEN {"approve"} ELSE {})

\* Approval inserts the reservation; the primary key on intent_id refuses a
\* second row.
approve_risk(i) ==
  /\ intent[i] = "VALIDATING"
  /\ "approve" \in evaluate
  /\ reservation[i] = "ABSENT"
  /\ reservation' = [reservation EXCEPT ![i] = "ACTIVE"]
  /\ intent' = [intent EXCEPT ![i] = "APPROVED"]
  /\ UNCHANGED <<controlVars, order, attempt, fillVars>>

evaluate_and_reserve_risk(i) ==
  \/ approve_risk(i)
  \/ "reject" \in evaluate /\ transition_intent(i, "VALIDATING", "REJECTED")

create_prepared_order(i) ==
  /\ intent[i] = "PREPARING"
  /\ reservation[i] = "ACTIVE"
  /\ intent' = [intent EXCEPT ![i] = "PREPARED"]
  /\ reservation' = [reservation EXCEPT ![i] = "CONSUMED"]
  /\ order' = [order EXCEPT ![i] = "PREPARED"]
  /\ attempt' = [attempt EXCEPT ![i] = "PREPARED"]
  /\ UNCHANGED <<controlVars, fillVars>>

reject_preparation(i) ==
  /\ intent[i] = "PREPARING"
  /\ reservation[i] = "ACTIVE"
  /\ reservation' = [reservation EXCEPT ![i] = "RELEASED"]
  /\ intent' = [intent EXCEPT ![i] = "REJECTED"]
  /\ UNCHANGED <<controlVars, order, attempt, fillVars>>

-----------------------------------------------------------------------------
(* Venue evidence                                                          *)

\* What a venue reports of an order: its state, the filled and the remaining
\* quantity, and the length of the list of trade identifiers.
VenueEvidence ==
  [state : OrderState, filled : 0..Qty, remaining : 0..Qty, ids : 0..Qty]

\* Mutant: the sum of the reported quantities is not compared with the order.
EvidenceUnbounded(e) ==
  /\ e.state \notin {"PREPARED", "SUBMITTING", "CANCEL_PENDING"}
  /\ e.state = "FILLED" => e.remaining = 0

validate_venue_order_evidence(e) ==
  /\ e.remaining + e.filled <= Qty
  /\ e.state \notin {"PREPARED", "SUBMITTING", "CANCEL_PENDING"}
  /\ e.state = "FILLED" => e.remaining = 0
  /\ e.state = "LIVE" => e.remaining # 0
  /\ e.state = "PARTIALLY_FILLED" => e.remaining # 0 /\ e.filled # 0
  /\ e.state = "REJECTED" => e.filled = 0
  /\ e.state = "UNKNOWN" => e.filled = 0 /\ e.remaining = Qty

\* Book delta lots under the key of the reported list, unless a trade with
\* that key exists already (ON CONFLICT DO NOTHING).
apply_matched_fill(i, delta, key) ==
  IF delta > 0 /\ key \notin tradeIds[i]
    THEN /\ tradeIds' = [tradeIds EXCEPT ![i] = @ \cup {key}]
         /\ booked' = [booked EXCEPT ![i] = @ + delta]
    ELSE UNCHANGED <<tradeIds, booked>>

-----------------------------------------------------------------------------
(* Submission                                                              *)

begin_submission(i) ==
  /\ control = "READY"
  /\ intent[i] = "PREPARED"
  /\ order[i] = "PREPARED"
  /\ attempt[i] = "PREPARED"
  /\ intent' = [intent EXCEPT ![i] = "SUBMITTING"]
  /\ order' = [order EXCEPT ![i] = "SUBMITTING"]
  /\ attempt' = [attempt EXCEPT ![i] = "SUBMITTING"]
  /\ UNCHANGED <<controlVars, reservation, fillVars>>

\* The remaining quantity finish_submission computes for a reported outcome.
SubmissionRemaining(state, filled) ==
  IF state \in TerminalOrderState THEN 0 ELSE Qty - filled

\* next is SUBMITTED or UNKNOWN; a definitive rejection carries no venue id.
finish_submission(i, next, state, filled, ids) ==
  LET left == SubmissionRemaining(state, filled) IN
  /\ order[i] = "SUBMITTING"
  /\ intent[i] = "SUBMITTING"
  /\ validate_venue_order_evidence(
       [state |-> state, filled |-> filled, remaining |-> left, ids |-> ids])
  /\ intent' = [intent EXCEPT ![i] = next]
  /\ order' = [order EXCEPT ![i] = state]
  /\ venueOrderId' = [venueOrderId EXCEPT ![i] = @ \/ state # "REJECTED"]
  /\ remaining' = [remaining EXCEPT ![i] = left]
  /\ IF next = "SUBMITTED" THEN apply_matched_fill(i, filled, ids)
                           ELSE UNCHANGED <<tradeIds, booked>>
  /\ attempt' = [attempt EXCEPT ![i] =
       IF @ # "SUBMITTING"    THEN @
       ELSE IF next = "UNKNOWN" THEN "UNKNOWN"
       ELSE IF state = "REJECTED" THEN "REJECTED" ELSE "ACCEPTED"]
  /\ UNCHANGED <<controlVars, reservation>>

\* The three calls submit_prepared makes.
SubmissionOutcome(i) ==
  \/ \E state \in {"LIVE", "FILLED", "CANCELLED", "EXPIRED"}, filled \in 0..Qty,
        ids \in 0..Qty : finish_submission(i, "SUBMITTED", state, filled, ids)
  \/ finish_submission(i, "UNKNOWN", "UNKNOWN", 0, 0)
  \/ finish_submission(i, "SUBMITTED", "REJECTED", 0, 0)

-----------------------------------------------------------------------------
(* Observations of the venue                                               *)

resolve_unknown_submission(i, e) ==
  /\ order[i] = "UNKNOWN"
  /\ e.state # "UNKNOWN"
  /\ validate_venue_order_evidence(e)
  /\ order' = [order EXCEPT ![i] = e.state]
  /\ venueOrderId' = [venueOrderId EXCEPT ![i] = TRUE]
  /\ remaining' = [remaining EXCEPT ![i] = e.remaining]
  /\ intent' = [intent EXCEPT ![i] = IF @ = "UNKNOWN" THEN "SUBMITTED" ELSE @]
  /\ attempt' = [attempt EXCEPT ![i] = IF @ = "UNKNOWN" THEN "RESOLVED" ELSE @]
  /\ apply_matched_fill(i, e.filled, e.ids)
  /\ UNCHANGED <<controlVars, reservation>>

\* Fill quantity the local projection accounts for.
LocalFilled(i) == Qty - remaining[i]

\* Mutant: the reported total is booked instead of the new part of it.
BookReportedTotal(i, e) ==
  /\ venueOrderId[i]
  /\ e.state # "UNKNOWN"
  /\ validate_venue_order_evidence(e)
  /\ e.filled >= LocalFilled(i)
  /\ order' = [order EXCEPT ![i] = e.state]
  /\ remaining' = [remaining EXCEPT ![i] = e.remaining]
  /\ apply_matched_fill(i, e.filled, e.ids)
  /\ UNCHANGED <<controlVars, intent, reservation, attempt, venueOrderId>>

\* The order row is read and written in this transaction, but the evidence
\* may be older: nothing compares it with the row's own state.
reconcile_order_projection(i, e) ==
  /\ venueOrderId[i]
  /\ e.state # "UNKNOWN"
  /\ validate_venue_order_evidence(e)
  /\ e.filled >= LocalFilled(i)
  /\ order' = [order EXCEPT ![i] =
       IF @ = "CANCEL_PENDING" /\ e.state \in {"LIVE", "PARTIALLY_FILLED"}
         THEN "CANCEL_PENDING" ELSE e.state]
  /\ remaining' = [remaining EXCEPT ![i] = e.remaining]
  /\ apply_matched_fill(i, e.filled - LocalFilled(i), e.ids)
  /\ UNCHANGED <<controlVars, intent, reservation, attempt, venueOrderId>>

-----------------------------------------------------------------------------
(* Cancellation                                                            *)

transition_order(i, next) ==
  /\ order[i] # "ABSENT"
  /\ \/ /\ next = "CANCEL_PENDING"
        /\ order[i] \in TerminalOrderState
        /\ UNCHANGED <<order, intent>>
     \/ /\ ~(next = "CANCEL_PENDING" /\ order[i] \in TerminalOrderState)
        /\ valid_order_transition(order[i], next)
        /\ order' = [order EXCEPT ![i] = next]
        /\ intent' = [intent EXCEPT ![i] =
             IF /\ order[i] = "UNKNOWN"
                /\ next \in {"FILLED", "CANCELLED", "EXPIRED"}
                /\ @ = "UNKNOWN"
               THEN "SUBMITTED" ELSE @]
  /\ UNCHANGED <<controlVars, reservation, attempt, fillVars>>

cancel_prepared_order(i) ==
  /\ order[i] = "PREPARED"
  /\ order' = [order EXCEPT ![i] = "CANCELLED"]
  /\ intent' = [intent EXCEPT ![i] = IF @ = "PREPARED" THEN "REJECTED" ELSE @]
  /\ attempt' = [attempt EXCEPT ![i] = IF @ = "PREPARED" THEN "CANCELLED" ELSE @]
  /\ UNCHANGED <<controlVars, reservation, fillVars>>

-----------------------------------------------------------------------------
(* Restart recovery                                                        *)

\* Orders whose submission was in progress when the process stopped.
Interrupted ==
  {i \in Intents : /\ order[i] # "ABSENT"
                   /\ "SUBMITTING" \in {order[i], intent[i]}}

\* Mutant: the attempt row is left SUBMITTING.
RecoverWithoutAttempt ==
  /\ order' = [i \in Intents |->
       IF i \in Interrupted THEN "UNKNOWN" ELSE order[i]]
  /\ intent' = [i \in Intents |->
       IF i \in Interrupted THEN "UNKNOWN" ELSE intent[i]]
  /\ venueOrderId' = [i \in Intents |-> venueOrderId[i] \/ i \in Interrupted]
  /\ UNCHANGED <<controlVars, reservation, attempt, remaining, tradeIds, booked>>

\* Mutant: an interrupted submission is prepared again.
RecoverAsPrepared ==
  /\ order' = [i \in Intents |->
       IF i \in Interrupted THEN "PREPARED" ELSE order[i]]
  /\ intent' = [i \in Intents |->
       IF i \in Interrupted THEN "PREPARED" ELSE intent[i]]
  /\ attempt' = [i \in Intents |->
       IF i \in Interrupted THEN "PREPARED" ELSE attempt[i]]
  /\ UNCHANGED <<controlVars, reservation, fillVars>>

\* Mutant: the deterministic identifier is not stored with the order.
RecoverWithoutVenueId ==
  /\ order' = [i \in Intents |->
       IF i \in Interrupted THEN "UNKNOWN" ELSE order[i]]
  /\ intent' = [i \in Intents |->
       IF i \in Interrupted THEN "UNKNOWN" ELSE intent[i]]
  /\ attempt' = [i \in Intents |->
       IF i \in Interrupted /\ attempt[i] = "SUBMITTING" THEN "UNKNOWN"
                                                         ELSE attempt[i]]
  /\ UNCHANGED <<controlVars, reservation, fillVars>>

recover_interrupted_submissions ==
  /\ order' = [i \in Intents |->
       IF i \in Interrupted THEN "UNKNOWN" ELSE order[i]]
  /\ intent' = [i \in Intents |->
       IF i \in Interrupted THEN "UNKNOWN" ELSE intent[i]]
  /\ venueOrderId' = [i \in Intents |-> venueOrderId[i] \/ i \in Interrupted]
  /\ attempt' = [i \in Intents |->
       IF i \in Interrupted /\ attempt[i] = "SUBMITTING" THEN "UNKNOWN"
                                                         ELSE attempt[i]]
  /\ UNCHANGED <<controlVars, reservation, remaining, tradeIds, booked>>

\* Mutant: a submission in progress is treated as pre-submission work.
RecoverableWithSubmitting ==
  {i \in Intents : intent[i] \in RecoverableIntentState \cup {"SUBMITTING"}}

Recoverable == {i \in Intents : intent[i] \in RecoverableIntentState}

\* Fails, and with it the startup, unless every PREPARED intent has its
\* prepared order and attempt.
recover_pre_submission_work ==
  /\ \A i \in Intents :
       intent[i] = "PREPARED" => order[i] = "PREPARED" /\ attempt[i] = "PREPARED"
  /\ intent' = [i \in Intents |->
       IF i \in Recoverable /\ intent[i] # "PREPARED" THEN "RECEIVED"
                                                      ELSE intent[i]]
  /\ reservation' = [i \in Intents |->
       IF /\ intent[i] \in RecoverableIntentState \ {"RECEIVED", "PREPARED"}
          /\ reservation[i] = "ACTIVE"
         THEN "RELEASED" ELSE reservation[i]]
  /\ UNCHANGED <<controlVars, order, attempt, fillVars>>

-----------------------------------------------------------------------------
(* The most general client.  Its only discipline is the coordinator's own: *)
(* reconcile_order_projection is called for orders that                    *)
(* reconciliation_orders returned, and an order that was LIVE,             *)
(* PARTIALLY_FILLED or CANCEL_PENDING once never leaves those states       *)
(* except to a terminal one.                                               *)

ControlStep ==
  \/ \E next \in ServiceState \ {"STARTING", "DEGRADED"} : set_service_state(next)
  \/ \E expected \in 0..MaxRevision :
       set_service_state_if_unchanged("READY", expected)

IntentStep(i) ==
  \/ admit_intent(i)
  \/ transition_intent(i, "RECEIVED", "VALIDATING")
  \/ transition_intent(i, "RECEIVED", "REJECTED")
  \/ transition_intent(i, "VALIDATING", "REJECTED")
  \/ transition_intent(i, "APPROVED", "PREPARING")
  \/ evaluate_and_reserve_risk(i)
  \/ create_prepared_order(i)
  \/ reject_preparation(i)

OrderStep(i) ==
  \/ begin_submission(i)
  \/ order[i] = "SUBMITTING" /\ SubmissionOutcome(i)
  \/ /\ order[i] = "UNKNOWN"
     /\ \E e \in VenueEvidence : resolve_unknown_submission(i, e)
  \/ /\ order[i] \in ReconciledOrderState \cup TerminalOrderState
     /\ \E e \in VenueEvidence : reconcile_order_projection(i, e)
  \/ \E next \in {"CANCEL_PENDING", "FILLED", "CANCELLED", "EXPIRED"} :
       transition_order(i, next)
  \/ cancel_prepared_order(i)

RecoveryStep ==
  \/ recover_interrupted_submissions
  \/ recover_pre_submission_work

StoreNext ==
  \/ ControlStep
  \/ \E i \in Intents : IntentStep(i) \/ OrderStep(i)
  \/ RecoveryStep

StoreSpec == StoreInit /\ [][StoreNext]_storeVars

-----------------------------------------------------------------------------
(* Properties                                                              *)

\* What the other tables hold for an intent in each state.
RowsAgree(i) ==
  /\ intent[i] \in {"ABSENT", "RECEIVED", "VALIDATING"} =>
       /\ order[i] = "ABSENT" /\ attempt[i] = "ABSENT"
       /\ reservation[i] \in {"ABSENT", "RELEASED"}
  /\ intent[i] \in {"APPROVED", "PREPARING"} =>
       /\ order[i] = "ABSENT" /\ attempt[i] = "ABSENT"
       /\ reservation[i] = "ACTIVE"
  /\ intent[i] \in {"PREPARED", "SUBMITTING", "UNKNOWN"} =>
       /\ order[i] = intent[i] /\ attempt[i] = intent[i]
       /\ reservation[i] = "CONSUMED"
  /\ intent[i] = "SUBMITTED" =>
       /\ order[i] \in ReconciledOrderState \cup TerminalOrderState
       /\ attempt[i] \in {"ACCEPTED", "REJECTED", "RESOLVED", "UNKNOWN"}
       /\ reservation[i] = "CONSUMED"
  /\ intent[i] = "REJECTED" =>
       \/ /\ order[i] = "ABSENT" /\ attempt[i] = "ABSENT"
          /\ reservation[i] \in {"ABSENT", "RELEASED"}
       \/ /\ order[i] = "CANCELLED" /\ attempt[i] = "CANCELLED"
          /\ reservation[i] = "CONSUMED"

\* JournalsAgree: in every committed state, whatever the order of the calls,
\* failures and restarts, the intent, order, attempt and reservation of one
\* intent describe the same point of its life.  In particular capacity is
\* reserved exactly while an approved intent has no order yet, so exposure is
\* neither lost nor counted twice, and the consistency check of
\* recover_pre_submission_work (store.rs) can never stop a restart.
JournalsAgree == \A i \in Intents : RowsAgree(i)

\* FillsFollowOutcome: an order is known to the venue, and has fills, only once
\* its submission has an outcome, and an ambiguous one (UNKNOWN) always carries
\* the deterministic identifier by which reconciliation can look it up and its
\* full remaining quantity: its maximum exposure stays reserved (store.rs,
\* finish_submission and recover_interrupted_submissions).
FillsFollowOutcome ==
  \A i \in Intents :
    /\ intent[i] \notin {"SUBMITTED", "UNKNOWN"} => ~venueOrderId[i]
    /\ intent[i] = "UNKNOWN" => venueOrderId[i]
    /\ intent[i] # "SUBMITTED" =>
         remaining[i] = Qty /\ booked[i] = 0 /\ tradeIds[i] = {}

\* BookedWithinOrder: the trades booked for an order and the quantity it still
\* has to fill never exceed what was ordered, although the same fill may be
\* reported by the submission response, by reconciliation and by the recovery
\* of an ambiguous submission (apply_matched_fill, reconcile_order_projection
\* and resolve_unknown_submission in store.rs).
BookedWithinOrder ==
  \A i \in Intents : booked[i] + remaining[i] <= Qty

\* The inductive invariant of the journal.
StoreInv ==
  /\ StoreTypeOK
  /\ JournalsAgree
  /\ FillsFollowOutcome
  /\ BookedWithinOrder

\* NeverSubmittableAgain: once begin_submission (store.rs) has committed for an
\* intent, or the intent was rejected, no transaction, recovery included, takes
\* it back to a state from which begin_submission could commit again.
NeverSubmittableAgain ==
  [][\A i \in Intents :
       intent[i] \in {"SUBMITTING", "SUBMITTED", "UNKNOWN", "REJECTED"} =>
         intent'[i] \in {"SUBMITTING", "SUBMITTED", "UNKNOWN", "REJECTED"}
         /\ (intent[i] # "SUBMITTING" => intent'[i] # "SUBMITTING")]_storeVars

\* CanBeEvaluatedAgain: an intent under validation has no reservation row, so an
\* approval by evaluate_and_reserve_risk can insert one; recovery of work before
\* PREPARED (recover_pre_submission_work in store.rs) is said to allow this.
CanBeEvaluatedAgain ==
  \A i \in Intents : intent[i] = "VALIDATING" => reservation[i] = "ABSENT"
=============================================================================
