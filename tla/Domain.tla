------------------------------- MODULE Domain -------------------------------
(***************************************************************************)
(* The state enumerations of domain.rs and the predicates on them that the *)
(* store and the coordinator share.  "ABSENT" stands for "no such row".    *)
(***************************************************************************)

ServiceState ==
  {"STARTING", "RECONCILING", "READY", "DEGRADED", "HALTED", "SHUTTING_DOWN"}

IntentState ==
  {"RECEIVED", "VALIDATING", "REJECTED", "APPROVED", "PREPARING", "PREPARED",
   "SUBMITTING", "SUBMITTED", "UNKNOWN"}

OrderState ==
  {"PREPARED", "SUBMITTING", "LIVE", "PARTIALLY_FILLED", "FILLED",
   "CANCEL_PENDING", "CANCELLED", "EXPIRED", "REJECTED", "UNKNOWN"}

\* state column of submission_attempts
AttemptState ==
  {"PREPARED", "SUBMITTING", "ACCEPTED", "REJECTED", "UNKNOWN", "RESOLVED",
   "CANCELLED"}

\* state column of risk_reservations
ReservationState == {"ACTIVE", "CONSUMED", "RELEASED"}

TerminalOrderState == {"FILLED", "CANCELLED", "EXPIRED", "REJECTED"}

\* Orders that risk_snapshot_in_transaction counts as open exposure.
ExposedOrderState ==
  {"PREPARED", "SUBMITTING", "LIVE", "PARTIALLY_FILLED", "CANCEL_PENDING",
   "UNKNOWN"}

\* Orders that reconciliation_orders compares with the venue.
ReconciledOrderState == {"LIVE", "PARTIALLY_FILLED", "CANCEL_PENDING"}

\* Intents that recover_pre_submission_work returns after a restart.
RecoverableIntentState ==
  {"RECEIVED", "VALIDATING", "APPROVED", "PREPARING", "PREPARED"}

\* Which updates of orders.state the store's transition_order accepts.
valid_order_transition(prior, next) ==
  \/ prior = next
  \/ /\ prior \in {"LIVE", "PARTIALLY_FILLED"}
     /\ next = "CANCEL_PENDING"
  \/ /\ prior \in {"CANCEL_PENDING", "UNKNOWN"}
     /\ next \in {"FILLED", "CANCELLED", "EXPIRED"}
=============================================================================
