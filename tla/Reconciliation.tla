--------------------------- MODULE Reconciliation ---------------------------
(***************************************************************************)
(* reconcile_started and reconcile_started_inner of execution.rs, as a     *)
(* routine that any task p may have called (its frame is recon[p]). The    *)
(* canceller calls it without safety_gate, so two runs can overlap.        *)
(***************************************************************************)
EXTENDS CoordinatorState

InRecon(p, l) == recon[p].at = l

SetRecon(p, frame) ==
  recon' = [recon EXCEPT ![p] = frame] /\ UNCHANGED canc

\* The routine returns to its caller; callers inside a cancellation ignore
\* the result.
ReconcileReturn(p, ok) ==
  /\ SetRecon(p, IdleRecon)
  /\ IF ok \/ canc[p].at # "idle" THEN UNCHANGED pc ELSE Goto(p, AfterError(pc[p]))

\* The venue answers with its open orders (and possibly findings of its
\* own), or with an error or a timeout.
FetchOrders(p) ==
  /\ InRecon(p, "orders")
  /\ \/ \E bad \in VenueFindings :
          SetRecon(p, [recon[p] EXCEPT !.at = "read", !.open = OpenAtVenue,
                                       !.bad = bad])
     \/ SetRecon(p, [recon[p] EXCEPT !.at = "fail"])
  /\ UNCHANGED <<storeVars, pc, gates, sched, locals, durable, venueVars, history>>

\* Mutant: every order with a venue identifier is compared.
AllVenueOrders == {i \in Intents : venueOrderId[i]}

\* The active orders that are compared with the venue.
reconciliation_orders ==
  {i \in Intents : venueOrderId[i] /\ order[i] \in ReconciledOrderState}

\* The trades are listed after the orders; then reconciliation_orders reads
\* the local orders to compare.  An open order without a local venue
\* identifier is unexpected: a finding, and cancelled when the policy says so.
ReadLocalOrders(p) ==
  LET unexpected == {i \in DOMAIN recon[p].open : ~venueOrderId[i]}
  IN /\ InRecon(p, "read")
     /\ SetRecon(p, [recon[p] EXCEPT
          !.at = "project", !.trades = TradesAtVenue,
          !.todo = reconciliation_orders,
          !.bad = @ \/ unexpected # {}])
     /\ \E cancelled \in SUBSET unexpected :
          /\ cancelled # {} => CancelOnHalt
          /\ venue' = [i \in Intents |->
               IF i \in cancelled /\ venue[i] = "LIVE" THEN "CANCELLED" ELSE venue[i]]
     /\ UNCHANGED <<storeVars, pc, gates, sched, locals, durable, matched, history>>

\* The snapshot is used for an order it lists, find_order for any other.
ProjectOrder(p) ==
  \E i \in recon[p].todo :
    LET open == recon[p].open
        e == IF i \in DOMAIN open THEN Evidence("LIVE", open[i]) ELSE find_order(i)
        rest == [recon[p] EXCEPT !.todo = @ \ {i}]
    IN /\ InRecon(p, "project")
       /\ \/ /\ e # NoEvidence
             /\ reconcile_order_projection(i, e)
             /\ SetRecon(p, rest)
          \/ /\ e = NoEvidence
             /\ SetRecon(p, [rest EXCEPT !.bad = TRUE])
             /\ UNCHANGED storeVars
          \/ /\ \/ i \notin DOMAIN open        \* the lookup fails
                \/ e.filled < LocalFilled(i)   \* fill regressed
             /\ SetRecon(p, [rest EXCEPT !.at = "error", !.todo = {}])
             /\ UNCHANGED storeVars
       /\ UNCHANGED <<pc, gates, sched, locals, durable, venueVars, history>>

\* unknown_submissions, read after the last projection.
ReadUnknowns(p) ==
  /\ InRecon(p, "project") /\ recon[p].todo = {}
  /\ SetRecon(p, [recon[p] EXCEPT
       !.at = "lookup", !.todo = {i \in Intents : order[i] = "UNKNOWN"}])
  /\ UNCHANGED <<storeVars, pc, gates, sched, locals, durable, venueVars, history>>

LookupUnknown(p) ==
  /\ InRecon(p, "lookup")
  /\ \E i \in recon[p].todo :
       LET rest == [recon[p] EXCEPT !.todo = @ \ {i}] IN
       \/ /\ find_order(i) # NoEvidence
          /\ SetRecon(p, [rest EXCEPT !.at = "resolve", !.cur = i,
                                      !.found = find_order(i)])
       \/ /\ find_order(i) = NoEvidence
          /\ SetRecon(p, [rest EXCEPT !.bad = TRUE])
       \/ SetRecon(p, [rest EXCEPT !.at = "error", !.todo = {}])
  /\ UNCHANGED <<storeVars, pc, gates, sched, locals, durable, venueVars, history>>

\* The order may have left UNKNOWN since the lookup: then the routine fails.
ResolveUnknown(p) ==
  LET i == recon[p].cur
      idle == [recon[p] EXCEPT !.cur = NoIntent, !.found = NoEvidence]
  IN /\ InRecon(p, "resolve")
     /\ \/ /\ resolve_unknown_submission(i, recon[p].found)
           /\ SetRecon(p, [idle EXCEPT !.at = "lookup"])
        \/ /\ order[i] # "UNKNOWN"
           /\ SetRecon(p, [idle EXCEPT !.at = "error", !.todo = {}])
           /\ UNCHANGED storeVars
     /\ UNCHANGED <<pc, gates, sched, locals, durable, venueVars, history>>

\* record_venue_trade_finality finds a fill whose list contains the n-th lot.
LinkedTrade(i, n) == \E k \in tradeIds[i] : n <= k

\* Listed trades that no local fill accounts for: a finding.
UnlinkedTrades(p) ==
  {i \in Intents : \E n \in 1..recon[p].trades[i] : ~LinkedTrade(i, n)}

\* Only a run without findings resolves those of earlier runs.
FinishReconcile(p) ==
  LET bad == recon[p].bad \/ UnlinkedTrades(p) # {} IN
  /\ InRecon(p, "lookup") /\ recon[p].todo = {}
  /\ critical' = bad
  /\ IF bad THEN SetRecon(p, [IdleRecon EXCEPT !.at = "halt"]) /\ UNCHANGED pc
            ELSE ReconcileReturn(p, TRUE)
  /\ UNCHANGED <<storeVars, gates, sched, locals, orphanRuns, pendingCancels, venueVars,
                 history>>

\* Mutant: a finding is recorded but does not halt the service.
FindingWithoutHalt(p) ==
  /\ InRecon(p, "halt")
  /\ ReconcileReturn(p, TRUE)
  /\ UNCHANGED <<storeVars, gates, sched, locals, durable, venueVars, history>>

ReconcileHalt(p) ==
  /\ InRecon(p, "halt")
  /\ set_service_state("HALTED") /\ LatchHalt
  /\ spawn_protective_cancellation
  /\ ReconcileReturn(p, TRUE)
  /\ UNCHANGED <<gates, queue, deferred, heartbeat, locals, durable, venueVars>>

\* fail_reconciliation, after a venue error ("fail") or an internal one.
FailReconcile(p) ==
  /\ recon[p].at \in {"fail", "error"}
  /\ critical' = TRUE
  /\ SetRecon(p, [IdleRecon EXCEPT !.at = IF InRecon(p, "fail") THEN "failHalt"
                                                               ELSE "errorHalt"])
  /\ UNCHANGED <<storeVars, pc, gates, sched, locals, orphanRuns, pendingCancels, venueVars,
                 history>>

VenueFailureHalt(p) ==
  /\ InRecon(p, "failHalt")
  /\ set_service_state("HALTED") /\ LatchHalt
  /\ spawn_protective_cancellation
  /\ SetRecon(p, [IdleRecon EXCEPT !.at = "errorHalt"])
  /\ UNCHANGED <<pc, gates, queue, deferred, heartbeat, locals, durable, venueVars>>

\* A failed run leaves the service halted and returns its error.
ReconcileError(p) ==
  /\ InRecon(p, "errorHalt")
  /\ \/ /\ control # "HALTED"
        /\ set_service_state("HALTED") /\ LatchHalt
        /\ spawn_protective_cancellation
     \/ /\ control = "HALTED"
        /\ UNCHANGED <<storeVars, history, cancelTasks>>
  /\ ReconcileReturn(p, FALSE)
  /\ UNCHANGED <<gates, queue, deferred, heartbeat, locals, durable, venueVars>>

\* A reconciliation_runs row of the frame is RUNNING.
RunOpen(p) == recon[p].at \notin {"idle", "halt", "failHalt", "errorHalt"}

ReconcileStep(p) ==
  \/ FetchOrders(p) \/ ReadLocalOrders(p) \/ ProjectOrder(p) \/ ReadUnknowns(p)
  \/ LookupUnknown(p) \/ ResolveUnknown(p) \/ FinishReconcile(p)
  \/ ReconcileHalt(p) \/ FailReconcile(p) \/ VenueFailureHalt(p) \/ ReconcileError(p)
=============================================================================
