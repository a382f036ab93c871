--------------------------- MODULE SubmissionProofs ---------------------------
(***************************************************************************)
(* What must hold before an order is submitted and while it waits: the     *)
(* exposure stays within the limit of the risk policy (LimitInv), and an   *)
(* intent that was received is in the hands of some part of the            *)
(* coordinator until it is decided (TrackInv).                             *)
(***************************************************************************)
EXTENDS VenueProofs, FiniteSetTheorems

USE QtyAssumption, MaxRevisionAssumption, MaxOpenOrdersAssumption, NoIntentAssumption

-----------------------------------------------------------------------------
(* The limit of open orders                                                *)

\* The orders that are exposed, and those a reconciliation may still reopen: it has
\* read them as active and holds evidence that they are open.
Reopenable ==
  {i \in Intents : \E p \in Procs : recon[p].at = "project" /\ i \in recon[p].todo}
\* Orders that count, or may come to count, against max_open_orders.
Potential == OpenExposure \cup Reopenable

\* LimitInv: the limit holds of the potential exposure. The exposure alone is not
\* inductive: a projection may reopen an order that a cancellation has just closed.
LimitInv == IsFiniteSet(Potential) /\ Cardinality(Potential) <= MaxOpenOrders

\* Reserves: a reservation is opened only by the risk decision of the worker.
Reserves(i) ==
  /\ pc["worker"] = "risk" /\ recon["worker"].at = "idle" /\ i = work.intent
  /\ approve_risk(i)

\* ReservationMoves: no other step of the coordinator opens one.
LEMMA ReservationMoves ==
  ASSUME CoordInv, [Next]_vars, NEW i \in Intents, reservation'[i] = "ACTIVE"
  PROVE  reservation[i] = "ACTIVE" \/ Reserves(i)
<1>0. reservation \in [Intents -> ReservationState \cup {"ABSENT"}]
  BY DEF CoordInv, StoreInv, StoreTypeOK
<1>1. CASE EvaluateRisk
  <2>1. work.intent \in Intents
    BY <1>1 DEF EvaluateRisk, WorkerAt, At, CoordInv, LocalsOK
  <2>2. CASE approve_risk(work.intent)
    BY <1>0, <1>1, <2>1, <2>2 DEF EvaluateRisk, WorkerAt, At, Reserves, approve_risk
  <2>3. CASE ~approve_risk(work.intent)
    BY <1>1, <2>3
    DEF EvaluateRisk, evaluate_and_reserve_risk, transition_intent, storeVars
  <2>4. QED
    BY <2>2, <2>3
<1>2. CASE WorkerStep /\ ~EvaluateRisk
  <2>1. CASE PrepareOrder
    BY <1>0, <2>1
    DEF PrepareOrder, create_prepared_order, reject_preparation
  <2>2. CASE FinishSubmission
    BY <2>2 DEF FinishSubmission, finish_submission, storeVars
  <2>3. CASE ~PrepareOrder /\ ~FinishSubmission
    BY <1>2, <2>3
    DEF WorkerStep, ReceiveIntent, LockSafety, LockLifecycle, PreIntentReconcile,
        CheckHealth, reject_received, BeginValidation, ValidateMarket,
        validate_freshness_and_increments, BeginPreparation, BeginSubmission,
        SendToVenue, WorkerHalt, ReleaseWorker, halt_inner, set_service_state,
        transition_intent, begin_submission, storeVars, journalVars
  <2>4. QED
    BY <2>1, <2>2, <2>3
<1>3. ASSUME NEW p \in Procs, ReconcileStep(p) PROVE reservation' = reservation
  <2>1. CASE ProjectOrder(p)
    BY <2>1 DEF ProjectOrder, reconcile_order_projection, storeVars
  <2>2. CASE ResolveUnknown(p)
    BY <2>2 DEF ResolveUnknown, resolve_unknown_submission, storeVars
  <2>3. CASE ~ProjectOrder(p) /\ ~ResolveUnknown(p)
    BY <1>3, <2>3
    DEF ReconcileStep, FetchOrders, ReadLocalOrders, ReadUnknowns, LookupUnknown,
        FinishReconcile, ReconcileHalt, FailReconcile, VenueFailureHalt,
        ReconcileError, set_service_state, storeVars, journalVars
  <2>4. QED
    BY <2>1, <2>2, <2>3
<1>4. ASSUME NEW p \in Procs, CancelStep(p) PROVE reservation' = reservation
  BY <1>4
  DEF CancelStep, CreateCancellation, ReadTarget, MarkTarget, CancelAtVenue,
      CommitCancelled, finish_cancellation, CancelError, transition_order,
      cancel_prepared_order, storeVars
<1>5. CASE ControlJob
  BY <1>5
  DEF ControlJob, StartReconcileJob, HeartbeatHalt, StartHaltJob, StartResume,
      CheckResume, CommitResume, Enqueue, EndJob, AbandonResume, set_service_state,
      set_service_state_if_unchanged, storeVars, journalVars
<1>6. CASE StartupStep \/ ShutdownStep
  <2>1. CASE RecoverWork
    BY <2>1 DEF RecoverWork, recover_pre_submission_work
  <2>2. CASE ~RecoverWork
    BY <1>6, <2>2
    DEF StartupStep, ReadPriorState, MarkStartup, fail_interrupted_reconciliations,
        RecoverInterrupted, HaltInterrupted, RecoverCancellations, StartupReconcile,
        StartupHeartbeat, ReadStartupState, BecomeReady, Enqueue, EndStartup,
        ShutdownStep, BeginShutdown, ShutdownCancel, ShutdownReconcile, EndShutdown,
        halt_inner, set_service_state, recover_interrupted_submissions, storeVars,
        journalVars
  <2>3. QED
    BY <2>1, <2>2
<1>7. CASE \/ StartCancellation \/ EndCancellation \/ CancelRequest \/ Restart
           \/ UNCHANGED vars \/ halt_idempotent
           \/ \E j \in Intents : VenueStep(j) \/ SubmitIntent(j)
  BY <1>7
  DEF StartCancellation, EndCancellation, CancelRequest, Restart, vars, VenueStep,
      halt_idempotent, SubmitIntent, admit_intent, set_service_state, storeVars,
      journalVars
<1>8. QED
  BY <1>1, <1>2, <1>3, <1>4, <1>5, <1>6, <1>7 DEF Next

\* ReopenableStep: a reconciliation reads only active orders, which are exposed then,
\* and takes no order up again.
LEMMA ReopenableStep ==
  ASSUME CoordInv, [Next]_vars
  PROVE  Reopenable' \subseteq Potential
<1> SUFFICES ASSUME NEW q \in Procs, NEW i \in Intents,
                    recon'[q].at = "project", i \in recon'[q].todo
             PROVE  i \in Potential
  BY DEF Reopenable
<1>0. recon \in [Procs -> ReconFrame]
  BY DEF CoordInv, ReconOK
<1>1. ASSUME recon'[q] = recon[q] PROVE i \in Potential
  BY <1>1 DEF Potential, Reopenable
<1>2. ASSUME NEW p \in Procs, NEW f, recon' = [recon EXCEPT ![p] = f],
             f.at = "project" => f.todo \subseteq Potential
      PROVE  i \in Potential
  BY <1>0, <1>1, <1>2
<1>3. CASE UNCHANGED recon
  BY <1>1, <1>3
<1>4. CASE Restart
  BY <1>4, IdleReconFrame DEF Restart, FreshProcess
<1>5. ASSUME NEW p \in Procs, recon' = [recon EXCEPT ![p] = IdleRecon]
      PROVE  i \in Potential
  BY <1>2, <1>5, IdleReconFrame
<1>6. ASSUME NEW p \in Procs, CallReconcile(p) PROVE i \in Potential
  <2>1. [IdleRecon EXCEPT !.at = "orders"].at = "orders"
    BY IdleReconFrame DEF ReconLabel
  <2>2. QED
    BY <1>2, <1>6, <2>1 DEF CallReconcile
<1>7. ASSUME NEW p \in Procs, ReconcileStep(p) PROVE i \in Potential
  <2>0. recon[p] \in ReconFrame
    BY <1>0
  <2>1. CASE ReadLocalOrders(p)
    <3>1. reconciliation_orders \subseteq Potential
      BY DEF reconciliation_orders, Potential, OpenExposure, ReconciledOrderState,
             ExposedOrderState
    <3>2. \E f : recon' = [recon EXCEPT ![p] = f] /\ f.todo = reconciliation_orders
      <4> DEFINE f == [recon[p] EXCEPT
          !.at = "project", !.trades = TradesAtVenue,
          !.todo = reconciliation_orders,
          !.bad = @ \/ {j \in DOMAIN recon[p].open : ~venueOrderId[j]} # {}]
      <4>1. recon' = [recon EXCEPT ![p] = f]
        BY <2>1 DEF ReadLocalOrders, SetRecon
      <4>2. f.todo = reconciliation_orders
        BY <2>0 DEF ReconFrame
      <4> HIDE DEF f
      <4>3. QED
        BY <4>1, <4>2
    <3>3. QED
      BY <1>2, <3>1, <3>2
  <2>2. CASE ProjectOrder(p)
    <3>1. recon[p].todo \subseteq Potential
      BY <2>0, <2>2 DEF ProjectOrder, InRecon, Potential, Reopenable, ReconFrame
    <3>2. PICK j \in recon[p].todo :
            LET rest == [recon[p] EXCEPT !.todo = @ \ {j}] IN
            \/ recon' = [recon EXCEPT ![p] = rest]
            \/ recon' = [recon EXCEPT ![p] = [rest EXCEPT !.bad = TRUE]]
            \/ recon' = [recon EXCEPT ![p] = [rest EXCEPT !.at = "error", !.todo = {}]]
      BY <2>2 DEF ProjectOrder, SetRecon
    <3> DEFINE rest == [recon[p] EXCEPT !.todo = @ \ {j}]
    <3>3. \E f \in {rest, [rest EXCEPT !.bad = TRUE],
                    [rest EXCEPT !.at = "error", !.todo = {}]} :
            recon' = [recon EXCEPT ![p] = f]
      BY <3>2
    <3>4. \A f \in {rest, [rest EXCEPT !.bad = TRUE],
                    [rest EXCEPT !.at = "error", !.todo = {}]} :
            f.todo \subseteq recon[p].todo
      BY <2>0 DEF ReconFrame
    <3> HIDE DEF rest
    <3>5. QED
      BY <1>2, <3>1, <3>3, <3>4
  <2>3. CASE FetchOrders(p) \/ ReadUnknowns(p)
    <3>1. \E f : recon' = [recon EXCEPT ![p] = f] /\ f.at # "project"
      <4>1. CASE ReadUnknowns(p)
        <5> DEFINE f == [recon[p] EXCEPT
              !.at = "lookup", !.todo = {j \in Intents : order[j] = "UNKNOWN"}]
        <5>1. recon' = [recon EXCEPT ![p] = f]
          BY <4>1 DEF ReadUnknowns, SetRecon
        <5>2. f.at = "lookup"
          BY <2>0 DEF ReconFrame
        <5> HIDE DEF f
        <5>3. QED
          BY <5>1, <5>2
      <4>2. CASE FetchOrders(p)
        <5>1. PICK bad \in VenueFindings :
                \/ recon' = [recon EXCEPT ![p] = [recon[p] EXCEPT !.at = "read",
                                                  !.open = OpenAtVenue, !.bad = bad]]
                \/ recon' = [recon EXCEPT ![p] = [recon[p] EXCEPT !.at = "fail"]]
          BY <4>2 DEF FetchOrders, SetRecon, VenueFindings
        <5> DEFINE f == [recon[p] EXCEPT !.at = "read", !.open = OpenAtVenue, !.bad = bad]
                   g == [recon[p] EXCEPT !.at = "fail"]
        <5>2. f.at = "read" /\ g.at = "fail"
          BY <2>0 DEF ReconFrame
        <5>3. recon' = [recon EXCEPT ![p] = f] \/ recon' = [recon EXCEPT ![p] = g]
          BY <5>1
        <5> HIDE DEF f, g
        <5>4. QED
          BY <5>2, <5>3
      <4>3. QED
        BY <2>3, <4>1, <4>2
    <3>2. QED
      BY <1>2, <3>1
  <2>4. CASE LookupUnknown(p)
    <3>1. PICK j \in recon[p].todo :
            LET rest == [recon[p] EXCEPT !.todo = @ \ {j}] IN
            \/ recon' = [recon EXCEPT ![p] = [rest EXCEPT !.at = "resolve", !.cur = j,
                                              !.found = find_order(j)]]
            \/ recon' = [recon EXCEPT ![p] = [rest EXCEPT !.bad = TRUE]]
            \/ recon' = [recon EXCEPT ![p] = [rest EXCEPT !.at = "error", !.todo = {}]]
      BY <2>4 DEF LookupUnknown, SetRecon
    <3> DEFINE rest == [recon[p] EXCEPT !.todo = @ \ {j}]
               F == {[rest EXCEPT !.at = "resolve", !.cur = j, !.found = find_order(j)],
                     [rest EXCEPT !.bad = TRUE],
                     [rest EXCEPT !.at = "error", !.todo = {}]}
    <3>2. \E f \in F : recon' = [recon EXCEPT ![p] = f]
      BY <3>1
    <3>3. recon[p].at = "lookup"
      BY <2>4 DEF LookupUnknown, InRecon
    <3>4. \A f \in F : f.at # "project"
      BY <2>0, <3>3 DEF ReconFrame
    <3> HIDE DEF F
    <3>5. QED
      BY <1>2, <3>2, <3>4
  <2>5. CASE ResolveUnknown(p)
    <3> DEFINE idle == [recon[p] EXCEPT !.cur = NoIntent, !.found = NoEvidence]
               F == {[idle EXCEPT !.at = "lookup"],
                     [idle EXCEPT !.at = "error", !.todo = {}]}
    <3>1. \E f \in F : recon' = [recon EXCEPT ![p] = f]
      BY <2>5 DEF ResolveUnknown, SetRecon
    <3>2. \A f \in F : f.at # "project"
      BY <2>0 DEF ReconFrame
    <3> HIDE DEF F
    <3>3. QED
      BY <1>2, <3>1, <3>2
  <2>6. CASE \/ FinishReconcile(p) \/ ReconcileHalt(p) \/ FailReconcile(p)
             \/ VenueFailureHalt(p) \/ ReconcileError(p)
    <3>1. \/ recon' = [recon EXCEPT ![p] = IdleRecon]
          \/ \E l \in {"halt", "failHalt", "errorHalt"} :
               recon' = [recon EXCEPT ![p] = [IdleRecon EXCEPT !.at = l]]
      BY <2>6
      DEF FinishReconcile, ReconcileHalt, FailReconcile, VenueFailureHalt,
          ReconcileError, ReconcileReturn, SetRecon
    <3>2. {"halt", "failHalt", "errorHalt"} \subseteq ReconLabel
      BY DEF ReconLabel
    <3>3. QED
      BY <1>2, <1>5, <3>1, <3>2, IdleReconFrame
  <2>7. QED
    BY <1>7, <2>1, <2>2, <2>3, <2>4, <2>5, <2>6 DEF ReconcileStep
<1>8. QED
  BY <1>3, <1>4, <1>5, <1>6, <1>7, ReconCallers

\* PotentialStep: no step adds an order to Potential except the approval of the risk
\* engine, and then nothing is reopenable: the worker holds both gates and has left
\* its own reconciliation, so that the engine counts all of Potential.
LEMMA PotentialStep ==
  ASSUME CoordInv, GateInv, [Next]_vars
  PROVE  \/ Potential' \subseteq Potential
         \/ /\ Potential = OpenExposure /\ "approve" \in evaluate
            /\ Potential' \subseteq Potential \cup {work.intent}
<1>1. \A i \in Intents : order'[i] \in ExposedOrderState => i \in Potential
  <2> SUFFICES ASSUME NEW i \in Intents, order'[i] \in ExposedOrderState
               PROVE  i \in Potential
    OBVIOUS
  <2>1. OrderMove(i)
    BY JournalMoves DEF JournalMove
  <2>2. CASE order[i] \in ExposedOrderState
    BY <2>2 DEF Potential, OpenExposure
  <2>3. CASE order[i] = "ABSENT" /\ intent[i] = "PREPARING"
    <3>1. reservation[i] = "ACTIVE"
      BY <2>3 DEF CoordInv, StoreInv, JournalsAgree, RowsAgree
    <3>2. QED
      BY <3>1 DEF Potential, OpenExposure
  <2>4. CASE \E p \in Procs : recon[p].at = "project" /\ i \in recon[p].todo
    BY <2>4 DEF Potential, Reopenable
  <2>5. QED
    BY <2>1, <2>2, <2>3, <2>4 DEF OrderMove, ExposedOrderState
<1>2. CASE \E i \in Intents : Reserves(i)
  <2>1. PICK i \in Intents : Reserves(i)
    BY <1>2
  <2>2. \A p \in Procs : recon[p].at = "idle"
    BY <2>1, WorkerAlone DEF Reserves
  <2>3. Potential = OpenExposure
    BY <2>2 DEF Potential, Reopenable
  <2>4. "approve" \in evaluate
    BY <2>1 DEF Reserves, approve_risk
  <2>5. \A j \in Intents : reservation'[j] = "ACTIVE" =>
          j \in Potential \/ j = work.intent
    BY ReservationMoves DEF Reserves, Potential, OpenExposure
  <2>6. Potential' \subseteq Potential \cup {work.intent}
    BY <1>1, <2>5, ReopenableStep DEF Potential, OpenExposure
  <2>7. QED
    BY <2>3, <2>4, <2>6
<1>3. CASE ~ \E i \in Intents : Reserves(i)
  <2>1. \A j \in Intents : reservation'[j] = "ACTIVE" => j \in Potential
    BY <1>3, ReservationMoves DEF Potential, OpenExposure
  <2>2. QED
    BY <1>1, <2>1, ReopenableStep DEF Potential, OpenExposure
<1>4. QED
  BY <1>2, <1>3

\* LimitStep: LimitInv is inductive.
LEMMA LimitStep ==
  ASSUME CoordInv, GateInv, LimitInv, [Next]_vars
  PROVE  LimitInv'
<1>1. IsFiniteSet(Potential) /\ Cardinality(Potential) \in Nat
      /\ Cardinality(Potential) <= MaxOpenOrders
  BY FS_CardinalityType DEF LimitInv
<1>2. CASE Potential' \subseteq Potential
  <2>1. /\ IsFiniteSet(Potential') /\ Cardinality(Potential') \in Nat
        /\ Cardinality(Potential') <= Cardinality(Potential)
    BY <1>1, <1>2, FS_Subset, FS_CardinalityType
  <2>2. QED
    BY <1>1, <2>1 DEF LimitInv
<1>3. CASE /\ Potential = OpenExposure /\ "approve" \in evaluate
           /\ Potential' \subseteq Potential \cup {work.intent}
  <2> DEFINE P == Potential \cup {work.intent}
  <2>1. Cardinality(Potential) < MaxOpenOrders
    BY <1>3 DEF evaluate
  <2>2. IsFiniteSet(P) /\ Cardinality(P) \in Nat
        /\ Cardinality(P) <= Cardinality(Potential) + 1
    <3>1. IsFiniteSet(P) /\ Cardinality(P) = IF work.intent \in Potential
            THEN Cardinality(Potential) ELSE Cardinality(Potential) + 1
      BY <1>1, FS_AddElement
    <3>2. QED
      BY <1>1, <3>1
  <2>3. /\ IsFiniteSet(Potential') /\ Cardinality(Potential') \in Nat
        /\ Cardinality(Potential') <= Cardinality(P)
    BY <1>3, <2>2, FS_Subset, FS_CardinalityType
  <2>4. QED
    BY <1>1, <2>1, <2>2, <2>3 DEF LimitInv
<1>4. QED
  BY <1>2, <1>3, PotentialStep

\* LimitInit: nothing is exposed at first.
LEMMA LimitInit == Init => LimitInv
<1> SUFFICES ASSUME Init PROVE LimitInv
  OBVIOUS
<1>1. Potential = {}
  BY IdleReconFrame
  DEF Init, StoreInit, Potential, Reopenable, OpenExposure, ExposedOrderState
<1>2. QED
  BY <1>1, FS_EmptySet DEF LimitInv

\* LimitKept: reservations and open orders never exceed max_open_orders
\* (ExposureWithinLimit), for every limit, any number of intents and any overlap of
\* reconciliations that reopen orders from stale snapshots.
THEOREM LimitKept == Spec => []ExposureWithinLimit
<1>1. CoordInv /\ GateInv /\ LimitInv /\ [Next]_vars => LimitInv'
  BY LimitStep
<1>2. LimitInv => ExposureWithinLimit
  <2> SUFFICES ASSUME LimitInv PROVE ExposureWithinLimit
    OBVIOUS
  <2>1. OpenExposure \subseteq Potential
    BY DEF Potential
  <2>2. /\ IsFiniteSet(OpenExposure)
        /\ Cardinality(OpenExposure) <= Cardinality(Potential)
    BY <2>1, FS_Subset DEF LimitInv
  <2>3. Cardinality(OpenExposure) \in Nat /\ Cardinality(Potential) \in Nat
    BY <2>2, FS_CardinalityType DEF LimitInv
  <2>4. QED
    BY <2>2, <2>3 DEF LimitInv, ExposureWithinLimit
<1>3. QED
  BY <1>1, <1>2, LimitInit, GateInvariant, PTL DEF Spec

-----------------------------------------------------------------------------
(* The intents the process still has in hand                               *)

\* The elements of a queue.
Elems(q) == {q[n] : n \in 1..Len(q)}

\* The intents that some part of the coordinator is to work on.
Backlog ==
  Elems(queue) \cup deferred \cup todo["main"] \cup todo["control"]
    \cup ({work.intent} \ {NoIntent})

\* HeadElems, AppendElems: what taking from the channel and adding to it do.
LEMMA HeadElems ==
  ASSUME NEW q \in Seq(Intents), q # <<>>
  PROVE  Head(q) \in Intents /\ Elems(q) = Elems(Tail(q)) \cup {Head(q)}
<1>1. /\ Len(q) \in Nat \ {0} /\ Head(q) = q[1] /\ Head(q) \in Intents
      /\ Len(Tail(q)) = Len(q) - 1
      /\ \A n \in 1..Len(q) - 1 : Tail(q)[n] = q[n + 1]
  OBVIOUS
<1>2. ASSUME NEW n \in 1..Len(q) PROVE q[n] = Head(q) \/ q[n] \in Elems(Tail(q))
  <2>1. CASE n = 1
    BY <1>1, <2>1
  <2>2. CASE n # 1
    <3>1. n - 1 \in 1..Len(Tail(q)) /\ Tail(q)[n - 1] = q[n]
      BY <1>1, <2>2
    <3>2. QED
      BY <3>1 DEF Elems
  <2>3. QED
    BY <2>1, <2>2
<1>3. ASSUME NEW n \in 1..Len(Tail(q)) PROVE Tail(q)[n] \in Elems(q)
  <2>1. n + 1 \in 1..Len(q) /\ Tail(q)[n] = q[n + 1]
    BY <1>1
  <2>2. QED
    BY <2>1 DEF Elems
<1>4. Head(q) \in Elems(q)
  BY <1>1 DEF Elems
<1>5. QED
  BY <1>1, <1>2, <1>3, <1>4 DEF Elems

\* AppendElems: what Append adds to the elements.
LEMMA AppendElems ==
  ASSUME NEW q \in Seq(Intents), NEW i \in Intents
  PROVE  Elems(Append(q, i)) = Elems(q) \cup {i}
<1>1. /\ Len(q) \in Nat /\ Len(Append(q, i)) = Len(q) + 1
      /\ \A n \in 1..Len(q) : Append(q, i)[n] = q[n]
      /\ Append(q, i)[Len(q) + 1] = i
  OBVIOUS
<1>2. ASSUME NEW n \in 1..Len(Append(q, i))
      PROVE  Append(q, i)[n] = i \/ Append(q, i)[n] \in Elems(q)
  <2>1. CASE n = Len(q) + 1
    BY <1>1, <2>1
  <2>2. CASE n \in 1..Len(q)
    BY <1>1, <2>2 DEF Elems
  <2>3. QED
    BY <1>1, <2>1, <2>2
<1>3. ASSUME NEW n \in 1..Len(q) PROVE q[n] \in Elems(Append(q, i))
  <2>1. n \in 1..Len(Append(q, i)) /\ Append(q, i)[n] = q[n]
    BY <1>1
  <2>2. QED
    BY <2>1 DEF Elems
<1>4. i \in Elems(Append(q, i))
  <2>1. Len(q) + 1 \in 1..Len(Append(q, i))
    BY <1>1
  <2>2. QED
    BY <1>1, <2>1 DEF Elems
<1>5. QED
  BY <1>2, <1>3, <1>4 DEF Elems

\* The steps that move intents between the places of the backlog.
BacklogStep ==
  \/ WorkerStep
  \/ \E p \in {"main", "control"} : Enqueue(p)
  \/ \E i \in Intents : SubmitIntent(i)
  \/ CommitResume \/ RecoverWork \/ ReadStartupState

\* OtherSteps: no other step does, unless a resume request is abandoned.
LEMMA OtherSteps ==
  ASSUME ~RequestTimeouts, LabelsOK, [Next]_vars
  PROVE  BacklogStep \/ Restart \/ UNCHANGED <<queue, deferred, todo, work>>
<1>1. CASE WorkerStep
  BY <1>1 DEF BacklogStep
<1>2. ASSUME ~WorkerStep, ~Restart PROVE work' = work
  BY <1>2, OnlyWorkerWorks
<1>3. ASSUME NEW p \in Procs, ReconcileStep(p) \/ CancelStep(p)
      PROVE  UNCHANGED <<queue, deferred, todo>>
  BY <1>3
  DEF ReconcileStep, FetchOrders, ReadLocalOrders, ProjectOrder, ReadUnknowns,
      LookupUnknown, ResolveUnknown, FinishReconcile, ReconcileHalt, FailReconcile,
      VenueFailureHalt, ReconcileError, CancelStep, CreateCancellation, ReadTarget,
      MarkTarget, CancelAtVenue, CommitCancelled, finish_cancellation, sched, locals
<1>4. CASE ControlJob
  <2>1. BacklogStep \/ UNCHANGED <<queue, deferred, todo>>
    BY <1>4
    DEF BacklogStep, ControlJob, StartReconcileJob, HeartbeatHalt, StartHaltJob,
        StartResume, CheckResume, EndJob, AbandonResume, sched, locals
  <2>2. QED
    BY <1>1, <1>2, <2>1
<1>5. CASE StartupStep \/ ShutdownStep
  <2>1. BacklogStep \/ UNCHANGED <<queue, deferred, todo>>
    BY <1>5
    DEF BacklogStep, StartupStep, ReadPriorState, MarkStartup,
        fail_interrupted_reconciliations, RecoverInterrupted, HaltInterrupted,
        RecoverCancellations, StartupReconcile, StartupHeartbeat, BecomeReady,
        EndStartup, ShutdownStep, BeginShutdown, ShutdownCancel, ShutdownReconcile,
        EndShutdown, sched, locals
  <2>2. QED
    BY <1>1, <1>2, <2>1
<1>6. CASE \/ StartCancellation \/ EndCancellation \/ CancelRequest
           \/ halt_idempotent \/ UNCHANGED vars
           \/ \E i \in Intents : VenueStep(i) \/ SubmitIntent(i)
  <2>1. BacklogStep \/ UNCHANGED <<queue, deferred, todo>>
    BY <1>6
    DEF BacklogStep, StartCancellation, EndCancellation, CancelRequest, VenueStep,
        halt_idempotent, vars, sched, locals
  <2>2. QED
    BY <1>1, <1>2, <2>1
<1>7. QED
  BY <1>1, <1>2, <1>3, <1>4, <1>5, <1>6 DEF Next

\* WorkerDecides: the worker takes no intent back to RECEIVED.
LEMMA WorkerDecides ==
  ASSUME CoordInv, WorkerStep, NEW i \in Intents, intent'[i] = "RECEIVED"
  PROVE  intent[i] = "RECEIVED"
<1>0. intent \in [Intents -> IntentState \cup {"ABSENT"}]
  BY DEF CoordInv, StoreInv, StoreTypeOK
<1>1. CASE FinishSubmission
  <2>1. \/ UNCHANGED intent
        \/ \E s \in {"SUBMITTED", "UNKNOWN"} :
             intent' = [intent EXCEPT ![work.intent] = s]
    BY <1>1 DEF FinishSubmission, finish_submission, storeVars
  <2>2. QED
    BY <1>0, <2>1
<1>2. CASE PrepareOrder \/ BeginSubmission \/ EvaluateRisk
  <2>1. \/ UNCHANGED intent
        \/ \E s \in {"PREPARED", "REJECTED", "SUBMITTING", "APPROVED"} :
             intent' = [intent EXCEPT ![work.intent] = s]
    BY <1>2
    DEF PrepareOrder, BeginSubmission, EvaluateRisk, create_prepared_order,
        reject_preparation, begin_submission, evaluate_and_reserve_risk, approve_risk,
        transition_intent, storeVars
  <2>2. QED
    BY <1>0, <2>1
<1>3. CASE ~(FinishSubmission \/ PrepareOrder \/ BeginSubmission \/ EvaluateRisk)
  <2>1. \/ UNCHANGED intent
        \/ \E s \in {"REJECTED", "VALIDATING", "PREPARING"} :
             intent' = [intent EXCEPT ![work.intent] = s]
    BY <1>3
    DEF WorkerStep, ReceiveIntent, LockSafety, LockLifecycle, PreIntentReconcile,
        CheckHealth, reject_received, BeginValidation, ValidateMarket,
        validate_freshness_and_increments, BeginPreparation, SendToVenue, WorkerHalt,
        ReleaseWorker, halt_inner, set_service_state, transition_intent, storeVars,
        journalVars
  <2>2. QED
    BY <1>0, <2>1
<1>4. QED
  BY <1>1, <1>2, <1>3

\* IntentMoves: an intent becomes RECEIVED when it is admitted or recovered only.
LEMMA IntentMoves ==
  ASSUME CoordInv, [Next]_vars, NEW i \in Intents, intent'[i] = "RECEIVED"
  PROVE  intent[i] = "RECEIVED" \/ SubmitIntent(i) \/ (RecoverWork /\ i \in Recoverable)
<1>0. intent \in [Intents -> IntentState \cup {"ABSENT"}]
  BY DEF CoordInv, StoreInv, StoreTypeOK
<1>1. CASE WorkerStep
  BY <1>1, WorkerDecides
<1>2. ASSUME NEW p \in Procs, ReconcileStep(p) PROVE intent[i] = "RECEIVED"
  <2>1. CASE ProjectOrder(p)
    BY <2>1 DEF ProjectOrder, reconcile_order_projection, storeVars
  <2>2. CASE ResolveUnknown(p)
    BY <1>0, <2>2 DEF ResolveUnknown, resolve_unknown_submission, storeVars
  <2>3. CASE ~ProjectOrder(p) /\ ~ResolveUnknown(p)
    BY <1>2, <2>3
    DEF ReconcileStep, FetchOrders, ReadLocalOrders, ReadUnknowns, LookupUnknown,
        FinishReconcile, ReconcileHalt, FailReconcile, VenueFailureHalt,
        ReconcileError, set_service_state, storeVars, journalVars
  <2>4. QED
    BY <2>1, <2>2, <2>3
<1>3. ASSUME NEW p \in Procs, CancelStep(p) PROVE intent[i] = "RECEIVED"
  <2>1. \/ UNCHANGED intent
        \/ transition_order(canc[p].cur, "CANCEL_PENDING")
        \/ transition_order(canc[p].cur, "CANCELLED")
        \/ cancel_prepared_order(canc[p].cur)
    BY <1>3
    DEF CancelStep, CreateCancellation, ReadTarget, MarkTarget, CancelAtVenue,
        CommitCancelled, finish_cancellation, CancelError, storeVars
  <2>2. QED
    BY <1>0, <2>1 DEF transition_order, cancel_prepared_order
<1>4. CASE ControlJob
  BY <1>4
  DEF ControlJob, StartReconcileJob, HeartbeatHalt, StartHaltJob, StartResume,
      CheckResume, CommitResume, Enqueue, EndJob, AbandonResume, set_service_state,
      set_service_state_if_unchanged, storeVars, journalVars
<1>5. CASE StartupStep \/ ShutdownStep
  <2>1. CASE RecoverWork
    BY <2>1 DEF RecoverWork, recover_pre_submission_work
  <2>2. CASE RecoverInterrupted
    BY <2>2 DEF RecoverInterrupted, recover_interrupted_submissions
  <2>3. CASE ~RecoverWork /\ ~RecoverInterrupted
    BY <1>5, <2>3
    DEF StartupStep, ReadPriorState, MarkStartup, fail_interrupted_reconciliations,
        HaltInterrupted, RecoverCancellations, StartupReconcile,
        StartupHeartbeat, ReadStartupState, BecomeReady, Enqueue, EndStartup,
        ShutdownStep, BeginShutdown, ShutdownCancel, ShutdownReconcile, EndShutdown,
        halt_inner, set_service_state, storeVars, journalVars
  <2>4. QED
    BY <2>1, <2>2, <2>3
<1>6. ASSUME NEW j \in Intents, SubmitIntent(j) 
      PROVE  intent[i] = "RECEIVED" \/ SubmitIntent(i)
  BY <1>0, <1>6 DEF SubmitIntent, admit_intent
<1>7. CASE \/ StartCancellation \/ EndCancellation \/ CancelRequest \/ Restart
           \/ UNCHANGED vars \/ halt_idempotent
           \/ \E j \in Intents : VenueStep(j)
  BY <1>7
  DEF StartCancellation, EndCancellation, CancelRequest, Restart, vars, VenueStep,
      halt_idempotent, set_service_state, storeVars, journalVars
<1>8. QED
  BY <1>1, <1>2, <1>3, <1>4, <1>5, <1>6, <1>7 DEF Next

\* IntentsStay: an intent that was admitted stays in the journal.
LEMMA IntentsStay ==
  ASSUME StoreInv, [StoreNext]_storeVars, NEW i \in Intents, intent[i] # "ABSENT"
  PROVE  intent'[i] # "ABSENT"
<1>0. intent \in [Intents -> IntentState \cup {"ABSENT"}]
  BY DEF StoreInv, StoreTypeOK
<1>1. CASE UNCHANGED storeVars \/ ControlStep
  BY <1>1
  DEF ControlStep, set_service_state, set_service_state_if_unchanged, journalVars,
      storeVars
<1>2. ASSUME NEW j \in Intents, IntentStep(j) PROVE intent'[i] # "ABSENT"
  BY <1>0, <1>2
  DEF IntentStep, admit_intent, transition_intent, evaluate_and_reserve_risk,
      approve_risk, create_prepared_order, reject_preparation
<1>3. ASSUME NEW j \in Intents, OrderStep(j) PROVE intent'[i] # "ABSENT"
  BY <1>0, <1>3
  DEF OrderStep, begin_submission, SubmissionOutcome, finish_submission,
      resolve_unknown_submission, reconcile_order_projection, transition_order,
      cancel_prepared_order
<1>4. CASE RecoveryStep
  BY <1>4
  DEF RecoveryStep, recover_interrupted_submissions, recover_pre_submission_work
<1>5. QED
  BY <1>1, <1>2, <1>3, <1>4 DEF StoreNext

\* The labels of the worker from which its intent is no longer RECEIVED.
DecidedLabel ==
  {"validate", "risk", "approved", "prepare", "begin", "send", "finish", "halt",
   "reconcile", "release"}

\* An idle worker has let go of its intent.
IdleHasNoIntent == pc["worker"] = "idle" => work.intent = NoIntent

\* Whatever is to be worked on was admitted.
BacklogAdmitted == \A i \in Backlog : intent[i] # "ABSENT"

\* After its decision the worker's intent is no longer RECEIVED.
DecidedIsSettled == pc["worker"] \in DecidedLabel => intent[work.intent] # "RECEIVED"

\* Startup defers nothing before it has released its gates.
NothingDeferred == pc["main"] \in StartupLabel \ {"release"} => deferred = {}

\* Resume holds deferred work only while it enqueues it.
NothingLeftToResume == pc["control"] # "enqueue" => todo["control"] = {}

\* TrackInv: the property with where each task may hold an intent.
TrackInv ==
  /\ IdleHasNoIntent /\ BacklogAdmitted /\ DecidedIsSettled /\ NothingDeferred
  /\ NothingLeftToResume /\ ReceivedWorkIsTracked

\* IntentKept: a submission and its outcome concern the intent in hand.
LEMMA IntentKept ==
  ASSUME CoordInv, SendToVenue \/ FinishSubmission
  PROVE  work'.intent = work.intent
<1>1. CASE FinishSubmission
  <2>1. work' = [work EXCEPT !.reply = "none", !.filled = 0]
    BY <1>1 DEF FinishSubmission
  <2>2. QED
    BY <2>1 DEF CoordInv, LocalsOK
<1>2. QED
  BY <1>1, SendMoves

\* IdleStep: the worker that waits for an intent has none.
LEMMA IdleStep ==
  ASSUME CoordInv, IdleHasNoIntent, [Next]_vars
  PROVE  IdleHasNoIntent'
<1>0. LabelsOK
  BY DEF CoordInv
<1>1. CASE ReleaseWorker \/ Restart
  BY <1>1 DEF ReleaseWorker, Restart, FreshProcess, IdleWork, IdleHasNoIntent
<1>2. CASE WorkerStep /\ ~ReleaseWorker
  <2>1. \E l \in WorkerLabel \ {"idle"} : pc' = [pc EXCEPT !["worker"] = l]
    BY <1>2
    DEF WorkerStep, ReceiveIntent, LockSafety, LockLifecycle, PreIntentReconcile,
        CheckHealth, reject_received, BeginValidation, ValidateMarket,
        validate_freshness_and_increments, EvaluateRisk, BeginPreparation,
        PrepareOrder, BeginSubmission, SendToVenue, FinishSubmission, WorkerHalt,
        WorkerGoto, AfterVenueError, Goto, WorkerLabel
  <2>2. QED
    BY <1>0, <2>1 DEF LabelsOK, Procs, IdleHasNoIntent
<1>3. CASE ~WorkerStep /\ ~Restart
  BY <1>0, <1>3, OnlyWorkerWorks DEF IdleHasNoIntent
<1>4. QED
  BY <1>1, <1>2, <1>3

\* DecidedStep: the worker goes on from a decision only, and no recovery takes its
\* intent back meanwhile: it would need safety_gate.
LEMMA DecidedStep ==
  ASSUME CoordInv, GateInv, TrackInv, [Next]_vars
  PROVE  DecidedIsSettled'
<1>0. /\ LabelsOK /\ pc \in [Procs -> Label]
      /\ intent \in [Intents -> IntentState \cup {"ABSENT"}]
      /\ pc["worker"] # "idle" => work.intent \in Intents
      /\ work.intent \in Intents \cup {NoIntent}
  BY DEF CoordInv, LabelsOK, LocalsOK, StoreInv, StoreTypeOK
<1>1. CASE Restart
  BY <1>1 DEF Restart, FreshProcess, DecidedIsSettled, DecidedLabel, Procs
<1>2. CASE ~WorkerStep /\ ~Restart
  <2> SUFFICES ASSUME pc["worker"] \in DecidedLabel, intent'[work.intent] = "RECEIVED"
               PROVE  FALSE
    BY <1>0, <1>2, OnlyWorkerWorks DEF DecidedIsSettled
  <2>1. work.intent \in Intents /\ intent[work.intent] # "RECEIVED"
    BY <1>0 DEF TrackInv, DecidedIsSettled, DecidedLabel
  <2>2. SubmitIntent(work.intent) \/ RecoverWork
    BY <2>1, IntentMoves
  <2>3. ~SubmitIntent(work.intent)
    BY <2>1 DEF SubmitIntent, admit_intent, TrackInv, BacklogAdmitted, Backlog
  <2>4. ~RecoverWork
    BY DEF RecoverWork, MainAt, At, GateInv, HoldsSafety, StartupLabel, DecidedLabel
  <2>5. QED
    BY <2>2, <2>3, <2>4
<1>3. CASE reject_received \/ BeginValidation
  <2>1. pc["worker"] # "idle" /\ work' = work
    BY <1>3 DEF reject_received, BeginValidation, WorkerAt, At, locals
  <2>2. QED
    BY <1>0, <1>3, <2>1
    DEF reject_received, BeginValidation, transition_intent, DecidedIsSettled,
        storeVars
<1>4. CASE WorkerStep /\ ~(reject_received \/ BeginValidation)
  <2> SUFFICES ASSUME pc'["worker"] \in DecidedLabel, intent'[work'.intent] = "RECEIVED"
               PROVE  FALSE
    BY DEF DecidedIsSettled
  <2>1. pc["worker"] \in DecidedLabel /\ work'.intent = work.intent
    <3>1. CASE SendToVenue \/ FinishSubmission
      <4>1. pc["worker"] \in {"send", "finish"}
        BY <3>1 DEF SendToVenue, FinishSubmission, WorkerAt, At
      <4>2. QED
        BY <3>1, <4>1, IntentKept DEF DecidedLabel
    <3>2. CASE ~SendToVenue /\ ~FinishSubmission
      BY <1>0, <1>4, <3>2
      DEF WorkerStep, ReceiveIntent, LockSafety, LockLifecycle, PreIntentReconcile,
          CheckHealth, ValidateMarket, validate_freshness_and_increments, EvaluateRisk,
          BeginPreparation, PrepareOrder, BeginSubmission, WorkerHalt, ReleaseWorker,
          WorkerAt, WorkerGoto, AfterVenueError, At, Goto, DecidedLabel, Procs, locals
    <3>3. QED
      BY <3>1, <3>2
  <2>2. work.intent \in Intents /\ intent[work.intent] # "RECEIVED"
    BY <1>0, <2>1 DEF TrackInv, DecidedIsSettled, DecidedLabel
  <2>3. QED
    BY <1>4, <2>1, <2>2, WorkerDecides
<1>5. QED
  BY <1>1, <1>2, <1>3, <1>4

\* DeferredStep: recovery defers work only at the end of startup, and the worker
\* only while it holds safety_gate.
LEMMA DeferredStep ==
  ASSUME CoordInv, GateInv, TrackInv, ~RequestTimeouts, [Next]_vars
  PROVE  NothingDeferred'
<1>0. LabelsOK /\ pc \in [Procs -> Label]
  BY DEF CoordInv, LabelsOK
<1>1. CASE Restart
  BY <1>1 DEF Restart, FreshProcess, NothingDeferred
<1>2. CASE ~Restart
  <2>1. pc'["main"] \in StartupLabel \ {"release"} =>
          pc["main"] \in StartupLabel \ {"release"}
    <3>1. CASE StartupStep \/ ShutdownStep
      BY <1>0, <3>1
      DEF StartupStep, ReadPriorState, MarkStartup, fail_interrupted_reconciliations,
          RecoverInterrupted, HaltInterrupted, RecoverWork, RecoverCancellations,
          StartupReconcile, StartupHeartbeat, ReadStartupState, BecomeReady, Enqueue,
          EndStartup, ShutdownStep, BeginShutdown, ShutdownCancel, ShutdownReconcile,
          EndShutdown, MainAt, MainGoto, At, Goto, StartupLabel, Procs
    <3>2. CASE ~StartupStep /\ ~ShutdownStep
      BY <1>0, <1>2, <3>2, MainWaits DEF StartupLabel
    <3>3. QED
      BY <3>1, <3>2
  <2>2. CASE BeginSubmission
    BY <1>0, <2>1, <2>2
    DEF BeginSubmission, WorkerAt, At, GateInv, HoldsSafety, NothingDeferred
  <2>3. CASE ReadStartupState
    BY <1>0, <2>1, <2>3
    DEF ReadStartupState, MainAt, MainGoto, At, Goto, Procs, TrackInv, NothingDeferred
  <2>4. CASE ~BeginSubmission /\ ~ReadStartupState
    <3>1. deferred' = deferred \/ deferred' = {}
      <4>1. CASE WorkerStep
        BY <2>4, <4>1
        DEF WorkerStep, ReceiveIntent, LockSafety, LockLifecycle, PreIntentReconcile,
            CheckHealth, reject_received, BeginValidation, ValidateMarket,
            validate_freshness_and_increments, EvaluateRisk, BeginPreparation,
            PrepareOrder, SendToVenue, FinishSubmission, WorkerHalt, ReleaseWorker, sched
      <4>2. CASE ~WorkerStep
        BY <1>0, <1>2, <2>4, <4>2, OtherSteps
        DEF BacklogStep, Enqueue, SubmitIntent, CommitResume, RecoverWork, sched
      <4>3. QED
        BY <4>1, <4>2
    <3>2. QED
      BY <2>1, <3>1 DEF TrackInv, NothingDeferred
  <2>5. QED
    BY <2>2, <2>3, <2>4
<1>3. QED
  BY <1>1, <1>2

\* LeftStep: control has recovered work in hand only while it enqueues it.
LEMMA LeftStep ==
  ASSUME CoordInv, TrackInv, ~RequestTimeouts, [Next]_vars
  PROVE  NothingLeftToResume'
<1>0. /\ LabelsOK /\ pc \in [Procs -> Label] /\ NothingLeftToResume
      /\ todo \in [{"main", "control"} -> SUBSET Intents]
  BY DEF CoordInv, LabelsOK, LocalsOK, TrackInv
<1>1. CASE Restart
  BY <1>1 DEF Restart, FreshProcess, NothingLeftToResume
<1>2. CASE ControlJob
  BY <1>0, <1>2
  DEF ControlJob, StartReconcileJob, HeartbeatHalt, StartHaltJob, StartResume,
      CheckResume, CommitResume, Enqueue, EndJob, AbandonResume, At, Goto, Procs,
      locals, NothingLeftToResume
<1>3. CASE ~ControlJob /\ ~Restart
  <2>1. pc'["control"] # "enqueue" => pc["control"] # "enqueue"
    BY <1>0, <1>3, ControlWaits
  <2>2. todo'["control"] = todo["control"]
    <3>1. CASE WorkerStep
      BY <3>1
      DEF WorkerStep, ReceiveIntent, LockSafety, LockLifecycle, PreIntentReconcile,
          CheckHealth, reject_received, BeginValidation, ValidateMarket,
          validate_freshness_and_increments, EvaluateRisk, BeginPreparation,
          PrepareOrder, BeginSubmission, SendToVenue, FinishSubmission, WorkerHalt,
          ReleaseWorker, locals
    <3>2. CASE Enqueue("main") \/ RecoverWork \/ ReadStartupState
      BY <1>0, <3>2 DEF Enqueue, RecoverWork, ReadStartupState, locals
    <3>3. CASE \E i \in Intents : SubmitIntent(i)
      BY <3>3 DEF SubmitIntent, locals
    <3>4. QED
      BY <1>0, <1>3, <3>1, <3>2, <3>3, OtherSteps DEF BacklogStep, ControlJob
  <2>3. QED
    BY <1>0, <2>1, <2>2 DEF NothingLeftToResume
<1>4. QED
  BY <1>1, <1>2, <1>3

\* WorkerBacklog: a step of the worker takes nothing from the backlog but the intent
\* that it has decided.
LEMMA WorkerBacklog ==
  ASSUME CoordInv, TrackInv, WorkerStep, NEW i \in Intents
  PROVE  /\ i \in Backlog' => i \in Backlog
         /\ i \in Backlog /\ intent[i] = "RECEIVED" => i \in Backlog'
<1>0. /\ queue \in Seq(Intents)
      /\ pc["worker"] # "idle" => work.intent \in Intents
      /\ work \in [intent : Intents \cup {NoIntent}, reply : ReplyKind, filled : 0..Qty]
  BY DEF CoordInv, LocalsOK, SchedOK
<1>1. CASE ReceiveIntent
  <2>1. /\ work.intent = NoIntent /\ work'.intent = Head(queue)
        /\ queue' = Tail(queue) /\ queue # <<>> /\ UNCHANGED <<deferred, todo>>
    BY <1>1 DEF ReceiveIntent, WorkerAt, At, TrackInv, IdleHasNoIntent, IdleWork
  <2>2. Head(queue) \in Intents /\ Elems(queue) = Elems(queue') \cup {Head(queue)}
    BY <1>0, <2>1, HeadElems
  <2>3. QED
    BY <2>1, <2>2 DEF Backlog
<1>2. CASE ReleaseWorker
  <2>1. /\ work'.intent = NoIntent /\ UNCHANGED <<queue, deferred, todo>>
        /\ intent[work.intent] # "RECEIVED"
    BY <1>2
    DEF ReleaseWorker, WorkerAt, At, IdleWork, TrackInv, DecidedIsSettled, DecidedLabel,
        sched
  <2>2. QED
    BY <2>1 DEF Backlog
<1>3. CASE BeginSubmission
  <2>1. /\ pc["worker"] # "idle" /\ work' = work /\ UNCHANGED <<queue, todo>>
        /\ deferred' = deferred \/ deferred' = deferred \cup {work.intent}
    BY <1>3 DEF BeginSubmission, WorkerAt, At, locals
  <2>2. QED
    BY <1>0, <2>1 DEF Backlog
<1>4. CASE SendToVenue \/ FinishSubmission
  <2>1. UNCHANGED <<queue, deferred, todo>>
    BY <1>4 DEF SendToVenue, FinishSubmission, sched
  <2>2. work'.intent = work.intent
    BY <1>4, IntentKept
  <2>3. QED
    BY <2>1, <2>2 DEF Backlog
<1>5. CASE ~(ReceiveIntent \/ ReleaseWorker \/ BeginSubmission \/ SendToVenue
             \/ FinishSubmission)
  <2>1. UNCHANGED <<queue, deferred, todo, work>>
    BY <1>5
    DEF WorkerStep, LockSafety, LockLifecycle, PreIntentReconcile, CheckHealth,
        reject_received, BeginValidation, ValidateMarket,
        validate_freshness_and_increments, EvaluateRisk, BeginPreparation, PrepareOrder,
        WorkerHalt, sched, locals
  <2>2. QED
    BY <2>1 DEF Backlog
<1>6. QED
  BY <1>1, <1>2, <1>3, <1>4, <1>5

\* OtherBacklog: the other steps move intents within the backlog or add to it.
LEMMA OtherBacklog ==
  ASSUME CoordInv, TrackInv, ~RequestTimeouts, [Next]_vars, ~WorkerStep, ~Restart,
         NEW i \in Intents
  PROVE  /\ i \in Backlog' => i \in Backlog \/ SubmitIntent(i) \/ i \in Recoverable
         /\ i \in Backlog /\ intent[i] = "RECEIVED" => i \in Backlog'
         /\ SubmitIntent(i) \/ (RecoverWork /\ i \in Recoverable) => i \in Backlog'
<1>0. /\ queue \in Seq(Intents) /\ todo \in [{"main", "control"} -> SUBSET Intents]
      /\ LabelsOK /\ work' = work
  BY OnlyWorkerWorks DEF CoordInv, LocalsOK, SchedOK
<1>1. ASSUME NEW j \in Intents, SubmitIntent(j)
      PROVE  /\ i \in Backlog' => i \in Backlog \/ SubmitIntent(i)
             /\ i \in Backlog => i \in Backlog'
             /\ j \in Backlog'
  <2>1. queue' = Append(queue, j) /\ UNCHANGED <<deferred, todo>>
    BY <1>1 DEF SubmitIntent, locals
  <2>2. Elems(queue') = Elems(queue) \cup {j}
    BY <1>0, <2>1, AppendElems
  <2>3. QED
    BY <1>0, <1>1, <2>1, <2>2 DEF Backlog
<1>2. ASSUME NEW p \in {"main", "control"}, Enqueue(p)
      PROVE  /\ i \in Backlog' => i \in Backlog
             /\ i \in Backlog /\ intent[i] = "RECEIVED" => i \in Backlog'
  <2>1. UNCHANGED deferred
    BY <1>2 DEF Enqueue
  <2>2. CASE UNCHANGED <<queue, todo>>
    BY <1>0, <2>1, <2>2 DEF Backlog
  <2>3. CASE ~UNCHANGED <<queue, todo>>
    <3>1. PICK j \in todo[p] :
            /\ \/ queue' = Append(queue, j)
               \/ UNCHANGED queue /\ intent[j] # "RECEIVED"
            /\ todo' = [todo EXCEPT ![p] = @ \ {j}]
      BY <1>2, <2>3 DEF Enqueue
    <3>2. j \in Intents /\ j \in Backlog
      BY <1>0, <3>1 DEF Backlog
    <3>3. \/ Elems(queue') = Elems(queue) \cup {j}
          \/ Elems(queue') = Elems(queue) /\ intent[j] # "RECEIVED"
      BY <1>0, <3>1, <3>2, AppendElems
    <3>4. \A q \in {"main", "control"} :
            todo'[q] = IF q = p THEN todo[q] \ {j} ELSE todo[q]
      BY <1>0, <3>1
    <3>5. QED
      BY <1>0, <2>1, <3>1, <3>2, <3>3, <3>4 DEF Backlog
  <2>4. QED
    BY <2>2, <2>3
<1>3. CASE CommitResume
  <2>1. todo["control"] = {} /\ UNCHANGED queue
    BY <1>3 DEF CommitResume, At, TrackInv, NothingLeftToResume
  <2>2. \/ UNCHANGED <<todo, deferred>>
        \/ todo'["control"] = deferred /\ todo'["main"] = todo["main"] /\ deferred' = {}
    BY <1>0, <1>3 DEF CommitResume
  <2>3. ~RecoverWork
    BY <1>0, <1>3
    DEF CommitResume, RecoverWork, MainAt, MainGoto, At, Goto, LabelsOK, Procs
  <2>4. QED
    BY <1>0, <1>1, <2>1, <2>2, <2>3 DEF Backlog
<1>4. CASE RecoverWork
  <2>1. /\ UNCHANGED <<queue, deferred>>
        /\ todo'["main"] = Recoverable /\ todo'["control"] = todo["control"]
    BY <1>0, <1>4 DEF RecoverWork, sched
  <2>2. intent[i] = "RECEIVED" => i \in Recoverable
    BY DEF Recoverable, RecoverableIntentState
  <2>3. QED
    BY <1>0, <1>1, <2>1, <2>2 DEF Backlog
<1>5. CASE ReadStartupState
  <2>1. pc["main"] = "s_state" /\ deferred = {} /\ UNCHANGED queue
    BY <1>5 DEF ReadStartupState, MainAt, At, TrackInv, NothingDeferred, StartupLabel
  <2>2. \/ UNCHANGED <<todo, deferred>>
        \/ todo'["main"] = {} /\ todo'["control"] = todo["control"]
           /\ deferred' = todo["main"]
    BY <1>0, <1>5 DEF ReadStartupState
  <2>3. ~RecoverWork
    BY <2>1 DEF RecoverWork, MainAt, At
  <2>4. QED
    BY <1>0, <1>1, <2>1, <2>2, <2>3 DEF Backlog
<1>6. CASE UNCHANGED <<queue, deferred, todo, work>>
  <2>1. RecoverWork => i \in Backlog' \/ i \notin Recoverable
    BY <1>4
  <2>2. QED
    BY <1>1, <1>6, <2>1 DEF Backlog
<1>7. ~(\E p \in {"main", "control"} : Enqueue(p)) \/ ~RecoverWork
  BY DEF Enqueue, RecoverWork, MainAt, MainGoto, Goto, At, CoordInv, LabelsOK, Procs
<1>8. QED
  BY <1>0, <1>1, <1>2, <1>3, <1>4, <1>5, <1>6, <1>7, OtherSteps DEF BacklogStep

\* The labels of main at which recovery has not read the backlog yet, or at which the
\* process has ended.
Unread ==
  {"s_read", "s_mark", "s_runs", "s_interrupted", "s_halt", "s_recover", "exit"}

\* TrackedMeans: ReceivedWorkIsTracked, in terms of the backlog.
LEMMA TrackedMeans ==
  CoordInv =>
    (ReceivedWorkIsTracked <=>
       (pc["main"] \in Unread \/ \A i \in Intents : intent[i] = "RECEIVED" => i \in Backlog))
  BY DEF ReceivedWorkIsTracked, Unread, Backlog, Elems

\* UnreadStep: main leaves those labels by reading the backlog only.
LEMMA UnreadStep ==
  ASSUME CoordInv, [Next]_vars, pc["main"] \in Unread, pc'["main"] \notin Unread
  PROVE  RecoverWork
<1>0. LabelsOK /\ pc \in [Procs -> Label]
  BY DEF CoordInv, LabelsOK
<1>1. CASE StartupStep \/ ShutdownStep
  BY <1>0, <1>1
  DEF StartupStep, ReadPriorState, MarkStartup, fail_interrupted_reconciliations,
      RecoverInterrupted, HaltInterrupted, RecoverCancellations, StartupReconcile,
      StartupHeartbeat, ReadStartupState, BecomeReady, Enqueue, EndStartup,
      ShutdownStep, BeginShutdown, ShutdownCancel, ShutdownReconcile, EndShutdown,
      MainAt, MainGoto, At, Goto, Procs, Unread
<1>2. CASE Restart
  BY <1>2 DEF Restart, FreshProcess, Unread, Procs
<1>3. CASE ~StartupStep /\ ~ShutdownStep /\ ~Restart
  BY <1>0, <1>3, MainWaits DEF Unread
<1>4. QED
  BY <1>1, <1>2, <1>3

\* WorkerExcluded: admission and recovery are no steps of the worker.
LEMMA WorkerExcluded ==
  ASSUME CoordInv, NEW i \in Intents, SubmitIntent(i) \/ RecoverWork
  PROVE  ~WorkerStep
<1>1. pc \in [Procs -> Label] /\ pc'["worker"] = pc["worker"]
  BY DEF CoordInv, LabelsOK, Procs, SubmitIntent, RecoverWork, MainGoto, Goto
<1>2. QED
  BY <1>1
  DEF WorkerStep, ReceiveIntent, LockSafety, LockLifecycle, PreIntentReconcile,
      CheckHealth, reject_received, BeginValidation, ValidateMarket,
      validate_freshness_and_increments, EvaluateRisk, BeginPreparation, PrepareOrder,
      BeginSubmission, SendToVenue, FinishSubmission, WorkerHalt, ReleaseWorker,
      WorkerAt, WorkerGoto, AfterVenueError, At, Goto, Procs

\* TrackStep: TrackInv is inductive.
LEMMA TrackStep ==
  ASSUME ~RequestTimeouts, CoordInv, CoordInv', GateInv, TrackInv, [Next]_vars
  PROVE  TrackInv'
<1>0. StoreInv /\ [StoreNext]_storeVars /\ Backlog \subseteq Intents
      /\ Backlog' \subseteq Intents
  <2>1. CoordInv => Backlog \subseteq Intents
    BY DEF CoordInv, LocalsOK, SchedOK, Backlog, Elems
  <2>2. CoordInv' => Backlog' \subseteq Intents
    BY DEF CoordInv, LocalsOK, SchedOK, Backlog, Elems
  <2>3. QED
    BY <2>1, <2>2, JournalStep DEF CoordInv
<1>1. CASE Restart
  <2>1. Backlog' = {} /\ pc'["main"] = "s_read"
    BY <1>1 DEF Restart, FreshProcess, Backlog, Elems, IdleWork, Procs
  <2>2. ReceivedWorkIsTracked'
    BY <2>1 DEF ReceivedWorkIsTracked
  <2>3. QED
    BY <2>1, <2>2, IdleStep, DecidedStep, DeferredStep, LeftStep
    DEF TrackInv, BacklogAdmitted
<1>2. CASE ~Restart
  <2>1. ASSUME NEW i \in Intents
        PROVE  /\ i \in Backlog' => i \in Backlog \/ SubmitIntent(i) \/ i \in Recoverable
               /\ i \in Backlog /\ intent[i] = "RECEIVED" => i \in Backlog'
    BY <1>2, <2>1, WorkerBacklog, OtherBacklog
  <2>2. ASSUME NEW i \in Intents, SubmitIntent(i) \/ (RecoverWork /\ i \in Recoverable)
        PROVE  i \in Backlog'
    <3>1. ~WorkerStep
      BY <2>2, WorkerExcluded
    <3>2. QED
      BY <1>2, <2>2, <3>1, OtherBacklog
  <2>3. BacklogAdmitted'
    <3> SUFFICES ASSUME NEW i \in Backlog' PROVE intent'[i] # "ABSENT"
      BY DEF BacklogAdmitted
    <3>1. i \in Intents
      BY <1>0
    <3>2. CASE SubmitIntent(i)
      BY <1>0, <3>1, <3>2 DEF SubmitIntent, admit_intent, StoreInv, StoreTypeOK
    <3>3. CASE i \in Backlog \/ i \in Recoverable
      <4>1. intent[i] # "ABSENT"
        BY <3>3
        DEF TrackInv, BacklogAdmitted, Recoverable, RecoverableIntentState
      <4>2. QED
        BY <1>0, <3>1, <4>1, IntentsStay
    <3>4. QED
      BY <2>1, <3>1, <3>2, <3>3
  <2>4. ReceivedWorkIsTracked'
    <3>1. CASE pc'["main"] \in Unread
      BY <3>1, TrackedMeans DEF ReceivedWorkIsTracked, Unread
    <3>2. CASE pc'["main"] \notin Unread
      <4>1. CASE pc["main"] \in Unread
        <5>1. RecoverWork
          BY <3>2, <4>1, UnreadStep
        <5>2. \A i \in Intents : intent'[i] = "RECEIVED" => i \in Recoverable
          BY <5>1
          DEF RecoverWork, recover_pre_submission_work, Recoverable, RecoverableIntentState
        <5>3. \A i \in Intents : intent'[i] = "RECEIVED" => i \in Backlog'
          BY <2>2, <5>1, <5>2
        <5>4. QED
          BY <5>3 DEF ReceivedWorkIsTracked, Backlog, Elems
      <4>2. CASE pc["main"] \notin Unread
        <5>1. \A i \in Intents : intent[i] = "RECEIVED" => i \in Backlog
          BY <4>2, TrackedMeans DEF TrackInv
        <5>2. \A i \in Intents : intent'[i] = "RECEIVED" => i \in Backlog'
          <6> SUFFICES ASSUME NEW i \in Intents, intent'[i] = "RECEIVED"
                       PROVE  i \in Backlog'
            OBVIOUS
          <6>1. intent[i] = "RECEIVED" \/ SubmitIntent(i) \/ (RecoverWork /\ i \in Recoverable)
            BY IntentMoves
          <6>2. QED
            BY <2>1, <2>2, <5>1, <6>1
        <5>3. QED
          BY <5>2 DEF ReceivedWorkIsTracked, Backlog, Elems
      <4>3. QED
        BY <4>1, <4>2
    <3>3. QED
      BY <3>1, <3>2
  <2>5. QED
    BY <2>3, <2>4, IdleStep, DecidedStep, DeferredStep, LeftStep DEF TrackInv
<1>3. QED
  BY <1>1, <1>2

\* TrackInit: nothing is admitted at first.
LEMMA TrackInit == Init => TrackInv
  BY DEF Init, StoreInit, TrackInv, IdleHasNoIntent, BacklogAdmitted, DecidedIsSettled,
         DecidedLabel, NothingDeferred, NothingLeftToResume, ReceivedWorkIsTracked,
         Backlog, Elems, IdleWork, Procs

\* WorkIsTracked: an admitted intent that nothing was decided about is never left
\* behind (ReceivedWorkIsTracked), however often the process restarts and whatever is
\* deferred, as long as no resume request is dropped by the timeout layer.
THEOREM WorkIsTracked ==
  ASSUME ~RequestTimeouts
  PROVE  Spec => []ReceivedWorkIsTracked
<1>1. CoordInv /\ CoordInv' /\ GateInv /\ TrackInv /\ [Next]_vars => TrackInv'
  BY TrackStep
<1>2. TrackInv => ReceivedWorkIsTracked
  BY DEF TrackInv
<1>3. QED
  BY <1>1, <1>2, TrackInit, GateInvariant, PTL DEF Spec
=============================================================================
