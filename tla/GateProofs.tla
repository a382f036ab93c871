----------------------------- MODULE GateProofs -----------------------------
(***************************************************************************)
(* What the two gates of execution.rs protect.  GateInv says which task    *)
(* holds which gate at which label, and at which labels a task may be      *)
(* inside a cancellation or a reconciliation it called; the exclusion      *)
(* properties of the coordinator follow from it.  LatchInv adds what each  *)
(* task may still assume about the service state that it has read, from    *)
(* which it follows that only an operator releases a halt.                 *)
(***************************************************************************)
EXTENDS CoordinatorProofs

\* The labels of main from the start of the process to the end of startup.
StartupLabel ==
  {"s_read", "s_mark", "s_runs", "s_interrupted", "s_halt", "s_recover", "s_pending",
   "s_reconcile", "s_beat", "s_state", "s_ready", "enqueue", "release"}

\* Who holds safety_gate.
HoldsSafety ==
  /\ pc["worker"] \notin {"idle", "safety"} => safetyGate = "worker"
  /\ pc["control"] # "idle" => safetyGate = "control"
  /\ pc["main"] \in StartupLabel \cup {"d_mark"} => safetyGate = "main"

\* Who holds order_lifecycle_gate.
HoldsLifecycle ==
  /\ pc["worker"] \notin {"idle", "safety", "lifecycle"} => lifecycleGate = "worker"
  /\ pc["canceller"] = "release" => lifecycleGate = "canceller"
  /\ pc["main"] = "d_reconcile" => lifecycleGate = "main"

\* Where a task waits for a cancellation that it called.
CancelCalled ==
  /\ canc["worker"].at # "idle" => pc["worker"] \in {"reject", "reconcile"}
  /\ canc["control"].at # "idle" => pc["control"] = "h_cancelled"
  /\ canc["canceller"].at # "idle" => pc["canceller"] = "release"
  /\ canc["main"].at # "idle" =>
       pc["main"] \in {"s_pending", "s_reconcile", "s_state", "d_reconcile"}

\* Where a task waits for a reconciliation that it, or its cancellation, called.
ReconcileCalled ==
  /\ recon["worker"].at # "idle" =>
       canc["worker"].at # "idle" \/ pc["worker"] \in {"health", "release"}
  /\ recon["control"].at # "idle" =>
       canc["control"].at # "idle" \/ pc["control"] \in {"release", "h_done", "r_beat"}
  /\ recon["canceller"].at # "idle" => canc["canceller"].at # "idle"
  /\ recon["main"].at # "idle" =>
       canc["main"].at # "idle" \/ pc["main"] \in {"s_beat", "d_mark"}

\* GateInv: all four parts are needed together, since a routine runs under the gate
\* that its caller holds.
GateInv == HoldsSafety /\ HoldsLifecycle /\ CancelCalled /\ ReconcileCalled

\* ReconcileCalls: a step of the reconciliation routine leaves the gates and the
\* cancellations alone, and moves its caller only when it returns an error to it.
LEMMA ReconcileCalls ==
  ASSUME NEW p \in Procs, ReconcileStep(p)
  PROVE  /\ UNCHANGED <<safetyGate, lifecycleGate, canc>>
         /\ recon[p].at # "idle"
         /\ \E f : recon' = [recon EXCEPT ![p] = f]
         /\ \/ pc' = pc
            \/ /\ canc[p].at = "idle"
               /\ recon' = [recon EXCEPT ![p] = IdleRecon]
               /\ pc' = [pc EXCEPT ![p] = AfterError(pc[p])]
  BY DEF ReconcileStep, FetchOrders, ReadLocalOrders, ProjectOrder, ReadUnknowns,
         LookupUnknown, ResolveUnknown, FinishReconcile, ReconcileHalt, FailReconcile,
         VenueFailureHalt, ReconcileError, ReconcileReturn, InRecon, SetRecon, Goto,
         gates

\* CancelCalls: a step of the cancellation routine leaves the gates alone, and moves
\* its caller only when it returns an error to it; it may call a reconciliation.
LEMMA CancelCalls ==
  ASSUME NEW p \in Procs, CancelStep(p)
  PROVE  /\ UNCHANGED <<safetyGate, lifecycleGate>>
         /\ canc[p].at # "idle" /\ recon[p].at = "idle"
         /\ \/ /\ pc' = pc /\ UNCHANGED recon
               /\ \E f : canc' = [canc EXCEPT ![p] = f]
            \/ /\ pc' = pc
               /\ canc' = [canc EXCEPT ![p] = NextTarget(p)]
               /\ CallReconcile(p)
            \/ /\ canc' = [canc EXCEPT ![p] = IdleCancel]
               /\ pc' = [pc EXCEPT ![p] = AfterError(pc[p])]
               /\ UNCHANGED recon
  BY DEF CancelStep, CreateCancellation, ReadTarget, MarkTarget, CancelAtVenue,
         CommitCancelled, finish_cancellation, CancelError, InCancel, SetCancel, Goto,
         gates

\* ErrorKeepsHolding: the label an error leads to needs no gate the caller has not.
LEMMA ErrorKeepsHolding ==
  /\ \A l \in MainLabel : AfterError(l) \in {l, "exit"}
  /\ \A l \in ControlLabel : AfterError(l) \in {l, "release"} 
  /\ \A l \in ControlLabel : AfterError(l) # l => l = "r_beat"
  /\ \A l \in WorkerLabel \cup CancellerLabel : AfterError(l) = l
  BY DEF AfterError, MainLabel, WorkerLabel, ControlLabel, CancellerLabel

\* MainWaits: the other tasks leave main at its label; a routine that it called may
\* return an error to it, never while it serves.
LEMMA MainWaits ==
  ASSUME LabelsOK, [Next]_vars, ~StartupStep, ~ShutdownStep, ~Restart
  PROVE  /\ pc'["main"] \in {pc["main"], "exit"}
         /\ pc["main"] = "serving" => pc'["main"] = "serving"
<1>1. ASSUME NEW p \in Procs, ReconcileStep(p) \/ CancelStep(p)
      PROVE  /\ pc'["main"] \in {pc["main"], "exit"}
             /\ pc["main"] = "serving" => pc'["main"] = "serving"
  <2>1. pc' = pc \/ pc' = [pc EXCEPT ![p] = AfterError(pc[p])]
    BY <1>1, RoutineMoves
  <2>2. AfterError("serving") = "serving"
    BY DEF AfterError
  <2>3. QED
    BY <2>1, <2>2, ErrorKeepsHolding DEF LabelsOK, Procs
<1>2. CASE \/ WorkerStep \/ ControlJob \/ StartCancellation \/ EndCancellation
           \/ \E i \in Intents : SubmitIntent(i) \/ VenueStep(i)
           \/ CancelRequest \/ halt_idempotent \/ UNCHANGED vars
  <2>1. \/ pc' = pc
        \/ \E p \in {"worker", "control", "canceller"}, l \in Label :
             pc' = [pc EXCEPT ![p] = l]
    BY <1>2, WorkerMoves, ControlMoves
    DEF Moves, StartCancellation, EndCancellation, SubmitIntent, VenueStep,
        CancelRequest, halt_idempotent, vars, Goto, Label, ControlLabel
  <2>2. QED
    BY <2>1 DEF LabelsOK, Procs
<1>3. QED
  BY <1>1, <1>2 DEF Next

\* ControlWaits: the other tasks leave a control job at its label; the reconciliation
\* of a resume may return an error to it.
LEMMA ControlWaits ==
  ASSUME LabelsOK, [Next]_vars, ~ControlJob, ~Restart
  PROVE  \/ pc'["control"] = pc["control"]
         \/ pc["control"] = "r_beat" /\ pc'["control"] = "release"
<1>1. ASSUME NEW p \in Procs, ReconcileStep(p) \/ CancelStep(p)
      PROVE  \/ pc'["control"] = pc["control"]
             \/ pc["control"] = "r_beat" /\ pc'["control"] = "release"
  <2>1. pc' = pc \/ pc' = [pc EXCEPT ![p] = AfterError(pc[p])]
    BY <1>1, RoutineMoves
  <2>2. QED
    BY <2>1, ErrorKeepsHolding DEF LabelsOK, Procs
<1>2. CASE \/ WorkerStep \/ StartupStep \/ ShutdownStep
           \/ StartCancellation \/ EndCancellation
           \/ \E i \in Intents : SubmitIntent(i) \/ VenueStep(i)
           \/ CancelRequest \/ halt_idempotent \/ UNCHANGED vars
  <2>1. \/ pc' = pc
        \/ \E p \in {"worker", "main", "canceller"}, l \in Label :
             pc' = [pc EXCEPT ![p] = l]
    BY <1>2, WorkerMoves, MainMoves
    DEF Moves, StartCancellation, EndCancellation, SubmitIntent, VenueStep,
        CancelRequest, halt_idempotent, vars, Goto, Label, ControlLabel
  <2>2. QED
    BY <2>1 DEF LabelsOK, Procs
<1>3. QED
  BY <1>1, <1>2 DEF Next

\* RoutineHolds: the routines do not disturb the gates.
LEMMA RoutineHolds ==
  ASSUME LabelsOK, HoldsSafety, HoldsLifecycle, NEW p \in Procs,
         ReconcileStep(p) \/ CancelStep(p)
  PROVE  HoldsSafety' /\ HoldsLifecycle'
<1>1. /\ UNCHANGED <<safetyGate, lifecycleGate>>
      /\ pc' = pc \/ pc' = [pc EXCEPT ![p] = AfterError(pc[p])]
  BY ReconcileCalls, CancelCalls
<1>2. QED
  BY <1>1, ErrorKeepsHolding
  DEF LabelsOK, HoldsSafety, HoldsLifecycle, Procs, StartupLabel, MainLabel,
      ControlLabel

\* HoldsStep: a task at a label that needs a gate holds it.
LEMMA HoldsStep ==
  ASSUME LabelsOK, HoldsSafety, HoldsLifecycle, [Next]_vars
  PROVE  HoldsSafety' /\ HoldsLifecycle'
<1>0. pc \in [Procs -> Label]
  BY DEF LabelsOK
<1>1. CASE WorkerStep
  BY <1>0, <1>1
  DEF HoldsSafety, HoldsLifecycle, Procs, 
      WorkerStep, ReceiveIntent, LockSafety, LockLifecycle, PreIntentReconcile,
      CheckHealth, reject_received, BeginValidation, ValidateMarket,
      validate_freshness_and_increments, EvaluateRisk, BeginPreparation,
      PrepareOrder, BeginSubmission, SendToVenue, FinishSubmission, WorkerHalt,
      ReleaseWorker, WorkerAt, WorkerGoto, AfterVenueError, At, Goto, gates
<1>2. CASE ControlJob
  BY <1>0, <1>2
  DEF HoldsSafety, HoldsLifecycle, Procs, 
      ControlJob, StartReconcileJob, HeartbeatHalt, StartHaltJob, StartResume,
      CheckResume, CommitResume, Enqueue, EndJob, AbandonResume, At, Goto, gates
<1>3. CASE StartupStep
  BY <1>0, <1>3
  DEF HoldsSafety, HoldsLifecycle, Procs, StartupLabel,
      StartupStep, ReadPriorState, MarkStartup, fail_interrupted_reconciliations,
      RecoverInterrupted, HaltInterrupted, RecoverWork, RecoverCancellations,
      StartupReconcile, StartupHeartbeat, ReadStartupState, BecomeReady, Enqueue,
      EndStartup, MainAt, MainGoto, At, Goto, gates
<1>4. CASE ShutdownStep
  BY <1>0, <1>4
  DEF HoldsSafety, HoldsLifecycle, Procs, StartupLabel,
      ShutdownStep, BeginShutdown, ShutdownCancel, ShutdownReconcile,
      EndShutdown, MainAt, MainGoto, At, Goto, gates
<1>5. CASE StartCancellation \/ EndCancellation
  BY <1>0, <1>5
  DEF HoldsSafety, HoldsLifecycle, Procs, StartCancellation, EndCancellation, At, Goto
<1>6. CASE Restart
  BY <1>6 DEF HoldsSafety, HoldsLifecycle, Restart, FreshProcess, Procs
<1>7. CASE \/ \E i \in Intents : SubmitIntent(i) \/ VenueStep(i)
           \/ CancelRequest \/ halt_idempotent \/ UNCHANGED vars
  BY <1>7
  DEF HoldsSafety, HoldsLifecycle, SubmitIntent, VenueStep, CancelRequest,
      halt_idempotent, vars, gates
<1>8. QED
  BY RoutineHolds, <1>1, <1>2, <1>3, <1>4, <1>5, <1>6, <1>7 DEF Next

\* RoutineCalled: a routine that was called is left through its return.
LEMMA RoutineCalled ==
  ASSUME CoordInv, GateInv, NEW p \in Procs,
         ReconcileStep(p) \/ CancelStep(p)
  PROVE  CancelCalled' /\ ReconcileCalled'
<1>0. LabelsOK /\ recon \in [Procs -> ReconFrame] /\ canc \in [Procs -> CancelFrame]
  BY DEF CoordInv, ReconOK, CancelOK
<1>1. CASE ReconcileStep(p)
  BY <1>0, <1>1, ReconcileCalls, ErrorKeepsHolding, IdleReconFrame
  DEF GateInv, LabelsOK, CancelCalled, ReconcileCalled, Procs
<1>2. CASE CancelStep(p)
  <2>0. canc[p].at # "idle" /\ recon[p].at = "idle"
    BY <1>2, CancelCalls
  <2>1. CASE pc' = pc /\ UNCHANGED recon /\ \E f : canc' = [canc EXCEPT ![p] = f]
    BY <1>0, <2>0, <2>1 DEF GateInv, CancelCalled, ReconcileCalled, Procs
  <2>2. CASE /\ pc' = pc /\ canc' = [canc EXCEPT ![p] = NextTarget(p)]
             /\ CallReconcile(p)
    <3>1. NextTarget(p).at # "idle"
      BY NextTargetFrame DEF CoordInv
    <3>2. QED
      BY <1>0, <2>0, <2>2, <3>1
      DEF GateInv, CancelCalled, ReconcileCalled, CallReconcile, Procs
  <2>3. CASE /\ canc' = [canc EXCEPT ![p] = IdleCancel] /\ UNCHANGED recon
             /\ pc' = [pc EXCEPT ![p] = AfterError(pc[p])]
    BY <1>0, <2>0, <2>3, ErrorKeepsHolding, IdleCancelFrame
    DEF GateInv, LabelsOK, CancelCalled, ReconcileCalled, Procs
  <2>4. QED
    BY <1>2, <2>1, <2>2, <2>3, CancelCalls
<1>3. QED
  BY <1>1, <1>2

\* CalledStep: every call of a routine is made from a label that waits for it.
LEMMA CalledStep ==
  ASSUME CoordInv, GateInv, [Next]_vars
  PROVE  CancelCalled' /\ ReconcileCalled'
<1>0. /\ pc \in [Procs -> Label]
      /\ recon \in [Procs -> ReconFrame] /\ canc \in [Procs -> CancelFrame]
      /\ CancelCalled /\ ReconcileCalled
  BY DEF CoordInv, LabelsOK, ReconOK, CancelOK, GateInv
<1>1. CASE WorkerStep
  <2>1. /\ canc["worker"].at = "idle" /\ recon["worker"].at = "idle"
        /\ \/ UNCHANGED frames
           \/ /\ \E f : recon' = [recon EXCEPT !["worker"] = f]
              /\ UNCHANGED canc
              /\ \E l \in {"health", "release"} : pc' = [pc EXCEPT !["worker"] = l]
           \/ /\ \E f : canc' = [canc EXCEPT !["worker"] = f]
              /\ UNCHANGED recon
              /\ \E l \in {"reject", "reconcile"} : pc' = [pc EXCEPT !["worker"] = l]
    <3>1. CASE PreIntentReconcile \/ CheckHealth \/ WorkerHalt
      BY <3>1
      DEF PreIntentReconcile, CheckHealth, WorkerHalt, WorkerAt, WorkerGoto, At, Goto,
          halt_inner, CallReconcile, frames
    <3>2. CASE WorkerStep /\ ~(PreIntentReconcile \/ CheckHealth \/ WorkerHalt)
      BY <3>2
      DEF WorkerStep, ReceiveIntent, LockSafety, LockLifecycle, reject_received,
          BeginValidation, ValidateMarket, validate_freshness_and_increments,
          EvaluateRisk, BeginPreparation, PrepareOrder, BeginSubmission, SendToVenue,
          FinishSubmission, ReleaseWorker, WorkerAt, At
    <3>3. QED
      BY <1>1, <3>1, <3>2
  <2>2. \E l \in WorkerLabel : pc' = pc \/ pc' = [pc EXCEPT !["worker"] = l]
    BY <1>1, WorkerMoves DEF Moves, WorkerLabel
  <2>3. QED
    BY <1>0, <2>1, <2>2 DEF CancelCalled, ReconcileCalled, Procs, frames
<1>2. CASE ControlJob
  BY <1>0, <1>2, IdleReconFrame
  DEF CancelCalled, ReconcileCalled, Procs,
      ControlJob, StartReconcileJob, HeartbeatHalt, StartHaltJob, StartResume,
      CheckResume, CommitResume, Enqueue, EndJob, AbandonResume, SetCancel, SetRecon,
      CallReconcile, At, Goto, frames
<1>3. CASE StartupStep
  <2>1. /\ canc["main"].at = "idle" /\ recon["main"].at = "idle"
        /\ \/ UNCHANGED frames
           \/ /\ \E f : recon' = [recon EXCEPT !["main"] = f]
              /\ UNCHANGED canc
              /\ pc' = [pc EXCEPT !["main"] = "s_beat"]
           \/ /\ \E f : canc' = [canc EXCEPT !["main"] = f]
              /\ UNCHANGED recon
              /\ \/ pc["main"] = "s_pending" /\ pc' = pc
                 \/ \E l \in {"s_reconcile", "s_state"} : pc' = [pc EXCEPT !["main"] = l]
    <3>1. CASE RecoverCancellations \/ StartupReconcile \/ StartupHeartbeat
      BY <3>1
      DEF RecoverCancellations, StartupReconcile, StartupHeartbeat, MainAt, MainGoto, At,
          Goto, halt_inner, SetCancel, CallReconcile, frames
    <3>2. CASE StartupStep /\ ~(RecoverCancellations \/ StartupReconcile \/ StartupHeartbeat)
      BY <3>2
      DEF StartupStep, ReadPriorState, MarkStartup, fail_interrupted_reconciliations,
          RecoverInterrupted, HaltInterrupted, RecoverWork, ReadStartupState,
          BecomeReady, Enqueue, EndStartup, MainAt, At
    <3>3. QED
      BY <1>3, <3>1, <3>2
  <2>2. \E l \in MainLabel : pc' = pc \/ pc' = [pc EXCEPT !["main"] = l]
    BY <1>3, MainMoves DEF Moves, MainLabel
  <2>3. QED
    BY <1>0, <2>1, <2>2 DEF CancelCalled, ReconcileCalled, Procs, frames
<1>4. CASE ShutdownStep
  BY <1>0, <1>4
  DEF CancelCalled, ReconcileCalled, Procs,
      ShutdownStep, BeginShutdown, ShutdownCancel, ShutdownReconcile,
      EndShutdown, MainAt, MainGoto, At, Goto, SetCancel, CallReconcile, frames
<1>5. CASE StartCancellation \/ EndCancellation
  BY <1>0, <1>5
  DEF CancelCalled, ReconcileCalled, Procs, StartCancellation, EndCancellation,
      SetCancel, At, Goto, frames
<1>6. CASE Restart
  BY <1>6, IdleReconFrame, IdleCancelFrame
  DEF CancelCalled, ReconcileCalled, Restart, FreshProcess, Procs
<1>7. CASE \/ \E i \in Intents : SubmitIntent(i) \/ VenueStep(i)
           \/ CancelRequest \/ halt_idempotent \/ UNCHANGED vars
  BY <1>0, <1>7
  DEF CancelCalled, ReconcileCalled, SubmitIntent, VenueStep, CancelRequest,
      halt_idempotent, vars, frames
<1>8. QED
  BY RoutineCalled, <1>1, <1>2, <1>3, <1>4, <1>5, <1>6, <1>7 DEF Next

\* A process starts with main holding safety_gate.
LEMMA GateInit == Init => GateInv
  BY IdleReconFrame, IdleCancelFrame
  DEF Init, GateInv, HoldsSafety, HoldsLifecycle, CancelCalled, ReconcileCalled, Procs

\* GateInvariant: GateInv holds in every reachable state.
THEOREM GateInvariant == Spec => [](CoordInv /\ GateInv)
<1>1. CoordInv /\ GateInv /\ [Next]_vars => GateInv'
  BY HoldsStep, CalledStep DEF GateInv, CoordInv
<1>2. QED
  BY <1>1, GateInit, CoordinatorInvariant, PTL DEF Spec

\* WorkerAlone: a task that is past the lifecycle gate excludes every other
\* task from the routines: no other frame is open.
LEMMA WorkerAlone ==
  ASSUME CoordInv, GateInv, pc["worker"] \notin {"idle", "safety", "lifecycle"},
         NEW p \in Procs \ {"worker"}
  PROVE  canc[p].at = "idle" /\ recon[p].at = "idle"
  BY DEF CoordInv, LabelsOK, GateInv, HoldsSafety, HoldsLifecycle, CancelCalled,
         ReconcileCalled, Procs, StartupLabel, CancellerLabel

\* CancellationExcluded: while the worker submits an order no cancellation works on
\* it (CancelWaitsForSubmission): whoever runs one holds a gate that the worker holds.
THEOREM CancellationExcluded == Spec => []CancelWaitsForSubmission
<1>1. CoordInv /\ GateInv => CancelWaitsForSubmission
  <2> SUFFICES ASSUME CoordInv, GateInv, NEW p \in Procs,
                      pc["worker"] \in {"send", "finish"}
               PROVE  canc[p].at = "idle"
    BY DEF CancelWaitsForSubmission
  <2>1. CASE p = "worker"
    BY <2>1 DEF GateInv, CancelCalled
  <2>2. CASE p # "worker"
    BY <2>2, WorkerAlone
  <2>3. QED
    BY <2>1, <2>2
<1>2. QED
  BY <1>1, GateInvariant, PTL

-----------------------------------------------------------------------------
(* Only an operator releases a halt                                        *)

\* Nothing runs besides main: no cancellation waits, no routine is open elsewhere.
Calm ==
  /\ cancelTasks = {}
  /\ \A p \in Procs \ {"main"} : recon[p].at = "idle" /\ canc[p].at = "idle"

\* A halt that waits for an operator is in the control state.
LatchedIsHalted ==
  /\ latch \in {"none", "halted", "resuming"}
  /\ latch = "none" \/ control \in {"HALTED", "SHUTTING_DOWN"}

\* What startup read as the prior state is still the state when it is written.
PriorIsCurrent ==
  /\ pc["main"] \in {"s_read", "s_mark"} => Calm
  /\ pc["main"] = "s_mark" => boot.prior = control

\* Startup sets READY only where no halt is pending, and nobody halts meanwhile.
StartupIsCalm ==
  /\ pc["main"] \in (StartupLabel \ {"s_read", "s_mark"}) \cup {"serving"} =>
       control # "SHUTTING_DOWN"
  /\ pc["main"] \in StartupLabel /\ latch = "none" => Calm
  /\ pc["main"] = "s_ready" => latch = "none"

\* A halt after resume read the revision has changed the revision.
ResumeIsCurrent ==
  /\ readRevision <= revision
  /\ pc["control"] \in {"r_beat", "r_check", "r_commit"} =>
       /\ latch = "halted" => readRevision < revision
       /\ pc["main"] = "serving"

\* LatchInv: a pending halt is in the control state, and each other part guards one
\* of the writes that could lose it: that of startup after it read the prior state,
\* the READY at its end, and the one of resume.
LatchInv == LatchedIsHalted /\ PriorIsCurrent /\ StartupIsCalm /\ ResumeIsCurrent

\* Halts: a write of HALTED, which an operator has to release.
Halts == control' = "HALTED" /\ revision' = revision + 1 /\ latch' = "halted"

\* LatchMoves: the steps that write the service state or the latch.
LEMMA LatchMoves ==
  ASSUME [Next]_vars
  PROVE  \/ UNCHANGED <<control, revision, latch>> \/ Halts
         \/ MarkStartup \/ BecomeReady \/ BeginShutdown
         \/ StartResume \/ CommitResume \/ Restart
<1>1. ASSUME set_service_state("HALTED"), LatchHalt PROVE Halts
  BY <1>1 DEF set_service_state, LatchHalt, Halts
<1>2. ASSUME NEW p \in Procs, ReconcileStep(p)
      PROVE  UNCHANGED <<control, revision, latch>> \/ Halts
  <2>1. CASE ReconcileHalt(p) \/ VenueFailureHalt(p) \/ ReconcileError(p)
    BY <1>1, <2>1
    DEF ReconcileHalt, VenueFailureHalt, ReconcileError, storeVars, history
  <2>2. CASE ProjectOrder(p) \/ ResolveUnknown(p)
    BY <2>2
    DEF ProjectOrder, ResolveUnknown, reconcile_order_projection,
        resolve_unknown_submission, storeVars, controlVars, history
  <2>3. CASE \/ FetchOrders(p) \/ ReadLocalOrders(p) \/ ReadUnknowns(p)
             \/ LookupUnknown(p) \/ FinishReconcile(p) \/ FailReconcile(p)
    BY <2>3
    DEF FetchOrders, ReadLocalOrders, ReadUnknowns, LookupUnknown, FinishReconcile,
        FailReconcile, storeVars, history
  <2>4. QED
    BY <1>2, <2>1, <2>2, <2>3 DEF ReconcileStep
<1>3. ASSUME NEW p \in Procs, CancelStep(p)
      PROVE  UNCHANGED <<control, revision, latch>>
  BY <1>3
  DEF CancelStep, CreateCancellation, ReadTarget, MarkTarget, CancelAtVenue,
      CommitCancelled, finish_cancellation, CancelError, transition_order,
      cancel_prepared_order, storeVars, controlVars, history
<1>4. CASE WorkerStep
  <2>1. CASE CheckHealth \/ WorkerHalt
    BY <1>1, <2>1 DEF CheckHealth, WorkerHalt, halt_inner, storeVars, history
  <2>2. CASE FinishSubmission \/ PrepareOrder \/ EvaluateRisk \/ BeginSubmission
    BY <2>2
    DEF FinishSubmission, PrepareOrder, EvaluateRisk, BeginSubmission,
        finish_submission, create_prepared_order, reject_preparation, approve_risk,
        evaluate_and_reserve_risk, transition_intent, begin_submission, storeVars,
        controlVars, history
  <2>3. CASE ~(CheckHealth \/ WorkerHalt \/ FinishSubmission \/ PrepareOrder
               \/ EvaluateRisk \/ BeginSubmission)
    BY <1>4, <2>3
    DEF WorkerStep, ReceiveIntent, LockSafety, LockLifecycle, PreIntentReconcile,
        reject_received, BeginValidation, ValidateMarket,
        validate_freshness_and_increments, BeginPreparation, SendToVenue,
        ReleaseWorker, transition_intent, storeVars, controlVars, history
  <2>4. QED
    BY <2>1, <2>2, <2>3
<1>5. CASE ControlJob
  BY <1>1, <1>5
  DEF ControlJob, StartReconcileJob, HeartbeatHalt, StartHaltJob, CheckResume, Enqueue,
      EndJob, AbandonResume, storeVars, history
<1>6. CASE StartupStep \/ ShutdownStep
  BY <1>1, <1>6
  DEF StartupStep, ReadPriorState, fail_interrupted_reconciliations,
      RecoverInterrupted, HaltInterrupted, RecoverWork, RecoverCancellations,
      StartupReconcile, StartupHeartbeat, ReadStartupState, Enqueue, EndStartup,
      ShutdownStep, ShutdownCancel, ShutdownReconcile, EndShutdown,
      recover_interrupted_submissions, recover_pre_submission_work, halt_inner,
      storeVars, controlVars, history
<1>7. CASE \/ StartCancellation \/ EndCancellation \/ CancelRequest
           \/ UNCHANGED vars \/ halt_idempotent
           \/ \E i \in Intents : VenueStep(i) \/ SubmitIntent(i)
  BY <1>1, <1>7
  DEF StartCancellation, EndCancellation, CancelRequest, vars, VenueStep,
      halt_idempotent, SubmitIntent, admit_intent, storeVars, controlVars, history
<1>8. QED
  BY <1>2, <1>3, <1>4, <1>5, <1>6, <1>7 DEF Next

\* CalmStep: while main holds safety_gate for startup and nothing else runs, nothing
\* else starts; only main, or a reconciliation it has called, can halt the service.
LEMMA CalmStep ==
  ASSUME ~NeedsHeartbeat, CoordInv, GateInv, [Next]_vars, ~Restart,
         pc["main"] \in StartupLabel, Calm
  PROVE  /\ Calm' \/ latch' = "halted"
         /\ recon["main"].at = "idle" =>
              Calm' /\ (StartupStep \/ UNCHANGED <<control, revision, latch>>)
<1>0. /\ pc["worker"] \in {"idle", "safety"} /\ pc["control"] = "idle"
      /\ safetyGate = "main"
      /\ recon \in [Procs -> ReconFrame] /\ canc \in [Procs -> CancelFrame]
  BY DEF GateInv, HoldsSafety, CoordInv, ReconOK, CancelOK
<1>1. ASSUME NEW p \in Procs, ReconcileStep(p)
      PROVE  (Calm' \/ latch' = "halted") /\ p = "main" /\ recon["main"].at # "idle"
  <2>1. p = "main" /\ recon["main"].at # "idle"
    BY <1>1, ReconcileCalls DEF Calm
  <2>2. \A q \in Procs \ {"main"} : recon'[q] = recon[q] /\ canc' = canc
    BY <1>0, <1>1, <2>1, ReconcileCalls
  <2>3. cancelTasks' = cancelTasks \/ latch' = "halted"
    BY <1>1
    DEF ReconcileStep, FetchOrders, ReadLocalOrders, ProjectOrder, ReadUnknowns,
        LookupUnknown, ResolveUnknown, FinishReconcile, ReconcileHalt, FailReconcile,
        VenueFailureHalt, ReconcileError, LatchHalt, sched
  <2>4. QED
    BY <2>1, <2>2, <2>3 DEF Calm
<1>2. ASSUME NEW p \in Procs, CancelStep(p)
      PROVE  Calm' /\ UNCHANGED <<control, revision, latch>>
  <2>1. p = "main"
    BY <1>2, CancelCalls DEF Calm
  <2>2. \A q \in Procs \ {"main"} : recon'[q] = recon[q] /\ canc'[q] = canc[q]
    BY <1>0, <1>2, <2>1, CancelCalls DEF CallReconcile
  <2>3. cancelTasks' = cancelTasks /\ UNCHANGED <<control, revision, latch>>
    BY <1>2
    DEF CancelStep, CreateCancellation, ReadTarget, MarkTarget, CancelAtVenue,
        CommitCancelled, finish_cancellation, CancelError, transition_order,
        cancel_prepared_order, sched, storeVars, controlVars, history
  <2>4. QED
    BY <2>2, <2>3 DEF Calm
<1>3. CASE WorkerStep
  <2>1. ReceiveIntent
    BY <1>0, <1>3
    DEF WorkerStep, LockSafety, LockLifecycle, PreIntentReconcile, CheckHealth,
        reject_received, BeginValidation, ValidateMarket,
        validate_freshness_and_increments, EvaluateRisk, BeginPreparation,
        PrepareOrder, BeginSubmission, SendToVenue, FinishSubmission, WorkerHalt,
        ReleaseWorker, WorkerAt, At
  <2>2. QED
    BY <2>1 DEF ReceiveIntent, Calm, frames, storeVars, history
<1>4. ~ControlJob
  BY <1>0
  DEF ControlJob, StartReconcileJob, HeartbeatHalt, StartHaltJob, StartResume,
      CheckResume, CommitResume, Enqueue, EndJob, AbandonResume, At
<1>5. CASE StartupStep
  <2>1. UNCHANGED cancelTasks
    BY <1>5
    DEF StartupStep, ReadPriorState, MarkStartup, fail_interrupted_reconciliations,
        RecoverInterrupted, HaltInterrupted, RecoverWork, RecoverCancellations,
        StartupReconcile, StartupHeartbeat, ReadStartupState, BecomeReady, Enqueue,
        EndStartup, sched
  <2>2. \/ UNCHANGED recon \/ \E f : recon' = [recon EXCEPT !["main"] = f]
    BY <1>5
    DEF StartupStep, ReadPriorState, MarkStartup, fail_interrupted_reconciliations,
        RecoverInterrupted, HaltInterrupted, RecoverWork, RecoverCancellations,
        StartupReconcile, StartupHeartbeat, ReadStartupState, BecomeReady, Enqueue,
        EndStartup, SetCancel, CallReconcile, halt_inner, frames
  <2>3. \/ UNCHANGED canc \/ \E f : canc' = [canc EXCEPT !["main"] = f]
    BY <1>5
    DEF StartupStep, ReadPriorState, MarkStartup, fail_interrupted_reconciliations,
        RecoverInterrupted, HaltInterrupted, RecoverWork, RecoverCancellations,
        StartupReconcile, StartupHeartbeat, ReadStartupState, BecomeReady, Enqueue,
        EndStartup, SetCancel, CallReconcile, halt_inner, frames
  <2>4. QED
    BY <1>0, <1>5, <2>1, <2>2, <2>3 DEF Calm
<1>6. ~ShutdownStep
  BY DEF ShutdownStep, BeginShutdown, ShutdownCancel, ShutdownReconcile, EndShutdown,
         MainAt, At, StartupLabel
<1>7. /\ ~StartCancellation /\ ~CancelRequest /\ ~halt_idempotent
      /\ ~ \E i \in Intents : SubmitIntent(i)
  BY DEF StartCancellation, CancelRequest, halt_idempotent, SubmitIntent, MainAt, At,
         StartupLabel, Calm
<1>8. CASE EndCancellation \/ UNCHANGED vars \/ \E i \in Intents : VenueStep(i)
  BY <1>8 DEF EndCancellation, VenueStep, vars, Calm, frames, sched, storeVars, history
<1>9. QED
  BY <1>1, <1>2, <1>3, <1>4, <1>5, <1>6, <1>7, <1>8 DEF Next

\* LatchedStep: no write loses a halt that waits for an operator.
LEMMA LatchedStep ==
  ASSUME CoordInv, LatchInv, [Next]_vars
  PROVE  LatchedIsHalted'
<1>0. LatchedIsHalted
  BY DEF LatchInv
<1>1. CASE UNCHANGED <<control, revision, latch>> \/ Halts
  BY <1>0, <1>1 DEF LatchedIsHalted, Halts
<1>2. CASE MarkStartup
  <2>1. pc["main"] = "s_mark" /\ boot.prior = control
    BY <1>2 DEF MarkStartup, MainAt, At, LatchInv, PriorIsCurrent
  <2>2. QED
    BY <1>0, <1>2, <2>1
    DEF MarkStartup, set_service_state, LatchHalt, LatchedIsHalted, storeVars, history
<1>3. CASE BecomeReady
  BY <1>3
  DEF BecomeReady, MainAt, At, LatchInv, StartupIsCalm, LatchedIsHalted, history
<1>4. CASE BeginShutdown
  BY <1>0, <1>4 DEF BeginShutdown, set_service_state, LatchedIsHalted, history
<1>5. CASE StartResume
  BY <1>0, <1>5 DEF StartResume, LatchedIsHalted, storeVars
<1>6. CASE CommitResume
  <2>1. /\ pc["control"] = "r_commit" /\ readRevision \in Nat /\ revision \in Nat
        /\ latch = "halted" => readRevision < revision
    BY <1>6
    DEF CommitResume, At, LatchInv, ResumeIsCurrent, CoordInv, LocalsOK, StoreInv,
        StoreTypeOK
  <2>2. CASE set_service_state_if_unchanged("READY", readRevision)
    <3>1. revision = readRevision /\ latch # "halted" /\ revision' = revision + 1
      BY <2>1, <2>2 DEF set_service_state_if_unchanged, set_service_state
    <3>2. latch' = IF latch = "resuming" THEN "none" ELSE latch
      BY <1>6, <2>1, <3>1 DEF CommitResume, storeVars
    <3>3. QED
      BY <1>0, <3>1, <3>2 DEF LatchedIsHalted
  <2>3. CASE ~set_service_state_if_unchanged("READY", readRevision)
    BY <1>0, <1>6, <2>3 DEF CommitResume, LatchedIsHalted, storeVars
  <2>4. QED
    BY <2>2, <2>3
<1>7. CASE Restart
  BY <1>0, <1>7 DEF Restart, LatchedIsHalted, storeVars
<1>8. QED
  BY <1>1, <1>2, <1>3, <1>4, <1>5, <1>6, <1>7, LatchMoves

\* StartupOrder: the labels main may come from during startup.
LEMMA StartupOrder ==
  ASSUME LabelsOK, [Next]_vars, ~Restart
  PROVE  /\ pc'["main"] \in StartupLabel => pc["main"] \in StartupLabel
         /\ pc'["main"] = "s_read" => pc["main"] = "s_read" /\ ~StartupStep
         /\ pc'["main"] = "s_mark" => \/ ReadPriorState
                                      \/ pc["main"] = "s_mark" /\ ~StartupStep
         /\ pc'["main"] = "s_ready" => \/ ReadStartupState /\ control # "HALTED"
                                       \/ pc["main"] = "s_ready" /\ ~StartupStep
         /\ pc'["main"] = "serving" =>
              pc["main"] \in (StartupLabel \ {"s_read", "s_mark"}) \cup {"serving"}
         /\ pc'["main"] \in StartupLabel \ {"s_read", "s_mark"} =>
              pc["main"] \in StartupLabel \ {"s_read", "s_mark"} \/ MarkStartup
<1>0. pc \in [Procs -> Label]
  BY DEF LabelsOK
<1>1. CASE StartupStep
  BY <1>0, <1>1
  DEF StartupStep, ReadPriorState, MarkStartup, fail_interrupted_reconciliations,
      RecoverInterrupted, HaltInterrupted, RecoverWork, RecoverCancellations,
      StartupReconcile, StartupHeartbeat, ReadStartupState, BecomeReady, Enqueue,
      EndStartup, MainAt, MainGoto, At, Goto, StartupLabel, Procs
<1>2. CASE ShutdownStep /\ ~StartupStep
  BY <1>0, <1>2
  DEF ShutdownStep, BeginShutdown, ShutdownCancel, ShutdownReconcile, EndShutdown,
      MainAt, MainGoto, At, Goto, StartupLabel, Procs
<1>3. CASE ~StartupStep /\ ~ShutdownStep
  <2>1. pc'["main"] \in {pc["main"], "exit"}
    BY <1>3, MainWaits
  <2>2. QED
    BY <1>3, <2>1 DEF StartupLabel
<1>4. QED
  BY <1>1, <1>2, <1>3

\* StartsCalm: a fresh process runs nothing but main.
LEMMA StartsCalm ==
  ASSUME Restart
  PROVE  Calm' /\ pc'["main"] = "s_read" /\ pc'["control"] = "idle" /\ readRevision' = 0
  BY IdleReconFrame, IdleCancelFrame DEF Restart, FreshProcess, Calm, Procs

\* OnlyMainBoots: only main writes what it has read at startup.
LEMMA OnlyMainBoots ==
  ASSUME [Next]_vars, ~StartupStep, ~ShutdownStep, ~Restart
  PROVE  boot' = boot
<1>1. ASSUME NEW p \in Procs, ReconcileStep(p) \/ CancelStep(p) PROVE boot' = boot
  BY <1>1
  DEF ReconcileStep, FetchOrders, ReadLocalOrders, ProjectOrder, ReadUnknowns,
      LookupUnknown, ResolveUnknown, FinishReconcile, ReconcileHalt, FailReconcile,
      VenueFailureHalt, ReconcileError, CancelStep, CreateCancellation, ReadTarget,
      MarkTarget, CancelAtVenue, CommitCancelled, finish_cancellation, locals
<1>2. CASE WorkerStep
  BY <1>2
  DEF WorkerStep, ReceiveIntent, LockSafety, LockLifecycle, PreIntentReconcile,
      CheckHealth, reject_received, BeginValidation, ValidateMarket,
      validate_freshness_and_increments, EvaluateRisk, BeginPreparation,
      PrepareOrder, BeginSubmission, SendToVenue, FinishSubmission, WorkerHalt,
      ReleaseWorker, locals
<1>3. CASE ControlJob
  BY <1>3
  DEF ControlJob, StartReconcileJob, HeartbeatHalt, StartHaltJob, StartResume,
      CheckResume, CommitResume, Enqueue, EndJob, AbandonResume, locals
<1>4. CASE \/ StartCancellation \/ EndCancellation \/ CancelRequest \/ halt_idempotent
           \/ UNCHANGED vars \/ \E i \in Intents : SubmitIntent(i) \/ VenueStep(i)
  BY <1>4
  DEF StartCancellation, EndCancellation, CancelRequest, halt_idempotent, SubmitIntent,
      VenueStep, vars, locals
<1>5. QED
  BY <1>1, <1>2, <1>3, <1>4 DEF Next

\* OnlyResumeReads: only a resume reads the revision, and only control forgets it.
LEMMA OnlyResumeReads ==
  ASSUME [Next]_vars, ~StartResume, ~Restart
  PROVE  /\ readRevision' \in {readRevision, 0}
         /\ ~ControlJob => readRevision' = readRevision
<1>1. ASSUME NEW p \in Procs, ReconcileStep(p) \/ CancelStep(p)
      PROVE  readRevision' = readRevision
  BY <1>1
  DEF ReconcileStep, FetchOrders, ReadLocalOrders, ProjectOrder, ReadUnknowns,
      LookupUnknown, ResolveUnknown, FinishReconcile, ReconcileHalt, FailReconcile,
      VenueFailureHalt, ReconcileError, CancelStep, CreateCancellation, ReadTarget,
      MarkTarget, CancelAtVenue, CommitCancelled, finish_cancellation, locals
<1>2. CASE WorkerStep
  BY <1>2
  DEF WorkerStep, ReceiveIntent, LockSafety, LockLifecycle, PreIntentReconcile,
      CheckHealth, reject_received, BeginValidation, ValidateMarket,
      validate_freshness_and_increments, EvaluateRisk, BeginPreparation,
      PrepareOrder, BeginSubmission, SendToVenue, FinishSubmission, WorkerHalt,
      ReleaseWorker, locals
<1>3. CASE ControlJob
  BY <1>3
  DEF ControlJob, StartReconcileJob, HeartbeatHalt, StartHaltJob,
      CheckResume, CommitResume, Enqueue, EndJob, AbandonResume, locals
<1>4. CASE StartupStep \/ ShutdownStep
  BY <1>4
  DEF StartupStep, ReadPriorState, MarkStartup, fail_interrupted_reconciliations,
      RecoverInterrupted, HaltInterrupted, RecoverWork, RecoverCancellations,
      StartupReconcile, StartupHeartbeat, ReadStartupState, BecomeReady, Enqueue,
      EndStartup, ShutdownStep, BeginShutdown, ShutdownCancel, ShutdownReconcile,
      EndShutdown, locals
<1>5. CASE \/ StartCancellation \/ EndCancellation \/ CancelRequest \/ halt_idempotent
           \/ UNCHANGED vars \/ \E i \in Intents : SubmitIntent(i) \/ VenueStep(i)
  BY <1>5
  DEF StartCancellation, EndCancellation, CancelRequest, halt_idempotent, SubmitIntent,
      VenueStep, vars, locals
<1>6. QED
  BY <1>1, <1>2, <1>3, <1>4, <1>5 DEF Next

\* PriorStep: the state that startup has read is still the current one when startup
\* writes its own.
LEMMA PriorStep ==
  ASSUME ~NeedsHeartbeat, CoordInv, GateInv, LatchInv, [Next]_vars
  PROVE  PriorIsCurrent'
<1>0. LabelsOK /\ PriorIsCurrent /\ boot \in [prior : ServiceState, requests : SUBSET SUBSET Intents]
  BY DEF CoordInv, LocalsOK, LatchInv
<1>1. CASE Restart
  BY <1>1, StartsCalm DEF PriorIsCurrent
<1>2. CASE ~Restart
  <2> SUFFICES ASSUME pc'["main"] \in {"s_read", "s_mark"} PROVE PriorIsCurrent'
    BY DEF PriorIsCurrent
  <2>1. pc["main"] \in {"s_read", "s_mark"} /\ (ReadPriorState \/ ~StartupStep)
    BY <1>0, <1>2, StartupOrder DEF ReadPriorState, MainAt, At
  <2>2. pc["main"] \in StartupLabel /\ Calm /\ recon["main"].at = "idle"
    BY <1>0, <2>1 DEF PriorIsCurrent, StartupLabel, GateInv, ReconcileCalled, CancelCalled
  <2>3. Calm' /\ (StartupStep \/ UNCHANGED <<control, revision, latch>>)
    BY <1>2, <2>2, CalmStep
  <2>4. CASE ReadPriorState
    <3>1. boot' = [boot EXCEPT !.prior = control] /\ control' = control
      BY <2>4 DEF ReadPriorState, storeVars
    <3>2. QED
      BY <1>0, <2>3, <3>1 DEF PriorIsCurrent
  <2>5. CASE ~ReadPriorState
    <3>1. ~StartupStep /\ ~ShutdownStep /\ pc'["main"] = pc["main"]
      <4>1. ~StartupStep
        BY <2>1, <2>5
      <4>2. ~ShutdownStep
        BY <2>1
        DEF ShutdownStep, BeginShutdown, ShutdownCancel, ShutdownReconcile,
            EndShutdown, MainAt, At
      <4>3. QED
        BY <1>0, <1>2, <4>1, <4>2, MainWaits
    <3>2. boot' = boot
      BY <1>0, <1>2, <3>1, OnlyMainBoots
    <3>3. QED
      BY <1>0, <2>3, <3>1, <3>2 DEF PriorIsCurrent
  <2>6. QED
    BY <2>4, <2>5
<1>3. QED
  BY <1>1, <1>2

\* StartupCalmStep: as long as no halt is pending, startup is alone; a halt that comes
\* up in it is seen before READY is written.
LEMMA StartupCalmStep ==
  ASSUME ~NeedsHeartbeat, CoordInv, GateInv, LatchInv, LatchedIsHalted', [Next]_vars
  PROVE  StartupIsCalm'
<1>0. LabelsOK /\ StartupIsCalm /\ LatchedIsHalted /\ ResumeIsCurrent
  BY DEF CoordInv, LatchInv
<1>1. CASE Restart
  BY <1>1, StartsCalm DEF StartupIsCalm
<1>2. CASE ~Restart
  <2>1. pc'["main"] \in (StartupLabel \ {"s_read", "s_mark"}) \cup {"serving"} =>
          control' # "SHUTTING_DOWN"
    <3> SUFFICES ASSUME pc'["main"] \in (StartupLabel \ {"s_read", "s_mark"}) \cup {"serving"}
                 PROVE  control' # "SHUTTING_DOWN"
      OBVIOUS
    <3>1. CASE MarkStartup
      <4>1. boot.prior = control
        BY <3>1 DEF MarkStartup, MainAt, At, LatchInv, PriorIsCurrent
      <4>2. QED
        BY <3>1, <4>1 DEF MarkStartup, set_service_state, storeVars
    <3>2. CASE ~MarkStartup
      <4>1. pc["main"] \in (StartupLabel \ {"s_read", "s_mark"}) \cup {"serving"}
        BY <1>0, <1>2, <3>2, StartupOrder
      <4>2. control # "SHUTTING_DOWN"
        BY <1>0, <4>1 DEF StartupIsCalm
      <4>3. ~BeginShutdown
        BY <1>0
        DEF BeginShutdown, MainGoto, Goto, LabelsOK, Procs, StartupLabel
      <4>4. QED
        BY <1>2, <3>2, <4>2, <4>3, LatchMoves
        DEF Halts, BecomeReady, StartResume, CommitResume, set_service_state,
            set_service_state_if_unchanged, storeVars
    <3>3. QED
      BY <3>1, <3>2
  <2>2. pc'["main"] \in StartupLabel /\ latch' = "none" => Calm'
    <3> SUFFICES ASSUME pc'["main"] \in StartupLabel, latch' = "none" PROVE Calm'
      OBVIOUS
    <3>1. pc["main"] \in StartupLabel /\ pc["control"] = "idle"
      BY <1>0, <1>2, StartupOrder DEF GateInv, HoldsSafety
    <3>2. latch = "none"
      BY <1>0, <1>2, <3>1, LatchMoves
      DEF Halts, MarkStartup, BecomeReady, BeginShutdown, StartResume, CommitResume,
          LatchHalt, MainAt, At, StartupLabel, history
    <3>3. QED
      BY <1>0, <1>2, <3>1, <3>2, CalmStep DEF StartupIsCalm
  <2>3. pc'["main"] = "s_ready" => latch' = "none"
    <3> SUFFICES ASSUME pc'["main"] = "s_ready" PROVE latch' = "none"
      OBVIOUS
    <3>1. CASE ReadStartupState /\ control # "HALTED"
      <4>1. control # "SHUTTING_DOWN"
        BY <1>0, <3>1 DEF ReadStartupState, MainAt, At, StartupIsCalm, StartupLabel
      <4>2. latch = "none"
        BY <1>0, <3>1, <4>1 DEF LatchedIsHalted
      <4>3. QED
        BY <3>1, <4>2 DEF ReadStartupState, history
    <3>2. CASE pc["main"] = "s_ready" /\ ~StartupStep
      <4>1. latch = "none" /\ Calm /\ pc["main"] \in StartupLabel
        BY <1>0, <3>2 DEF StartupIsCalm, StartupLabel
      <4>2. recon["main"].at = "idle"
        BY <3>2 DEF GateInv, ReconcileCalled, CancelCalled
      <4>3. QED
        BY <1>2, <3>2, <4>1, <4>2, CalmStep
    <3>3. QED
      BY <1>0, <1>2, <3>1, <3>2, StartupOrder
  <2>4. QED
    BY <2>1, <2>2, <2>3 DEF StartupIsCalm
<1>3. QED
  BY <1>1, <1>2

\* ResumeWaits: a resume that has started goes on from the revision it read, and the
\* API serves until it has ended.
LEMMA ResumeWaits ==
  ASSUME LabelsOK, [Next]_vars, ~Restart, ~StartResume,
         pc'["control"] \in {"r_beat", "r_check", "r_commit"}
  PROVE  /\ pc["control"] \in {"r_beat", "r_check", "r_commit"}
         /\ readRevision' = readRevision
         /\ pc["main"] = "serving" => pc'["main"] = "serving"
<1>0. pc \in [Procs -> Label]
  BY DEF LabelsOK
<1>1. /\ pc["control"] \in {"r_beat", "r_check", "r_commit"}
      /\ readRevision' = readRevision
  <2>1. CASE ControlJob
    BY <1>0, <2>1
    DEF ControlJob, StartReconcileJob, HeartbeatHalt, StartHaltJob, CheckResume,
        CommitResume, Enqueue, EndJob, AbandonResume, At, Goto, Procs, locals
  <2>2. CASE ~ControlJob
    BY <1>0, <2>2, ControlWaits, OnlyResumeReads
  <2>3. QED
    BY <2>1, <2>2
<1>2. ASSUME pc["main"] = "serving" PROVE pc'["main"] = "serving"
  <2>1. ~StartupStep /\ ~ShutdownStep
    BY <1>1, <1>2
    DEF StartupStep, ReadPriorState, MarkStartup, fail_interrupted_reconciliations,
        RecoverInterrupted, HaltInterrupted, RecoverWork, RecoverCancellations,
        StartupReconcile, StartupHeartbeat, ReadStartupState, BecomeReady, Enqueue,
        EndStartup, ShutdownStep, BeginShutdown, ShutdownCancel, ShutdownReconcile,
        EndShutdown, MainAt, At
  <2>2. QED
    BY <1>0, <1>2, <2>1, MainWaits
<1>3. QED
  BY <1>1, <1>2

\* ResumeStep: a halt after the revision was read makes it an old one.
LEMMA ResumeStep ==
  ASSUME CoordInv, GateInv, LatchInv, [Next]_vars
  PROVE  ResumeIsCurrent'
<1>0. /\ LabelsOK /\ ResumeIsCurrent /\ pc \in [Procs -> Label]
      /\ readRevision \in Nat /\ revision \in Nat
  BY DEF CoordInv, LabelsOK, LocalsOK, LatchInv, StoreInv, StoreTypeOK
<1>1. CASE Restart
  <2>1. revision' = revision
    BY <1>1 DEF Restart, storeVars
  <2>2. QED
    BY <1>0, <1>1, <2>1, StartsCalm DEF ResumeIsCurrent
<1>2. CASE StartResume
  <2>1. /\ readRevision' = revision /\ revision' = revision /\ latch' = "resuming"
        /\ pc'["main"] = "serving"
    BY <1>0, <1>2 DEF StartResume, Goto, Procs, storeVars
  <2>2. QED
    BY <1>0, <2>1 DEF ResumeIsCurrent
<1>3. CASE ~Restart /\ ~StartResume
  <2>1. /\ revision' \in Nat /\ revision <= revision'
        /\ latch' = "halted" /\ latch # "halted" => revision < revision'
    BY <1>0, <1>3, LatchMoves
    DEF Halts, MarkStartup, BecomeReady, BeginShutdown, CommitResume, LatchHalt,
        set_service_state, set_service_state_if_unchanged, storeVars, history
  <2>2. readRevision' \in {readRevision, 0}
    BY <1>3, OnlyResumeReads
  <2>3. pc'["control"] \in {"r_beat", "r_check", "r_commit"} =>
          /\ pc["control"] \in {"r_beat", "r_check", "r_commit"}
          /\ readRevision' = readRevision
          /\ pc["main"] = "serving" => pc'["main"] = "serving"
    BY <1>0, <1>3, ResumeWaits
  <2>4. QED
    BY <1>0, <2>1, <2>2, <2>3 DEF ResumeIsCurrent
<1>4. QED
  BY <1>1, <1>2, <1>3

\* A process starts without a halt and with nothing running besides main.
LEMMA LatchInit == Init => LatchInv
  BY IdleReconFrame, IdleCancelFrame
  DEF Init, StoreInit, LatchInv, LatchedIsHalted, PriorIsCurrent, StartupIsCalm,
      ResumeIsCurrent, Calm, Procs

\* BeginsWhenReady: an order is submitted in a step that finds the service READY.
LEMMA BeginsWhenReady ==
  ASSUME StoreInv, [StoreNext]_storeVars, NEW i \in Intents, Begins(i)
  PROVE  control = "READY"
<1>0. order \in [Intents -> OrderState \cup {"ABSENT"}] /\ order[i] = "PREPARED"
      /\ order'[i] = "SUBMITTING"
  BY DEF StoreInv, StoreTypeOK, Begins
<1>1. CASE UNCHANGED storeVars \/ ControlStep
  BY <1>0, <1>1
  DEF ControlStep, set_service_state, set_service_state_if_unchanged, storeVars,
      journalVars
<1>2. ASSUME NEW j \in Intents, IntentStep(j) PROVE FALSE
  BY <1>0, <1>2
  DEF IntentStep, admit_intent, transition_intent, evaluate_and_reserve_risk,
      approve_risk, create_prepared_order, reject_preparation
<1>3. ASSUME NEW j \in Intents, OrderStep(j) PROVE control = "READY"
  <2>1. CASE begin_submission(j)
    BY <2>1 DEF begin_submission
  <2>2. CASE cancel_prepared_order(j) \/ (order[j] = "SUBMITTING" /\ SubmissionOutcome(j))
    BY <1>0, <2>2
    DEF cancel_prepared_order, SubmissionOutcome, finish_submission
  <2>3. ASSUME NEW e \in VenueEvidence,
               \/ order[j] = "UNKNOWN" /\ resolve_unknown_submission(j, e)
               \/ /\ order[j] \in ReconciledOrderState \cup TerminalOrderState
                  /\ reconcile_order_projection(j, e)
        PROVE  FALSE
    BY <1>0, <2>3
    DEF resolve_unknown_submission, reconcile_order_projection, ReconciledOrderState,
        TerminalOrderState
  <2>4. ASSUME NEW next \in {"CANCEL_PENDING", "FILLED", "CANCELLED", "EXPIRED"},
               transition_order(j, next)
        PROVE  FALSE
    BY <1>0, <2>4 DEF transition_order
  <2>5. QED
    BY <1>3, <2>1, <2>2, <2>3, <2>4 DEF OrderStep
<1>4. CASE RecoveryStep
  BY <1>0, <1>4
  DEF RecoveryStep, recover_interrupted_submissions, recover_pre_submission_work
<1>5. QED
  BY <1>1, <1>2, <1>3, <1>4 DEF StoreNext

\* HaltHolds: after any write of HALTED nothing is submitted until a resume that
\* started after that write has committed, across restarts (OperatorReleasesHalt),
\* with a venue that needs no heartbeat.
THEOREM HaltHolds ==
  ASSUME ~NeedsHeartbeat
  PROVE  Spec => OperatorReleasesHalt
<1>1. CoordInv /\ GateInv /\ LatchInv /\ [Next]_vars => LatchInv'
  BY LatchedStep, PriorStep, StartupCalmStep, ResumeStep DEF LatchInv
<1>2. CoordInv /\ LatchInv /\ [Next]_vars =>
        [\A i \in Intents : Begins(i) => latch = "none"]_vars
  <2> SUFFICES ASSUME CoordInv, LatchInv, [Next]_vars, NEW i \in Intents, Begins(i)
               PROVE  latch = "none"
    OBVIOUS
  <2>1. control = "READY"
    BY JournalStep, BeginsWhenReady DEF CoordInv
  <2>2. QED
    BY <2>1 DEF LatchInv, LatchedIsHalted
<1>3. QED
  BY <1>1, <1>2, LatchInit, GateInvariant, PTL DEF Spec, OperatorReleasesHalt
=============================================================================
