--------------------------- MODULE ReadinessProofs ---------------------------
(***************************************************************************)
(* When the service is READY.  READY is written in two places, at the end  *)
(* of startup and of a resume, and every write of HALTED is a transaction  *)
(* of its own, one or more steps after what it is for.  Shown here is that *)
(* nothing is submitted in between: not while the outcome of a submission  *)
(* is unknown (ProvenInv), and, where nothing is cancelled, not while a    *)
(* critical finding is unresolved (FindingInv).                            *)
(***************************************************************************)
EXTENDS SubmissionProofs

USE QtyAssumption, MaxRevisionAssumption, NoIntentAssumption

-----------------------------------------------------------------------------
(* Steps that make an outcome uncertain, and steps that end a routine      *)

\* UncertainArises: an order becomes SUBMITTING by begin_submission only, and UNKNOWN
\* by an ambiguous reply, after which the worker halts, or by the recovery at startup.
LEMMA UncertainArises ==
  ASSUME CoordInv, [Next]_vars, NEW i \in Intents
  PROVE  /\ order'[i] = "SUBMITTING" =>
              \/ order[i] = "SUBMITTING"
              \/ /\ BeginSubmission /\ i = work.intent
                 /\ pc'["worker"] = "send" /\ work' = work
         /\ order'[i] = "UNKNOWN" =>
              \/ order[i] = "UNKNOWN" \/ RecoverInterrupted
              \/ FinishSubmission /\ pc'["worker"] = "halt"
<1>0. /\ order \in [Intents -> OrderState \cup {"ABSENT"}]
      /\ pc \in [Procs -> Label]
  BY DEF CoordInv, StoreInv, StoreTypeOK, LabelsOK
<1> DEFINE Same == order'[i] \in {"SUBMITTING", "UNKNOWN"} => order'[i] = order[i]
<1>1. ASSUME NEW p \in Procs, ReconcileStep(p) PROVE Same
  <2>1. \/ UNCHANGED order
        \/ \E k, e : reconcile_order_projection(k, e) \/ resolve_unknown_submission(k, e)
    BY <1>1
    DEF ReconcileStep, FetchOrders, ReadLocalOrders, ProjectOrder, ReadUnknowns,
        LookupUnknown, ResolveUnknown, FinishReconcile, ReconcileHalt, FailReconcile,
        VenueFailureHalt, ReconcileError, set_service_state, storeVars, journalVars
  <2>2. ASSUME NEW k, NEW e,
               reconcile_order_projection(k, e) \/ resolve_unknown_submission(k, e)
        PROVE  Same
    <3>1. \E s : /\ order' = [order EXCEPT ![k] = s]
                 /\ s \notin {"SUBMITTING", "UNKNOWN"}
      BY <2>2
      DEF reconcile_order_projection, resolve_unknown_submission,
          validate_venue_order_evidence
    <3>2. QED
      BY <1>0, <3>1
  <2>3. QED
    BY <2>1, <2>2
<1>2. ASSUME NEW p \in Procs, CancelStep(p) PROVE Same
  <2>1. \/ UNCHANGED order
        \/ \E k : \/ transition_order(k, "CANCEL_PENDING")
                  \/ transition_order(k, "CANCELLED") \/ cancel_prepared_order(k)
    BY <1>2
    DEF CancelStep, CreateCancellation, ReadTarget, MarkTarget, CancelAtVenue,
        CommitCancelled, finish_cancellation, CancelError, storeVars
  <2>2. QED
    BY <1>0, <2>1 DEF transition_order, cancel_prepared_order
<1>3. CASE BeginSubmission
  <2>1. \/ UNCHANGED order
        \/ /\ order' = [order EXCEPT ![work.intent] = "SUBMITTING"]
           /\ pc' = [pc EXCEPT !["worker"] = "send"]
    BY <1>3 DEF BeginSubmission, begin_submission, WorkerGoto, Goto, storeVars
  <2>2. work' = work
    BY <1>3 DEF BeginSubmission, locals
  <2>3. QED
    BY <1>0, <1>3, <2>1, <2>2 DEF Procs
<1>4. CASE FinishSubmission
  <2>1. \/ UNCHANGED order
        \/ \E s \in Accepted \cup {"REJECTED"} :
             order' = [order EXCEPT ![work.intent] = s]
        \/ /\ order' = [order EXCEPT ![work.intent] = "UNKNOWN"]
           /\ pc' = [pc EXCEPT !["worker"] = "halt"]
    BY <1>4 DEF FinishSubmission, finish_submission, WorkerGoto, Goto, storeVars
  <2>2. QED
    BY <1>0, <1>4, <2>1 DEF Procs, Accepted
<1>5. CASE WorkerStep /\ ~BeginSubmission /\ ~FinishSubmission
  <2>1. CASE PrepareOrder
    BY <1>0, <2>1
    DEF PrepareOrder, create_prepared_order, reject_preparation
  <2>2. CASE ~PrepareOrder
    BY <1>5, <2>2
    DEF WorkerStep, ReceiveIntent, LockSafety, LockLifecycle, PreIntentReconcile,
        CheckHealth, reject_received, BeginValidation, ValidateMarket,
        validate_freshness_and_increments, EvaluateRisk, BeginPreparation,
        SendToVenue, WorkerHalt, ReleaseWorker, halt_inner, set_service_state,
        transition_intent, evaluate_and_reserve_risk, approve_risk, storeVars,
        journalVars
  <2>3. QED
    BY <2>1, <2>2
<1>6. CASE ControlJob
  BY <1>6
  DEF ControlJob, StartReconcileJob, HeartbeatHalt, StartHaltJob, StartResume,
      CheckResume, CommitResume, Enqueue, EndJob, AbandonResume, set_service_state,
      set_service_state_if_unchanged, storeVars, journalVars
<1>7. CASE RecoverInterrupted
  BY <1>7 DEF RecoverInterrupted, recover_interrupted_submissions
<1>8. CASE (StartupStep \/ ShutdownStep) /\ ~RecoverInterrupted
  BY <1>8
  DEF StartupStep, ReadPriorState, MarkStartup, fail_interrupted_reconciliations,
      HaltInterrupted, RecoverWork, RecoverCancellations, StartupReconcile,
      StartupHeartbeat, ReadStartupState, BecomeReady, Enqueue, EndStartup,
      ShutdownStep, BeginShutdown, ShutdownCancel, ShutdownReconcile, EndShutdown,
      halt_inner, set_service_state, recover_pre_submission_work, storeVars, journalVars
<1>9. CASE \/ StartCancellation \/ EndCancellation \/ CancelRequest \/ Restart
           \/ UNCHANGED vars \/ halt_idempotent
           \/ \E j \in Intents : VenueStep(j) \/ SubmitIntent(j)
  BY <1>9
  DEF StartCancellation, EndCancellation, CancelRequest, Restart, vars, VenueStep,
      halt_idempotent, SubmitIntent, admit_intent, set_service_state, storeVars,
      journalVars
<1>10. QED
  BY <1>1, <1>2, <1>3, <1>4, <1>5, <1>6, <1>7, <1>8, <1>9 DEF Next

\* FrameKept: an open reconciliation is changed by its own steps, by a restart and by
\* the timeout of the resume that called it.
LEMMA FrameKept ==
  ASSUME CoordInv, [Next]_vars, NEW p \in Procs, recon[p].at # "idle"
  PROVE  \/ recon'[p] = recon[p] \/ ReconcileStep(p) \/ Restart
         \/ AbandonResume /\ p = "control"
<1>0. recon \in [Procs -> ReconFrame]
  BY DEF CoordInv, ReconOK
<1>1. ASSUME NEW q \in Procs \ {p}, ReconcileStep(q) PROVE recon'[p] = recon[p]
  <2>1. \E f : recon' = [recon EXCEPT ![q] = f]
    BY <1>1, ReconcileCalls
  <2>2. QED
    BY <1>0, <1>1, <2>1
<1>2. ASSUME NEW q \in Procs, CancelStep(q) PROVE recon'[p] = recon[p]
  <2>1. /\ recon[q].at = "idle"
        /\ recon' = recon \/ CallReconcile(q)
    BY <1>2
    DEF CancelStep, CreateCancellation, ReadTarget, MarkTarget, CancelAtVenue,
        CommitCancelled, finish_cancellation, CancelError, SetCancel, InCancel
  <2>2. QED
    BY <1>0, <2>1 DEF CallReconcile
<1>3. CASE WorkerStep
  <2>1. recon["worker"].at = "idle" /\ (recon' = recon \/ CallReconcile("worker"))
    BY <1>3
    DEF WorkerStep, ReceiveIntent, LockSafety, LockLifecycle, PreIntentReconcile,
        CheckHealth, reject_received, BeginValidation, ValidateMarket,
        validate_freshness_and_increments, EvaluateRisk, BeginPreparation,
        PrepareOrder, BeginSubmission, SendToVenue, FinishSubmission, WorkerHalt,
        ReleaseWorker, halt_inner, frames, WorkerAt, At
  <2>2. QED
    BY <1>0, <2>1 DEF CallReconcile
<1>4. CASE AbandonResume
  BY <1>0, <1>4 DEF AbandonResume, SetRecon
<1>5. CASE ControlJob /\ ~AbandonResume
  <2>1. \/ recon' = recon
        \/ recon["control"].at = "idle" /\ CallReconcile("control")
    BY <1>5
    DEF ControlJob, StartReconcileJob, HeartbeatHalt, StartHaltJob, StartResume,
        CheckResume, CommitResume, Enqueue, EndJob, SetCancel, frames, At
  <2>2. QED
    BY <1>0, <2>1 DEF CallReconcile
<1>6. CASE StartupStep \/ ShutdownStep
  <2>1. recon' = recon \/ (recon["main"].at = "idle" /\ CallReconcile("main"))
    BY <1>6
    DEF StartupStep, ReadPriorState, MarkStartup, fail_interrupted_reconciliations,
        RecoverInterrupted, HaltInterrupted, RecoverWork, RecoverCancellations,
        StartupReconcile, StartupHeartbeat, ReadStartupState, BecomeReady, Enqueue,
        EndStartup, ShutdownStep, BeginShutdown, ShutdownCancel, ShutdownReconcile,
        EndShutdown, SetCancel, halt_inner, frames, MainAt, At
  <2>2. QED
    BY <1>0, <2>1 DEF CallReconcile
<1>7. CASE \/ StartCancellation \/ EndCancellation
           \/ \E i \in Intents : SubmitIntent(i) \/ VenueStep(i)
           \/ CancelRequest \/ halt_idempotent \/ UNCHANGED vars
  BY <1>7
  DEF StartCancellation, EndCancellation, SetCancel, SubmitIntent, VenueStep,
      CancelRequest, halt_idempotent, vars, frames
<1>8. QED
  BY <1>1, <1>2, <1>3, <1>4, <1>5, <1>6, <1>7 DEF Next

-----------------------------------------------------------------------------
(* Nothing is submitted while an outcome is not known                      *)

\* Every submission has a known outcome, or is still under way.
Resolved == \A i \in Intents : order[i] # "UNKNOWN"

\* The labels of startup between its first write of the service state and READY.
UnreadyLabel == StartupLabel \ {"s_read", "s_mark", "enqueue", "release"}

\* The labels of resume up to its write of READY.
ResumeLabel == {"r_beat", "r_check", "r_commit"}

\* Until startup is done the service is not READY, and it does not undo a halt that
\* it has read.
StartupUnready ==
  /\ pc["main"] \in UnreadyLabel => control # "READY"
  /\ pc["main"] = "s_mark" /\ boot.prior = "HALTED" => control = "HALTED"

\* A resume runs with the service halted and the API open; it compares a revision
\* that it has read.
ResumeHalted ==
  /\ readRevision <= revision
  /\ pc["control"] \in ResumeLabel => control = "HALTED" /\ pc["main"] = "serving"

\* A submission that has begun is in the hands of the worker, or of the startup that
\* will recover it.
SendsOwned ==
  \A i \in Intents : order[i] = "SUBMITTING" =>
    \/ pc["worker"] \in {"send", "finish"} /\ work.intent = i
    \/ pc["main"] \in {"s_read", "s_mark", "s_runs", "s_interrupted"}

\* Every reply leads to an outcome.
ReplyKnown == pc["worker"] = "finish" => work.reply \in Accepted \cup {"rejected", "ambiguous"}

\* A reconciliation without findings still has every unknown submission to look up.
LookupsCover ==
  \A p \in {"main", "control"}, i \in Intents :
    order[i] = "UNKNOWN" /\ ~recon[p].bad =>
      /\ recon[p].at = "lookup" => i \in recon[p].todo
      /\ recon[p].at = "resolve" => i \in recon[p].todo \/ i = recon[p].cur

\* The service is not READY with an unknown submission, unless the worker is about
\* to halt it or startup is about to take it out of READY.
UnknownStops ==
  control = "READY" =>
    Resolved \/ pc["worker"] = "halt" \/ pc["main"] \in {"s_read", "s_mark"}

\* A resume whose reconciliation is over has every submission resolved, or compares a
\* revision that is gone.
ResumeProven ==
  \/ pc["control"] \in {"r_check", "r_commit"}
  \/ pc["control"] = "r_beat" /\ recon["control"].at = "idle"
  => Resolved \/ readRevision < revision

\* A startup whose reconciliation is over has every submission resolved, or stays
\* halted.
StartupProven ==
  /\ \/ pc["main"] = "s_beat" /\ recon["main"].at = "idle"
     \/ pc["main"] = "s_state"
     => Resolved \/ control = "HALTED"
  /\ pc["main"] = "s_ready" => Resolved

\* ProvenInv: where an uncertain submission is known to be, and why neither of the two
\* writes of READY can happen while there is one.
ProvenInv ==
  /\ StartupUnready /\ ResumeHalted /\ SendsOwned /\ ReplyKnown /\ LookupsCover
  /\ UnknownStops /\ ResumeProven /\ StartupProven

\* ReadyArises: only startup and a resume write READY; every other step leaves the
\* service state alone, halts it, or takes it out of service.
LEMMA ReadyArises ==
  ASSUME CoordInv, [Next]_vars
  PROVE  /\ control' = "READY" => control = "READY" \/ BecomeReady \/ CommitResume
         /\ control = "HALTED" =>
              \/ control' = "HALTED" \/ MarkStartup \/ BecomeReady \/ BeginShutdown
              \/ CommitResume
         /\ revision \in Nat /\ revision' \in Nat /\ revision <= revision'
<1>0. revision \in Nat
  BY DEF CoordInv, StoreInv, StoreTypeOK
<1>1. CASE UNCHANGED <<control, revision, latch>> \/ Halts
  BY <1>0, <1>1 DEF Halts
<1>2. CASE MarkStartup \/ BecomeReady \/ BeginShutdown \/ CommitResume
  BY <1>0, <1>2
  DEF MarkStartup, BecomeReady, BeginShutdown, CommitResume, set_service_state,
      set_service_state_if_unchanged, storeVars
<1>3. CASE StartResume \/ Restart
  BY <1>0, <1>3 DEF StartResume, Restart, storeVars
<1>4. QED
  BY <1>1, <1>2, <1>3, LatchMoves

\* EarlyStartup: the order of the first steps of startup; no other task moves main.
LEMMA EarlyStartup ==
  ASSUME LabelsOK, [Next]_vars, ~Restart
  PROVE  /\ pc["main"] = "s_read" => pc'["main"] = "s_read" \/ ReadPriorState
         /\ pc["main"] = "s_mark" =>
              \/ pc'["main"] = "s_mark" /\ boot' = boot /\ ~MarkStartup
              \/ MarkStartup /\ pc'["main"] = "s_runs"
         /\ pc["main"] = "s_runs" => pc'["main"] \in {"s_runs", "s_interrupted"}
         /\ pc["main"] = "s_interrupted" =>
              pc'["main"] = "s_interrupted" \/ RecoverInterrupted
         /\ pc'["main"] = "s_mark" => ReadPriorState \/ pc["main"] = "s_mark"
         /\ pc'["main"] \in UnreadyLabel => pc["main"] \in UnreadyLabel \cup {"s_mark"}
         /\ pc["main"] = "serving" => ~StartupStep
         /\ pc["main"] \in StartupLabel => ~ShutdownStep
<1>0. pc \in [Procs -> Label]
  BY DEF LabelsOK
<1>1. CASE StartupStep
  BY <1>0, <1>1
  DEF StartupStep, ReadPriorState, MarkStartup, fail_interrupted_reconciliations,
      RecoverInterrupted, HaltInterrupted, RecoverWork, RecoverCancellations,
      StartupReconcile, StartupHeartbeat, ReadStartupState, BecomeReady, Enqueue,
      EndStartup, MainAt, MainGoto, At, Goto, Procs, UnreadyLabel, StartupLabel,
      ShutdownStep, BeginShutdown, ShutdownCancel, ShutdownReconcile, EndShutdown
<1>2. CASE ShutdownStep
  BY <1>0, <1>2
  DEF ShutdownStep, BeginShutdown, ShutdownCancel, ShutdownReconcile, EndShutdown,
      MainAt, MainGoto, At, Goto, Procs, UnreadyLabel, StartupLabel,
      StartupStep, ReadPriorState, MarkStartup, fail_interrupted_reconciliations,
      RecoverInterrupted, HaltInterrupted, RecoverWork, RecoverCancellations,
      StartupReconcile, StartupHeartbeat, ReadStartupState, BecomeReady, Enqueue,
      EndStartup
<1>3. CASE ~StartupStep /\ ~ShutdownStep
  <2>1. pc'["main"] \in {pc["main"], "exit"} /\ boot' = boot
    BY <1>3, MainWaits, OnlyMainBoots
  <2>2. pc["main"] \in {"s_read", "s_mark", "s_runs", "s_interrupted"} =>
          pc'["main"] = pc["main"]
    <3>1. ASSUME NEW p \in Procs, ReconcileStep(p) \/ CancelStep(p)
          PROVE  pc' = pc \/ pc' = [pc EXCEPT ![p] = AfterError(pc[p])]
      BY <3>1, RoutineMoves
    <3>2. CASE \/ WorkerStep \/ ControlJob \/ StartCancellation \/ EndCancellation
               \/ \E i \in Intents : SubmitIntent(i) \/ VenueStep(i)
               \/ CancelRequest \/ halt_idempotent \/ UNCHANGED vars
      <4>1. \/ pc' = pc
            \/ \E p \in {"worker", "control", "canceller"}, l \in Label :
                 pc' = [pc EXCEPT ![p] = l]
        BY <3>2, WorkerMoves, ControlMoves
        DEF Moves, StartCancellation, EndCancellation, SubmitIntent, VenueStep,
            CancelRequest, halt_idempotent, vars, Goto, Label, ControlLabel
      <4>2. QED
        BY <1>0, <4>1 DEF Procs
    <3>3. QED
      BY <1>0, <1>3, <3>1, <3>2 DEF AfterError, Next, Procs
  <2>3. ~MarkStartup
    BY <1>3 DEF StartupStep
  <2>4. "exit" \notin UnreadyLabel
    BY DEF UnreadyLabel, StartupLabel
  <2>5. QED
    BY <1>3, <2>1, <2>2, <2>3, <2>4
<1>4. QED
  BY <1>1, <1>2, <1>3

\* StartupUnreadyStep: a resume, which could write READY, would need safety_gate.
LEMMA StartupUnreadyStep ==
  ASSUME CoordInv, GateInv, StartupUnready, [Next]_vars
  PROVE  StartupUnready'
<1>0. LabelsOK /\ pc \in [Procs -> Label] /\ boot.prior \in ServiceState
  BY DEF CoordInv, LabelsOK, LocalsOK
<1>1. CASE Restart
  BY <1>1, StartsCalm DEF StartupUnready, UnreadyLabel
<1>2. CASE ~Restart
  <2>1. ~(CommitResume /\ pc["main"] \in StartupLabel)
    BY DEF CommitResume, At, GateInv, HoldsSafety
  <2>2. BecomeReady => pc'["main"] = "enqueue"
    BY <1>0 DEF BecomeReady, MainGoto, Goto, Procs
  <2>3. ASSUME MarkStartup PROVE control' # "READY"
    BY <2>3
    DEF MarkStartup, MainAt, At, set_service_state, storeVars, StartupUnready
  <2>4. ASSUME pc'["main"] \in UnreadyLabel PROVE control' # "READY"
    BY <1>0, <1>2, <2>1, <2>2, <2>3, <2>4, EarlyStartup, ReadyArises
    DEF StartupUnready, UnreadyLabel, StartupLabel
  <2>5. ASSUME pc'["main"] = "s_mark", boot'.prior = "HALTED"
        PROVE  control' = "HALTED"
    <3>1. CASE ReadPriorState
      <4>1. control' = control /\ boot' = [boot EXCEPT !.prior = control]
        BY <3>1 DEF ReadPriorState, storeVars
      <4>2. QED
        BY <1>0, <2>5, <4>1 DEF CoordInv, LocalsOK
    <3>2. CASE pc["main"] = "s_mark"
      <4>1. boot' = boot /\ ~MarkStartup
        BY <1>0, <1>2, <2>5, <3>2, EarlyStartup
      <4>2. ~BecomeReady /\ ~BeginShutdown
        BY <3>2 DEF BecomeReady, BeginShutdown, MainAt, At
      <4>3. QED
        BY <2>1, <2>5, <3>2, <4>1, <4>2, ReadyArises DEF StartupUnready, StartupLabel
    <3>3. QED
      BY <1>0, <1>2, <2>5, <3>1, <3>2, EarlyStartup
  <2>6. QED
    BY <2>4, <2>5 DEF StartupUnready
<1>3. QED
  BY <1>1, <1>2

\* ResumeHaltedStep: whatever else runs while a resume does can only halt again.
LEMMA ResumeHaltedStep ==
  ASSUME CoordInv, ResumeHalted, [Next]_vars
  PROVE  ResumeHalted'
<1>0. /\ LabelsOK /\ pc \in [Procs -> Label] /\ readRevision \in Nat
      /\ revision \in Nat /\ revision' \in Nat /\ revision <= revision'
  BY ReadyArises DEF CoordInv, LabelsOK, LocalsOK
<1>1. CASE Restart
  BY <1>0, <1>1, StartsCalm DEF ResumeHalted, ResumeLabel
<1>2. CASE StartResume
  <2>1. /\ readRevision' = revision /\ revision' = revision /\ control' = "HALTED"
        /\ pc'["main"] = "serving"
    BY <1>0, <1>2 DEF StartResume, Goto, Procs, storeVars
  <2>2. QED
    BY <1>0, <2>1 DEF ResumeHalted
<1>3. CASE ~Restart /\ ~StartResume
  <2>1. readRevision' <= revision'
    <3>1. readRevision' \in {readRevision, 0}
      BY <1>3, OnlyResumeReads
    <3>2. QED
      BY <1>0, <3>1 DEF ResumeHalted
  <2>2. ASSUME pc'["control"] \in ResumeLabel
        PROVE  control' = "HALTED" /\ pc'["main"] = "serving"
    <3>1. /\ pc["control"] \in ResumeLabel /\ control = "HALTED"
          /\ pc["main"] = "serving" /\ pc'["main"] = "serving"
      BY <1>0, <1>3, <2>2, ResumeWaits DEF ResumeHalted, ResumeLabel
    <3>2. ~MarkStartup /\ ~BecomeReady /\ ~BeginShutdown
      BY <3>1
      DEF MarkStartup, BecomeReady, BeginShutdown, MainAt, At, ResumeLabel
    <3>3. ~CommitResume
      BY <1>0, <2>2 DEF CommitResume, Goto, Procs, ResumeLabel
    <3>4. QED
      BY <3>1, <3>2, <3>3, ReadyArises
  <2>3. QED
    BY <2>1, <2>2 DEF ResumeHalted
<1>4. QED
  BY <1>1, <1>2, <1>3

\* WorkerSends: between begin_submission and the outcome the worker sends, then
\* finishes, and keeps its intent meanwhile.
LEMMA WorkerSends ==
  ASSUME CoordInv, [Next]_vars, ~Restart, pc["worker"] \in {"send", "finish"}
  PROVE  \/ pc'["worker"] = pc["worker"] /\ work' = work
         \/ SendToVenue /\ pc'["worker"] = "finish" /\ work'.intent = work.intent
         \/ FinishSubmission
<1>0. LabelsOK /\ pc \in [Procs -> Label]
  BY DEF CoordInv, LabelsOK
<1>1. CASE WorkerStep
  <2>1. SendToVenue \/ FinishSubmission
    BY <1>1
    DEF WorkerStep, ReceiveIntent, LockSafety, LockLifecycle, PreIntentReconcile,
        CheckHealth, reject_received, BeginValidation, ValidateMarket,
        validate_freshness_and_increments, EvaluateRisk, BeginPreparation,
        PrepareOrder, BeginSubmission, WorkerHalt, ReleaseWorker, WorkerAt, At
  <2>2. SendToVenue => pc'["worker"] = "finish"
    BY <1>0 DEF SendToVenue, WorkerGoto, Goto, Procs
  <2>3. QED
    BY <2>1, <2>2, IntentKept
<1>2. CASE ~WorkerStep
  BY <1>0, <1>2, OnlyWorkerWorks
<1>3. QED
  BY <1>1, <1>2

\* ReplyKnownStep: with well-formed replies every reply is one the worker handles.
LEMMA ReplyKnownStep ==
  ASSUME ~MalformedReplies, CoordInv, ReplyKnown, [Next]_vars
  PROVE  ReplyKnown'
<1>0. /\ LabelsOK /\ pc \in [Procs -> Label]
      /\ work \in [intent : Intents \cup {NoIntent}, reply : ReplyKind, filled : 0..Qty]
  BY DEF CoordInv, LabelsOK, LocalsOK
<1> SUFFICES ASSUME pc'["worker"] = "finish"
             PROVE  work'.reply \in Accepted \cup {"rejected", "ambiguous"}
  BY DEF ReplyKnown
<1>1. ~Restart
  BY DEF Restart, FreshProcess, Procs
<1>2. CASE SendToVenue
  <2>1. \/ \E m \in 0..Qty, s \in Accepted :
             work' = [work EXCEPT !.reply = s, !.filled = m]
        \/ work' = [work EXCEPT !.reply = "rejected", !.filled = 0]
        \/ work' = [work EXCEPT !.reply = "ambiguous", !.filled = 0]
    BY <1>2 DEF SendToVenue
  <2>2. QED
    BY <1>0, <2>1
<1>3. CASE WorkerStep /\ ~SendToVenue
  <2>1. \E l \in WorkerLabel \ {"finish"} : pc' = [pc EXCEPT !["worker"] = l]
    BY <1>3
    DEF WorkerStep, ReceiveIntent, LockSafety, LockLifecycle, PreIntentReconcile,
        CheckHealth, reject_received, BeginValidation, ValidateMarket,
        validate_freshness_and_increments, EvaluateRisk, BeginPreparation,
        PrepareOrder, BeginSubmission, FinishSubmission, WorkerHalt, ReleaseWorker,
        WorkerGoto, AfterVenueError, Goto, WorkerLabel
  <2>2. QED
    BY <1>0, <2>1 DEF Procs
<1>4. CASE ~WorkerStep
  BY <1>0, <1>1, <1>4, OnlyWorkerWorks DEF ReplyKnown
<1>5. QED
  BY <1>2, <1>3, <1>4

\* SendsOwnedStep: an outcome always takes the order out of SUBMITTING, and a startup
\* recovers what a crash has left in it.
LEMMA SendsOwnedStep ==
  ASSUME CoordInv, SendsOwned, ReplyKnown, [Next]_vars
  PROVE  SendsOwned'
<1>0. LabelsOK /\ order \in [Intents -> OrderState \cup {"ABSENT"}]
  BY DEF CoordInv, StoreInv, StoreTypeOK
<1> DEFINE Early == {"s_read", "s_mark", "s_runs", "s_interrupted"}
<1> SUFFICES ASSUME NEW i \in Intents, order'[i] = "SUBMITTING"
             PROVE  \/ pc'["worker"] \in {"send", "finish"} /\ work'.intent = i
                    \/ pc'["main"] \in Early
  BY DEF SendsOwned
<1>1. CASE Restart
  BY <1>1, StartsCalm
<1>2. CASE BeginSubmission /\ i = work.intent /\ pc'["worker"] = "send" /\ work' = work
  BY <1>2
<1>3. CASE ~Restart /\ order[i] = "SUBMITTING" /\ pc["worker"] \in {"send", "finish"}
           /\ work.intent = i
  <2>1. ~FinishSubmission
    <3>1. ASSUME FinishSubmission
          PROVE  \E s \in Accepted \cup {"REJECTED", "UNKNOWN"} :
                   order' = [order EXCEPT ![work.intent] = s]
      BY <3>1
      DEF FinishSubmission, finish_submission, ReplyKnown, WorkerAt, At, Accepted
    <3>2. QED
      BY <1>0, <1>3, <3>1 DEF Accepted
  <2>2. QED
    BY <1>3, <2>1, WorkerSends
<1>4. CASE ~Restart /\ order[i] = "SUBMITTING" /\ pc["main"] \in Early
  <2>1. ~RecoverInterrupted
    <3>1. i \in Interrupted
      BY <1>4 DEF Interrupted
    <3>2. QED
      BY <3>1 DEF RecoverInterrupted, recover_interrupted_submissions
  <2>2. ReadPriorState => pc'["main"] = "s_mark"
    BY <1>0 DEF ReadPriorState, MainGoto, Goto, LabelsOK, Procs
  <2>3. QED
    BY <1>0, <1>4, <2>1, <2>2, EarlyStartup
<1>5. QED
  BY <1>1, <1>2, <1>3, <1>4, UncertainArises DEF SendsOwned

\* FrameMoves: the order of the steps of a reconciliation, and what the steps that
\* look up unknown submissions still have to do.
LEMMA FrameMoves ==
  ASSUME CoordInv, NEW p \in Procs, ReconcileStep(p)
  PROVE  \/ recon[p].at = "orders" /\ recon'[p].at \in {"read", "fail"}
         \/ recon[p].at = "read" /\ recon'[p].at = "project"
         \/ recon[p].at = "project" /\ recon'[p].at \in {"project", "error"}
         \/ /\ recon[p].at = "project" /\ recon'[p].at = "lookup"
            /\ recon'[p].todo = {j \in Intents : order[j] = "UNKNOWN"}
            /\ UNCHANGED order
         \/ /\ recon[p].at = "lookup" /\ recon'[p].at = "resolve"
            /\ recon'[p].todo = recon[p].todo \ {recon'[p].cur}
            /\ recon'[p].bad = recon[p].bad /\ UNCHANGED order
         \/ recon[p].at = "lookup" /\ recon'[p].at = "lookup" /\ recon'[p].bad
         \/ recon[p].at \in {"lookup", "resolve"} /\ recon'[p].at = "error"
         \/ /\ recon[p].at = "resolve" /\ recon'[p].at = "lookup"
            /\ recon'[p].todo = recon[p].todo /\ recon'[p].bad = recon[p].bad
            /\ resolve_unknown_submission(recon[p].cur, recon[p].found)
         \/ FinishReconcile(p) /\ recon'[p].at = "halt" /\ critical'
         \/ FinishReconcile(p) /\ recon'[p].at = "idle" /\ ~recon[p].bad /\ ~critical'
         \/ ReconcileHalt(p) /\ recon'[p].at = "idle"
         \/ FailReconcile(p) /\ recon'[p].at \in {"failHalt", "errorHalt"}
         \/ VenueFailureHalt(p) /\ recon'[p].at = "errorHalt"
         \/ ReconcileError(p) /\ recon'[p].at = "idle"
<1>0. recon \in [Procs -> ReconFrame] /\ recon[p] \in ReconFrame
  BY DEF CoordInv, ReconOK
<1>1. \A f : recon' = [recon EXCEPT ![p] = f] => recon'[p] = f
  BY <1>0
<1>2. CASE FetchOrders(p)
  <2>1. \/ recon' = [recon EXCEPT ![p] = [recon[p] EXCEPT !.at = "fail"]]
        \/ \E bad \in BOOLEAN :
             recon' = [recon EXCEPT ![p] =
               [recon[p] EXCEPT !.at = "read", !.open = OpenAtVenue, !.bad = bad]]
    BY <1>2 DEF FetchOrders, SetRecon, VenueFindings
  <2>2. \/ recon'[p] = [recon[p] EXCEPT !.at = "fail"]
        \/ \E bad \in BOOLEAN : recon'[p] =
             [recon[p] EXCEPT !.at = "read", !.open = OpenAtVenue, !.bad = bad]
    BY <1>1, <2>1
  <2>3. recon'[p].at \in {"read", "fail"}
    BY <1>0, <2>2 DEF ReconFrame
  <2>4. QED
    BY <1>2, <2>3 DEF FetchOrders, InRecon
<1>3. CASE ReadLocalOrders(p)
  <2>1. \E b : recon' = [recon EXCEPT ![p] = [recon[p] EXCEPT
          !.at = "project", !.trades = TradesAtVenue, !.todo = reconciliation_orders,
          !.bad = b]]
    BY <1>3 DEF ReadLocalOrders, SetRecon
  <2>2. recon'[p].at = "project"
    BY <1>0, <1>1, <2>1 DEF ReconFrame
  <2>3. QED
    BY <1>3, <2>2 DEF ReadLocalOrders, InRecon
<1>4. CASE ProjectOrder(p)
  <2>1. PICK k :
          /\ recon[p].at = "project"
          /\ LET rest == [recon[p] EXCEPT !.todo = @ \ {k}] IN
             \/ recon' = [recon EXCEPT ![p] = rest]
             \/ recon' = [recon EXCEPT ![p] = [rest EXCEPT !.bad = TRUE]]
             \/ recon' = [recon EXCEPT ![p] = [rest EXCEPT !.at = "error", !.todo = {}]]
    BY <1>4 DEF ProjectOrder, SetRecon, InRecon
  <2> DEFINE rest == [recon[p] EXCEPT !.todo = @ \ {k}]
  <2>2. /\ rest.at = "project" /\ [rest EXCEPT !.bad = TRUE].at = "project"
        /\ [rest EXCEPT !.at = "error", !.todo = {}].at = "error"
    BY <1>0, <2>1 DEF ReconFrame
  <2>3. QED
    BY <1>1, <2>1, <2>2
<1>5. CASE ReadUnknowns(p)
  <2> DEFINE U == {j \in Intents : order[j] = "UNKNOWN"}
             f == [recon[p] EXCEPT !.at = "lookup", !.todo = U]
  <2>1. /\ recon[p].at = "project" /\ recon' = [recon EXCEPT ![p] = f]
        /\ UNCHANGED order
    BY <1>5 DEF ReadUnknowns, SetRecon, InRecon, storeVars, journalVars
  <2> HIDE DEF U
  <2>2. f.at = "lookup" /\ f.todo = U
    BY <1>0 DEF ReconFrame
  <2> HIDE DEF f
  <2>3. QED
    BY <1>1, <2>1, <2>2 DEF U
<1>6. CASE LookupUnknown(p)
  <2>1. PICK k \in recon[p].todo :
          /\ recon[p].at = "lookup" /\ UNCHANGED order
          /\ LET rest == [recon[p] EXCEPT !.todo = @ \ {k}] IN
             \/ recon' = [recon EXCEPT ![p] =
                  [rest EXCEPT !.at = "resolve", !.cur = k, !.found = find_order(k)]]
             \/ recon' = [recon EXCEPT ![p] = [rest EXCEPT !.bad = TRUE]]
             \/ recon' = [recon EXCEPT ![p] = [rest EXCEPT !.at = "error", !.todo = {}]]
    BY <1>6 DEF LookupUnknown, SetRecon, InRecon, storeVars, journalVars
  <2> DEFINE e == find_order(k)
             rest == [recon[p] EXCEPT !.todo = @ \ {k}]
             f == [rest EXCEPT !.at = "resolve", !.cur = k, !.found = e]
             g == [rest EXCEPT !.bad = TRUE]
             h == [rest EXCEPT !.at = "error", !.todo = {}]
  <2>2. recon'[p] = f \/ recon'[p] = g \/ recon'[p] = h
    BY <1>1, <2>1
  <2> HIDE DEF e
  <2>3. /\ f.at = "resolve" /\ f.cur = k /\ f.todo = recon[p].todo \ {k}
        /\ f.bad = recon[p].bad
        /\ g.at = "lookup" /\ g.bad /\ h.at = "error"
    BY <1>0, <2>1 DEF ReconFrame
  <2> HIDE DEF f, g, h
  <2>4. QED
    BY <2>1, <2>2, <2>3
<1>7. CASE ResolveUnknown(p)
  <2> DEFINE idle == [recon[p] EXCEPT !.cur = NoIntent, !.found = NoEvidence]
             f == [idle EXCEPT !.at = "lookup"]
             h == [idle EXCEPT !.at = "error", !.todo = {}]
  <2>1. /\ recon[p].at = "resolve"
        /\ \/ /\ recon' = [recon EXCEPT ![p] = f]
              /\ resolve_unknown_submission(recon[p].cur, recon[p].found)
           \/ recon' = [recon EXCEPT ![p] = h]
    BY <1>7 DEF ResolveUnknown, SetRecon, InRecon
  <2>2. /\ f.at = "lookup" /\ f.todo = recon[p].todo /\ f.bad = recon[p].bad
        /\ h.at = "error"
    BY <1>0 DEF ReconFrame
  <2> HIDE DEF f, h
  <2>3. QED
    BY <1>1, <2>1, <2>2
<1>8. CASE FinishReconcile(p)
  <2>1. CASE recon[p].bad \/ UnlinkedTrades(p) # {}
    <3>1. recon' = [recon EXCEPT ![p] = [IdleRecon EXCEPT !.at = "halt"]] /\ critical'
      BY <1>8, <2>1 DEF FinishReconcile, SetRecon
    <3>2. QED
      BY <1>1, <1>8, <3>1, IdleReconFrame DEF ReconLabel
  <2>2. CASE ~(recon[p].bad \/ UnlinkedTrades(p) # {})
    <3>1. recon' = [recon EXCEPT ![p] = IdleRecon] /\ ~recon[p].bad /\ ~critical'
      BY <1>8, <2>2 DEF FinishReconcile, ReconcileReturn, SetRecon
    <3>2. QED
      BY <1>1, <1>8, <3>1, IdleReconFrame
  <2>3. QED
    BY <2>1, <2>2
<1>9. CASE \/ ReconcileHalt(p) \/ FailReconcile(p) \/ VenueFailureHalt(p)
           \/ ReconcileError(p)
  <2>1. /\ ReconcileHalt(p) \/ ReconcileError(p) => recon' = [recon EXCEPT ![p] = IdleRecon]
        /\ FailReconcile(p) =>
             \/ recon' = [recon EXCEPT ![p] = [IdleRecon EXCEPT !.at = "failHalt"]]
             \/ recon' = [recon EXCEPT ![p] = [IdleRecon EXCEPT !.at = "errorHalt"]]
        /\ VenueFailureHalt(p) =>
             recon' = [recon EXCEPT ![p] = [IdleRecon EXCEPT !.at = "errorHalt"]]
    BY DEF ReconcileHalt, FailReconcile, VenueFailureHalt, ReconcileError,
           ReconcileReturn, SetRecon
  <2>2. QED
    BY <1>1, <1>9, <2>1, IdleReconFrame DEF ReconLabel
<1>10. QED
  BY <1>2, <1>3, <1>4, <1>5, <1>6, <1>7, <1>8, <1>9 DEF ReconcileStep

\* LookupsCoverStep: no submission becomes unknown while a reconciliation of main or
\* of a control job is open, and each that was is resolved or a finding.
LEMMA LookupsCoverStep ==
  ASSUME CoordInv, GateInv, LookupsCover, [Next]_vars
  PROVE  LookupsCover'
<1>0. /\ recon \in [Procs -> ReconFrame] /\ LabelsOK
      /\ order \in [Intents -> OrderState \cup {"ABSENT"}]
  BY DEF CoordInv, ReconOK, StoreInv, StoreTypeOK
<1> SUFFICES ASSUME NEW p \in {"main", "control"}, NEW i \in Intents,
                    order'[i] = "UNKNOWN", ~recon'[p].bad,
                    recon'[p].at \in {"lookup", "resolve"}
             PROVE  \/ i \in recon'[p].todo
                    \/ recon'[p].at = "resolve" /\ i = recon'[p].cur
  BY DEF LookupsCover
<1>1. p \in Procs
  BY DEF Procs
<1>2. ASSUME recon[p].at # "idle" PROVE order[i] = "UNKNOWN"
  <2>1. ~RecoverInterrupted
    BY <1>2
    DEF RecoverInterrupted, MainAt, At, GateInv, HoldsSafety, CancelCalled,
        ReconcileCalled, StartupLabel
  <2>2. ~FinishSubmission
    BY <1>1, <1>2, WorkerAlone DEF FinishSubmission, WorkerAt, At
  <2>3. QED
    BY <2>1, <2>2, UncertainArises
<1>3. CASE recon[p].at # "idle" /\ recon'[p] = recon[p]
  BY <1>2, <1>3 DEF LookupsCover
<1>4. CASE ReconcileStep(p)
  <2>1. order[i] = "UNKNOWN"
    BY <1>1, <1>2, <1>4, ReconcileCalls
  <2>2. ~recon[p].bad => /\ recon[p].at = "lookup" => i \in recon[p].todo
                         /\ recon[p].at = "resolve" =>
                              i \in recon[p].todo \/ i = recon[p].cur
    BY <2>1 DEF LookupsCover
  <2>3. ~resolve_unknown_submission(i, recon[p].found)
    BY <1>0 DEF resolve_unknown_submission, validate_venue_order_evidence
  <2>4. QED
    BY <1>1, <1>4, <2>1, <2>2, <2>3, FrameMoves
<1>5. ASSUME NEW q \in Procs,
             CallReconcile(q) \/ recon' = [recon EXCEPT ![q] = IdleRecon]
      PROVE  recon'[p] = recon[p]
  BY <1>0, <1>1, <1>5, IdleReconFrame DEF CallReconcile, ReconLabel
<1>6. ASSUME NEW q \in Procs \ {p}, ReconcileStep(q) PROVE recon'[p] = recon[p]
  <2>1. \E f : recon' = [recon EXCEPT ![q] = f]
    BY <1>6, ReconcileCalls
  <2>2. QED
    BY <1>0, <1>1, <1>6, <2>1
<1>7. ~Restart
  BY <1>1, IdleReconFrame DEF Restart, FreshProcess
<1>8. recon'[p] = recon[p] \/ ReconcileStep(p)
  BY <1>1, <1>5, <1>6, <1>7, ReconCallers
<1>9. QED
  BY <1>3, <1>4, <1>8

\* ReconcileEnds: a reconciliation that main or a resume waits for returns without an
\* error only if it has looked everything up without a finding, or has halted.
LEMMA ReconcileEnds ==
  ASSUME CoordInv, [Next]_vars, ~Restart, NEW p \in {"main", "control"},
         recon[p].at # "idle", recon'[p].at = "idle", canc[p].at = "idle",
         pc[p] \in {"s_beat", "r_beat"}, pc'[p] = pc[p]
  PROVE  \/ /\ FinishReconcile(p) /\ recon[p].at = "lookup"
            /\ recon[p].todo = {} /\ ~recon[p].bad /\ ~critical'
         \/ ReconcileHalt(p)
<1>0. p \in Procs /\ pc \in [Procs -> Label]
  BY DEF CoordInv, Procs, LabelsOK
<1>1. ~(AbandonResume /\ p = "control")
  BY <1>0 DEF AbandonResume, Goto, Procs
<1>2. ReconcileStep(p)
  BY <1>0, <1>1, FrameKept
<1>3. ~ReconcileError(p)
  <2>1. ReconcileError(p) => pc' = [pc EXCEPT ![p] = AfterError(pc[p])]
    BY DEF ReconcileError, ReconcileReturn, Goto
  <2>2. QED
    BY <1>0, <2>1 DEF AfterError
<1>4. FinishReconcile(p) => recon[p].at = "lookup" /\ recon[p].todo = {}
  BY DEF FinishReconcile, InRecon
<1>5. QED
  BY <1>0, <1>2, <1>3, <1>4, FrameMoves

\* ResolvedStays: an outcome becomes unknown only where the worker sends, or startup
\* finds an interrupted submission.
LEMMA ResolvedStays ==
  ASSUME CoordInv, GateInv, Resolved, [Next]_vars,
         \/ pc["main"] \in StartupLabel \ {"s_interrupted"}
         \/ pc["control"] # "idle" /\ pc["main"] = "serving"
  PROVE  Resolved'
<1>1. ~FinishSubmission
  BY DEF FinishSubmission, WorkerAt, At, GateInv, HoldsSafety
<1>2. ~RecoverInterrupted
  BY DEF RecoverInterrupted, MainAt, At
<1>3. QED
  BY <1>1, <1>2, UncertainArises DEF Resolved

\* LookedUp: a reconciliation that has looked everything up without a finding leaves
\* no submission unknown.
LEMMA LookedUp ==
  ASSUME LookupsCover, NEW p \in {"main", "control"}, FinishReconcile(p),
         recon[p].at = "lookup", recon[p].todo = {}, ~recon[p].bad
  PROVE  Resolved'
<1>1. order' = order
  BY DEF FinishReconcile, storeVars, journalVars
<1>2. QED
  BY <1>1 DEF LookupsCover, Resolved

\* ResumeProvenStep: a resume waits for its own reconciliation, and a halt by it, or by
\* anyone else, changes the revision that the resume compares.
LEMMA ResumeProvenStep ==
  ASSUME CoordInv, GateInv, ResumeHalted, LookupsCover, ResumeProven, [Next]_vars
  PROVE  ResumeProven'
<1>0. /\ LabelsOK /\ pc \in [Procs -> Label] /\ recon \in [Procs -> ReconFrame]
      /\ readRevision \in Nat /\ revision \in Nat /\ revision' \in Nat
      /\ revision <= revision'
  BY ReadyArises DEF CoordInv, LabelsOK, LocalsOK, ReconOK
<1> SUFFICES ASSUME \/ pc'["control"] \in {"r_check", "r_commit"}
                    \/ pc'["control"] = "r_beat" /\ recon'["control"].at = "idle"
             PROVE  Resolved' \/ readRevision' < revision'
  BY DEF ResumeProven
<1>1. ~Restart
  BY StartsCalm
<1>2. ~StartResume
  <2>1. StartResume => /\ pc'["control"] = "r_beat"
                       /\ recon' = [recon EXCEPT !["control"] = [IdleRecon EXCEPT !.at = "orders"]]
    BY <1>0 DEF StartResume, Goto, CallReconcile, Procs
  <2>2. QED
    BY <1>0, <2>1, IdleReconFrame DEF Procs, ReconLabel
<1>3. /\ pc["control"] \in ResumeLabel /\ readRevision' = readRevision
      /\ pc["main"] = "serving" /\ pc["control"] # "idle"
  BY <1>0, <1>1, <1>2, ResumeWaits DEF ResumeHalted, ResumeLabel
<1>4. CASE \/ pc["control"] \in {"r_check", "r_commit"}
           \/ pc["control"] = "r_beat" /\ recon["control"].at = "idle"
  <2>1. Resolved \/ readRevision < revision
    BY <1>4 DEF ResumeProven
  <2>2. Resolved => Resolved'
    BY <1>3, ResolvedStays
  <2>3. QED
    BY <1>0, <1>3, <2>1, <2>2
<1>5. CASE pc["control"] = "r_beat" /\ recon["control"].at # "idle"
  <2>1. canc["control"].at = "idle"
    BY <1>5 DEF GateInv, CancelCalled
  <2>2. pc'["control"] = "r_beat"
    <3>1. CASE ControlJob
      BY <1>0, <1>2, <1>5, <3>1
      DEF ControlJob, StartReconcileJob, HeartbeatHalt, StartHaltJob, CheckResume,
          CommitResume, Enqueue, EndJob, AbandonResume, At, Goto, Procs
    <3>2. CASE ~ControlJob
      BY <1>0, <1>1, <1>5, <3>2, ControlWaits
    <3>3. QED
      BY <3>1, <3>2
  <2>3. CASE ReconcileHalt("control")
    <3>1. revision' = revision + 1
      BY <2>3 DEF ReconcileHalt, set_service_state
    <3>2. QED
      BY <1>0, <1>3, <3>1 DEF ResumeHalted
  <2>4. QED
    BY <1>1, <1>5, <2>1, <2>2, <2>3, ReconcileEnds, LookedUp
<1>6. QED
  BY <1>3, <1>4, <1>5 DEF ResumeLabel

\* LateStartup: the order of the last steps of startup.
LEMMA LateStartup ==
  ASSUME LabelsOK, [Next]_vars, ~Restart
  PROVE  /\ pc'["main"] = "s_beat" => pc["main"] = "s_beat" \/ StartupReconcile
         /\ pc'["main"] = "s_state" => pc["main"] = "s_state" \/ StartupHeartbeat
<1>0. pc \in [Procs -> Label]
  BY DEF LabelsOK
<1>1. CASE StartupStep
  BY <1>0, <1>1
  DEF StartupStep, ReadPriorState, MarkStartup, fail_interrupted_reconciliations,
      RecoverInterrupted, HaltInterrupted, RecoverWork, RecoverCancellations,
      StartupReconcile, StartupHeartbeat, ReadStartupState, BecomeReady, Enqueue,
      EndStartup, MainAt, MainGoto, At, Goto, Procs
<1>2. CASE ShutdownStep
  BY <1>0, <1>2
  DEF ShutdownStep, BeginShutdown, ShutdownCancel, ShutdownReconcile, EndShutdown,
      MainAt, MainGoto, At, Goto, Procs
<1>3. CASE ~StartupStep /\ ~ShutdownStep
  BY <1>3, MainWaits
<1>4. QED
  BY <1>1, <1>2, <1>3

\* HaltedStays: while startup runs, a halt is not undone by anyone.
LEMMA HaltedStays ==
  ASSUME CoordInv, GateInv, [Next]_vars, pc["main"] \in {"s_beat", "s_state"},
         control = "HALTED"
  PROVE  control' = "HALTED"
<1>1. ~CommitResume
  BY DEF CommitResume, At, GateInv, HoldsSafety, StartupLabel
<1>2. ~MarkStartup /\ ~BecomeReady /\ ~BeginShutdown
  BY DEF MarkStartup, BecomeReady, BeginShutdown, MainAt, At
<1>3. QED
  BY <1>1, <1>2, ReadyArises

\* StartupProvenStep: startup waits for its reconciliation, and reads the state that
\* this leaves before it decides to write READY.
LEMMA StartupProvenStep ==
  ASSUME CoordInv, GateInv, LookupsCover, StartupProven, [Next]_vars
  PROVE  StartupProven'
<1>0. LabelsOK /\ pc \in [Procs -> Label] /\ recon \in [Procs -> ReconFrame]
  BY DEF CoordInv, LabelsOK, ReconOK
<1>1. CASE Restart
  BY <1>1, StartsCalm DEF StartupProven
<1>2. CASE ~Restart
  <2>1. ASSUME pc'["main"] = "s_beat", recon'["main"].at = "idle"
        PROVE  Resolved' \/ control' = "HALTED"
    <3>1. ~StartupReconcile
      <4>1. StartupReconcile =>
              recon' = [recon EXCEPT !["main"] = [IdleRecon EXCEPT !.at = "orders"]]
        BY DEF StartupReconcile, CallReconcile
      <4>2. QED
        BY <1>0, <2>1, <4>1, IdleReconFrame DEF Procs, ReconLabel
    <3>2. pc["main"] = "s_beat"
      BY <1>0, <1>2, <2>1, <3>1, LateStartup
    <3>3. CASE recon["main"].at = "idle"
      BY <3>2, <3>3, ResolvedStays, HaltedStays DEF StartupProven, StartupLabel
    <3>4. CASE recon["main"].at # "idle"
      <4>1. canc["main"].at = "idle"
        BY <3>2 DEF GateInv, CancelCalled
      <4>2. ReconcileHalt("main") => control' = "HALTED"
        BY DEF ReconcileHalt, set_service_state
      <4>3. QED
        BY <1>2, <2>1, <3>2, <3>4, <4>1, <4>2, ReconcileEnds, LookedUp
    <3>5. QED
      BY <3>3, <3>4
  <2>2. ASSUME pc'["main"] = "s_state" PROVE Resolved' \/ control' = "HALTED"
    <3>1. \/ pc["main"] = "s_state"
          \/ pc["main"] = "s_beat" /\ recon["main"].at = "idle"
      BY <1>0, <1>2, <2>2, LateStartup DEF StartupHeartbeat, MainAt, At
    <3>2. QED
      BY <3>1, ResolvedStays, HaltedStays DEF StartupProven, StartupLabel
  <2>3. ASSUME pc'["main"] = "s_ready" PROVE Resolved'
    <3>1. \/ pc["main"] = "s_state" /\ control # "HALTED"
          \/ pc["main"] = "s_ready"
      BY <1>0, <1>2, <2>3, StartupOrder DEF ReadStartupState, MainAt, At
    <3>2. QED
      BY <3>1, ResolvedStays DEF StartupProven, StartupLabel
  <2>4. QED
    BY <2>1, <2>2, <2>3 DEF StartupProven
<1>3. QED
  BY <1>1, <1>2

\* UnknownStopsStep: an outcome that becomes unknown takes the service out of READY
\* with the next step of the worker, or was found by a startup that is not READY.
LEMMA UnknownStopsStep ==
  ASSUME CoordInv, StartupUnready, StartupUnready', ResumeHalted, UnknownStops,
         ResumeProven, StartupProven, [Next]_vars
  PROVE  UnknownStops'
<1>0. LabelsOK /\ pc \in [Procs -> Label] /\ revision \in Nat /\ readRevision \in Nat
  BY DEF CoordInv, LabelsOK, LocalsOK, StoreInv, StoreTypeOK
<1> SUFFICES ASSUME control' = "READY"
             PROVE  Resolved' \/ pc'["worker"] = "halt" \/ pc'["main"] \in {"s_read", "s_mark"}
  BY DEF UnknownStops
<1>1. CASE Restart
  BY <1>1, StartsCalm
<1>2. CASE BecomeReady
  BY <1>2
  DEF BecomeReady, MainAt, At, set_service_state, journalVars, StartupProven, Resolved
<1>3. CASE CommitResume
  <2>1. /\ pc["control"] = "r_commit" /\ control = "HALTED"
        /\ revision = readRevision /\ order' = order
    BY <1>3
    DEF CommitResume, At, set_service_state_if_unchanged, set_service_state, storeVars,
        journalVars, ResumeHalted, ResumeLabel
  <2>2. QED
    BY <1>0, <2>1 DEF ResumeProven, Resolved
<1>4. CASE ~Restart /\ control = "READY"
  <2>1. CASE Resolved
    <3>1. ~RecoverInterrupted
      BY <1>4
      DEF RecoverInterrupted, MainAt, At, StartupUnready, UnreadyLabel, StartupLabel
    <3>2. QED
      BY <2>1, <3>1, UncertainArises DEF Resolved
  <2>2. CASE pc["worker"] = "halt"
    <3>1. ~WorkerStep
      BY <2>2
      DEF WorkerStep, ReceiveIntent, LockSafety, LockLifecycle, PreIntentReconcile,
          CheckHealth, reject_received, BeginValidation, ValidateMarket,
          validate_freshness_and_increments, EvaluateRisk, BeginPreparation,
          PrepareOrder, BeginSubmission, SendToVenue, FinishSubmission, WorkerHalt,
          ReleaseWorker, WorkerAt, At, halt_inner, set_service_state
    <3>2. QED
      BY <1>0, <1>4, <2>2, <3>1, OnlyWorkerWorks
  <2>3. CASE pc["main"] \in {"s_read", "s_mark"}
    <3>1. ReadPriorState => pc'["main"] = "s_mark"
      BY <1>0 DEF ReadPriorState, MainGoto, Goto, Procs
    <3>2. pc'["main"] # "s_runs"
      BY DEF StartupUnready, UnreadyLabel, StartupLabel
    <3>3. QED
      BY <1>0, <1>4, <2>3, <3>1, <3>2, EarlyStartup
  <2>4. QED
    BY <1>4, <2>1, <2>2, <2>3 DEF UnknownStops
<1>5. QED
  BY <1>1, <1>2, <1>3, <1>4, ReadyArises

\* Nothing has been submitted when the journal is new.
LEMMA ProvenInit == Init => ProvenInv
<1> SUFFICES ASSUME Init PROVE ProvenInv
  OBVIOUS
<1>1. /\ \A i \in Intents : order[i] = "ABSENT"
      /\ pc["main"] = "s_read" /\ pc["worker"] = "idle" /\ pc["control"] = "idle"
      /\ readRevision = 0 /\ revision = 0
  BY DEF Init, StoreInit, Procs
<1>2. QED
  BY <1>1
  DEF ProvenInv, StartupUnready, ResumeHalted, SendsOwned, ReplyKnown, LookupsCover,
      UnknownStops, ResumeProven, StartupProven, Resolved, UnreadyLabel, ResumeLabel,
      StartupLabel

\* ProvenInvariant: ProvenInv holds in every reachable state when the replies of the
\* venue are well-formed.
THEOREM ProvenInvariant ==
  ASSUME ~MalformedReplies
  PROVE  Spec => [](CoordInv /\ GateInv /\ ProvenInv)
<1>1. CoordInv /\ GateInv /\ ProvenInv /\ [Next]_vars => ProvenInv'
  BY StartupUnreadyStep, ResumeHaltedStep, SendsOwnedStep, ReplyKnownStep,
     LookupsCoverStep, UnknownStopsStep, ResumeProvenStep, StartupProvenStep
  DEF ProvenInv
<1>2. QED
  BY <1>1, ProvenInit, GateInvariant, PTL DEF Spec

\* NothingSubmittedUnproven: nothing is submitted while the outcome of another
\* submission is not known (StopsWhenUnproven), across halts, resumes and restarts, if
\* the replies of the venue pass validate_venue_order_evidence.
THEOREM NothingSubmittedUnproven ==
  ASSUME ~MalformedReplies
  PROVE  Spec => StopsWhenUnproven
<1>1. CoordInv /\ GateInv /\ ProvenInv /\ [Next]_vars =>
        [(\E i \in Intents : Begins(i)) =>
           \A j \in Intents : order[j] \notin {"SUBMITTING", "UNKNOWN"}]_vars
  <2> SUFFICES ASSUME CoordInv, GateInv, ProvenInv, [Next]_vars,
                      NEW i \in Intents, Begins(i), NEW j \in Intents
               PROVE  order[j] \notin {"SUBMITTING", "UNKNOWN"}
    OBVIOUS
  <2>1. control = "READY"
    BY JournalStep, BeginsWhenReady DEF CoordInv
  <2>2. pc["worker"] = "begin"
    BY UncertainArises DEF Begins, BeginSubmission, WorkerAt, At
  <2>3. pc["main"] \notin StartupLabel
    BY <2>2 DEF GateInv, HoldsSafety
  <2>4. QED
    BY <2>1, <2>2, <2>3
    DEF ProvenInv, SendsOwned, UnknownStops, Resolved, StartupLabel
<1>2. QED
  BY <1>1, ProvenInvariant, PTL DEF Spec, StopsWhenUnproven

-----------------------------------------------------------------------------
(* Nothing is submitted under a finding                                    *)

\* No cancellation is requested, pending or running.
NoCancels ==
  /\ pendingCancels = {} /\ cancelTasks = {} /\ boot.requests = {}
  /\ \A p \in Procs : canc[p].at = "idle"
  /\ pc["main"] # "d_cancel"

\* The labels of a reconciliation that has recorded a finding and not yet halted.
HaltLabel == {"halt", "failHalt", "errorHalt"}

\* The service is not READY under a finding, unless the reconciliation that recorded
\* it is about to halt, or startup is about to take the service out of READY.
FindingHalts ==
  control = "READY" /\ critical =>
    \/ pc["main"] \in {"s_read", "s_mark"}
    \/ \E p \in Procs : recon[p].at \in HaltLabel

\* A resume that writes READY has seen that there is no finding.
ResumeClear == pc["control"] = "r_commit" => ~critical

\* A startup whose reconciliation is over has no finding, or stays halted.
StartupClear ==
  /\ \/ pc["main"] = "s_beat" /\ recon["main"].at = "idle"
     \/ pc["main"] = "s_state"
     => ~critical \/ control = "HALTED"
  /\ pc["main"] = "s_ready" => ~critical

\* FindingInv: why neither of the two writes of READY can happen under a finding.
FindingInv ==
  /\ NoCancels /\ StartupUnready /\ ResumeHalted
  /\ FindingHalts /\ ResumeClear /\ StartupClear

\* NoCancelsStep: without requests and without cancel_on_halt no cancellation starts.
LEMMA NoCancelsStep ==
  ASSUME ~OperatorCancels, ~CancelOnHalt, CoordInv, NoCancels, [Next]_vars
  PROVE  NoCancels'
<1>0. /\ pc \in [Procs -> Label] /\ \A p \in Procs : canc[p].at = "idle"
      /\ boot \in [prior : ServiceState, requests : SUBSET SUBSET Intents]
  BY DEF CoordInv, LabelsOK, LocalsOK, NoCancels
<1> DEFINE Quiet == UNCHANGED <<pendingCancels, cancelTasks, boot, canc>>
<1>1. ASSUME NEW p \in Procs, ReconcileStep(p) PROVE NoCancels'
  <2>1. Quiet
    BY <1>1
    DEF ReconcileStep, FetchOrders, ReadLocalOrders, ProjectOrder, ReadUnknowns,
        LookupUnknown, ResolveUnknown, FinishReconcile, ReconcileHalt, FailReconcile,
        VenueFailureHalt, ReconcileError, ReconcileReturn, SetRecon, durable, sched,
        locals, spawn_protective_cancellation
  <2>2. pc' = pc \/ pc' = [pc EXCEPT ![p] = AfterError(pc[p])]
    BY <1>1, RoutineMoves
  <2>3. pc'["main"] # "d_cancel"
    BY <1>0, <2>2 DEF AfterError, NoCancels, Procs
  <2>4. QED
    BY <2>1, <2>3 DEF NoCancels
<1>2. ASSUME NEW p \in Procs, CancelStep(p) PROVE FALSE
  BY <1>0, <1>2, CancelCalls
<1>3. CASE WorkerStep
  <2>1. Quiet
    BY <1>3
    DEF WorkerStep, ReceiveIntent, LockSafety, LockLifecycle, PreIntentReconcile,
        CheckHealth, reject_received, BeginValidation, ValidateMarket,
        validate_freshness_and_increments, EvaluateRisk, BeginPreparation,
        PrepareOrder, BeginSubmission, SendToVenue, FinishSubmission, WorkerHalt,
        ReleaseWorker, halt_inner, durable, sched, locals, frames
  <2>2. \E l \in WorkerLabel : pc' = pc \/ pc' = [pc EXCEPT !["worker"] = l]
    BY <1>3, WorkerMoves DEF Moves, WorkerLabel
  <2>3. QED
    BY <1>0, <2>1, <2>2 DEF NoCancels, Procs
<1>4. CASE ControlJob
  <2>1. Quiet
    BY <1>4
    DEF ControlJob, StartReconcileJob, HeartbeatHalt, StartHaltJob, StartResume,
        CheckResume, CommitResume, Enqueue, EndJob, AbandonResume, SetRecon, durable,
        sched, locals, frames
  <2>2. \E l \in ControlLabel : pc' = pc \/ pc' = [pc EXCEPT !["control"] = l]
    BY <1>4, ControlMoves DEF Moves, ControlLabel
  <2>3. QED
    BY <1>0, <2>1, <2>2 DEF NoCancels, Procs
<1>5. CASE StartupStep
  <2>1. /\ UNCHANGED <<pendingCancels, cancelTasks, canc>>
        /\ \/ boot' = boot \/ boot' = IdleBoot
           \/ \E s : boot' = [boot EXCEPT !.prior = s]
           \/ boot' = [boot EXCEPT !.requests = pendingCancels]
        /\ pc'["main"] # "d_cancel"
    BY <1>0, <1>5
    DEF StartupStep, ReadPriorState, MarkStartup, fail_interrupted_reconciliations,
        RecoverInterrupted, HaltInterrupted, RecoverWork, RecoverCancellations,
        StartupReconcile, StartupHeartbeat, ReadStartupState, BecomeReady, Enqueue,
        EndStartup, MainAt, MainGoto, At, Goto, Procs, halt_inner, durable, sched,
        locals, frames, NoCancels
  <2>2. boot'.requests = {}
    BY <1>0, <2>1 DEF NoCancels, IdleBoot
  <2>3. QED
    BY <2>1, <2>2 DEF NoCancels
<1>6. CASE ShutdownStep
  <2>1. Quiet /\ pc'["main"] # "d_cancel"
    BY <1>0, <1>6
    DEF ShutdownStep, BeginShutdown, ShutdownCancel, ShutdownReconcile, EndShutdown,
        MainAt, MainGoto, At, Goto, Procs, durable, sched, locals, frames, NoCancels
  <2>2. QED
    BY <2>1 DEF NoCancels
<1>7. CASE Restart
  <2>1. /\ pendingCancels' = {} /\ cancelTasks' = {} /\ boot' = IdleBoot
        /\ canc' = [p \in Procs |-> IdleCancel] /\ pc'["main"] = "s_read"
    BY <1>7 DEF Restart, FreshProcess, Procs, NoCancels
  <2>2. QED
    BY <2>1, IdleCancelFrame DEF NoCancels, IdleBoot
<1>8. CASE StartCancellation \/ CancelRequest
  BY <1>8 DEF StartCancellation, CancelRequest, NoCancels
<1>9. CASE \/ EndCancellation \/ halt_idempotent \/ UNCHANGED vars
           \/ \E i \in Intents : SubmitIntent(i) \/ VenueStep(i)
  <2>1. Quiet /\ pc'["main"] = pc["main"]
    BY <1>0, <1>9
    DEF EndCancellation, halt_idempotent, vars, SubmitIntent, VenueStep, Goto, Procs,
        spawn_protective_cancellation, durable, sched, locals, frames
  <2>2. QED
    BY <2>1 DEF NoCancels
<1>10. QED
  BY <1>1, <1>2, <1>3, <1>4, <1>5, <1>6, <1>7, <1>8, <1>9 DEF Next

\* FindingArises: a finding is recorded by a reconciliation, which then halts, or by
\* the recovery at startup of one that was interrupted.
LEMMA FindingArises ==
  ASSUME CoordInv, [Next]_vars, ~critical, critical'
  PROVE  \/ fail_interrupted_reconciliations
         \/ \E p \in Procs : recon[p].at # "idle" /\ recon'[p].at \in HaltLabel
<1>1. ASSUME NEW p \in Procs, ReconcileStep(p)
      PROVE  recon[p].at # "idle" /\ recon'[p].at \in HaltLabel
  <2>1. FinishReconcile(p) \/ FailReconcile(p)
    BY <1>1
    DEF ReconcileStep, FetchOrders, ReadLocalOrders, ProjectOrder, ReadUnknowns,
        LookupUnknown, ResolveUnknown, ReconcileHalt, VenueFailureHalt, ReconcileError,
        durable
  <2>2. recon[p].at \in {"lookup", "fail", "error"}
    BY <2>1 DEF FinishReconcile, FailReconcile, InRecon
  <2>3. ~ReconcileHalt(p) /\ ~VenueFailureHalt(p) /\ ~ReconcileError(p)
    BY <2>2 DEF ReconcileHalt, VenueFailureHalt, ReconcileError, InRecon
  <2>4. FailReconcile(p) => recon[p].at # "lookup"
    BY DEF FailReconcile
  <2>5. FinishReconcile(p) => recon[p].at = "lookup"
    BY DEF FinishReconcile, InRecon
  <2>6. CASE FailReconcile(p)
    BY <1>1, <2>2, <2>3, <2>4, <2>5, <2>6, FrameMoves DEF HaltLabel
  <2>7. CASE FinishReconcile(p)
    <3>1. recon[p].bad \/ UnlinkedTrades(p) # {}
      BY <2>7 DEF FinishReconcile
    <3>2. recon' = [recon EXCEPT ![p] = [IdleRecon EXCEPT !.at = "halt"]]
      BY <2>7, <3>1 DEF FinishReconcile, SetRecon
    <3>3. recon'[p].at = "halt"
      BY <3>2, IdleReconFrame DEF CoordInv, ReconOK, ReconLabel
    <3>4. QED
      BY <2>2, <3>3 DEF HaltLabel
  <2>8. QED
    BY <2>1, <2>6, <2>7
<1>2. \A p \in Procs : ~CancelStep(p)
  BY DEF CancelStep, CreateCancellation, ReadTarget, MarkTarget, CancelAtVenue,
         CommitCancelled, finish_cancellation, durable
<1>3. ~WorkerStep
  BY DEF WorkerStep, ReceiveIntent, LockSafety, LockLifecycle, PreIntentReconcile,
         CheckHealth, reject_received, BeginValidation, ValidateMarket,
         validate_freshness_and_increments, EvaluateRisk, BeginPreparation,
         PrepareOrder, BeginSubmission, SendToVenue, FinishSubmission, WorkerHalt,
         ReleaseWorker, durable
<1>4. ~ControlJob
  BY DEF ControlJob, StartReconcileJob, HeartbeatHalt, StartHaltJob, StartResume,
         CheckResume, CommitResume, Enqueue, EndJob, AbandonResume, durable
<1>5. StartupStep => fail_interrupted_reconciliations
  BY DEF StartupStep, ReadPriorState, MarkStartup, RecoverInterrupted,
         HaltInterrupted, RecoverWork, RecoverCancellations, StartupReconcile,
         StartupHeartbeat, ReadStartupState, BecomeReady, Enqueue, EndStartup, durable
<1>6. ~ShutdownStep
  BY DEF ShutdownStep, BeginShutdown, ShutdownCancel, ShutdownReconcile, EndShutdown,
         durable
<1>7. /\ ~StartCancellation /\ ~EndCancellation /\ ~CancelRequest /\ ~halt_idempotent
      /\ ~Restart /\ ~UNCHANGED vars
      /\ \A i \in Intents : ~SubmitIntent(i) /\ ~VenueStep(i)
  BY DEF StartCancellation, EndCancellation, CancelRequest, halt_idempotent, Restart,
         vars, SubmitIntent, VenueStep, durable
<1>8. QED
  BY <1>1, <1>2, <1>3, <1>4, <1>5, <1>6, <1>7 DEF Next

\* ClearStays: while startup or a resume holds safety_gate and its reconciliation is
\* over, nobody else reconciles.
LEMMA ClearStays ==
  ASSUME CoordInv, GateInv, NoCancels, [Next]_vars, ~critical,
         \/ /\ pc["main"] \in {"s_beat", "s_state", "s_ready"}
            /\ recon["main"].at = "idle"
         \/ pc["control"] \in {"r_check", "r_commit"} /\ pc["main"] = "serving"
  PROVE  ~critical'
<1>1. \A p \in Procs : recon[p].at = "idle"
  BY DEF GateInv, HoldsSafety, ReconcileCalled, NoCancels, StartupLabel, Procs
<1>2. ~fail_interrupted_reconciliations
  BY DEF fail_interrupted_reconciliations, MainAt, At
<1>3. QED
  BY <1>1, <1>2, FindingArises

\* ResumeClearStep: between the check of the findings and the write of READY.
LEMMA ResumeClearStep ==
  ASSUME CoordInv, GateInv, NoCancels, ResumeHalted, ResumeClear, [Next]_vars
  PROVE  ResumeClear'
<1>0. LabelsOK /\ pc \in [Procs -> Label]
  BY DEF CoordInv, LabelsOK
<1> SUFFICES ASSUME pc'["control"] = "r_commit" PROVE ~critical'
  BY DEF ResumeClear
<1>1. ~Restart /\ ~StartResume
  BY <1>0, StartsCalm DEF StartResume, Goto, Procs
<1>2. pc["control"] \in ResumeLabel /\ pc["main"] = "serving"
  BY <1>0, <1>1, ResumeWaits DEF ResumeHalted, ResumeLabel
<1>3. \/ pc["control"] = "r_commit"
      \/ pc["control"] = "r_check" /\ ~critical
  <2>1. CASE ControlJob
    BY <1>0, <1>1, <1>2, <2>1
    DEF ControlJob, StartReconcileJob, HeartbeatHalt, StartHaltJob, CheckResume,
        CommitResume, Enqueue, EndJob, AbandonResume, At, Goto, Procs, ResumeLabel
  <2>2. CASE ~ControlJob
    BY <1>0, <1>1, <2>2, ControlWaits
  <2>3. QED
    BY <2>1, <2>2
<1>4. QED
  BY <1>2, <1>3, ClearStays DEF ResumeClear

\* StartupClearStep: startup reads the state that its reconciliation leaves.
LEMMA StartupClearStep ==
  ASSUME CoordInv, GateInv, NoCancels, StartupClear, [Next]_vars
  PROVE  StartupClear'
<1>0. LabelsOK /\ pc \in [Procs -> Label] /\ recon \in [Procs -> ReconFrame]
  BY DEF CoordInv, LabelsOK, ReconOK
<1>1. CASE Restart
  BY <1>1, StartsCalm DEF StartupClear
<1>2. CASE ~Restart
  <2>0. pc["main"] \in {"s_state", "s_ready"} => recon["main"].at = "idle"
    BY DEF GateInv, ReconcileCalled, NoCancels, Procs
  <2>1. ASSUME pc'["main"] = "s_beat", recon'["main"].at = "idle"
        PROVE  ~critical' \/ control' = "HALTED"
    <3>1. ~StartupReconcile
      <4>1. StartupReconcile =>
              recon' = [recon EXCEPT !["main"] = [IdleRecon EXCEPT !.at = "orders"]]
        BY DEF StartupReconcile, CallReconcile
      <4>2. QED
        BY <1>0, <2>1, <4>1, IdleReconFrame DEF Procs, ReconLabel
    <3>2. pc["main"] = "s_beat"
      BY <1>0, <1>2, <2>1, <3>1, LateStartup
    <3>3. CASE recon["main"].at = "idle"
      BY <3>2, <3>3, ClearStays, HaltedStays DEF StartupClear
    <3>4. CASE recon["main"].at # "idle"
      <4>1. canc["main"].at = "idle"
        BY DEF NoCancels, Procs
      <4>2. ReconcileHalt("main") => control' = "HALTED"
        BY DEF ReconcileHalt, set_service_state
      <4>3. QED
        BY <1>2, <2>1, <3>2, <3>4, <4>1, <4>2, ReconcileEnds
    <3>5. QED
      BY <3>3, <3>4
  <2>2. ASSUME pc'["main"] = "s_state" PROVE ~critical' \/ control' = "HALTED"
    <3>1. \/ pc["main"] = "s_state"
          \/ pc["main"] = "s_beat" /\ recon["main"].at = "idle"
      BY <1>0, <1>2, <2>2, LateStartup DEF StartupHeartbeat, MainAt, At
    <3>2. QED
      BY <2>0, <3>1, ClearStays, HaltedStays DEF StartupClear
  <2>3. ASSUME pc'["main"] = "s_ready" PROVE ~critical'
    <3>1. \/ pc["main"] = "s_state" /\ control # "HALTED"
          \/ pc["main"] = "s_ready"
      BY <1>0, <1>2, <2>3, StartupOrder DEF ReadStartupState, MainAt, At
    <3>2. QED
      BY <2>0, <3>1, ClearStays DEF StartupClear
  <2>4. QED
    BY <2>1, <2>2, <2>3 DEF StartupClear
<1>3. QED
  BY <1>1, <1>2

\* HaltFollows: a reconciliation that has recorded a finding halts before it returns.
LEMMA HaltFollows ==
  ASSUME CoordInv, GateInv, NoCancels, ResumeHalted, [Next]_vars, ~Restart,
         control = "READY", control' = "READY",
         NEW p \in Procs, recon[p].at \in HaltLabel
  PROVE  recon'[p].at \in HaltLabel
<1>1. ~(AbandonResume /\ p = "control")
  BY DEF AbandonResume, ResumeHalted, ResumeLabel, GateInv, ReconcileCalled, NoCancels,
         Procs, HaltLabel
<1>2. ~ReconcileHalt(p) /\ ~VenueFailureHalt(p) /\ ~ReconcileError(p)
  BY DEF ReconcileHalt, VenueFailureHalt, ReconcileError, set_service_state
<1>3. ~FinishReconcile(p) /\ ~FailReconcile(p)
  BY DEF FinishReconcile, FailReconcile, InRecon, HaltLabel
<1>4. ~ReconcileStep(p)
  BY <1>2, <1>3, FrameMoves DEF HaltLabel
<1>5. QED
  BY <1>1, <1>4, FrameKept DEF HaltLabel

\* FindingHaltsStep: the halt of a finding is the next step of its reconciliation.
LEMMA FindingHaltsStep ==
  ASSUME CoordInv, GateInv, FindingInv, StartupUnready', [Next]_vars
  PROVE  FindingHalts'
<1>0. LabelsOK /\ pc \in [Procs -> Label]
  BY DEF CoordInv, LabelsOK
<1> SUFFICES ASSUME control' = "READY", critical'
             PROVE  \/ pc'["main"] \in {"s_read", "s_mark"}
                    \/ \E p \in Procs : recon'[p].at \in HaltLabel
  BY DEF FindingHalts
<1>1. CASE Restart
  BY <1>1, StartsCalm
<1>2. CASE BecomeReady
  BY <1>2 DEF BecomeReady, MainAt, At, durable, FindingInv, StartupClear
<1>3. CASE CommitResume
  BY <1>3 DEF CommitResume, At, durable, FindingInv, ResumeClear
<1>4. CASE ~Restart /\ control = "READY" /\ ~critical
  <2>1. ~fail_interrupted_reconciliations
    BY <1>4
    DEF fail_interrupted_reconciliations, MainAt, At, FindingInv, StartupUnready,
        UnreadyLabel, StartupLabel
  <2>2. QED
    BY <1>4, <2>1, FindingArises
<1>5. CASE ~Restart /\ control = "READY" /\ critical
  <2>1. CASE pc["main"] \in {"s_read", "s_mark"}
    <3>1. ReadPriorState => pc'["main"] = "s_mark"
      BY <1>0 DEF ReadPriorState, MainGoto, Goto, Procs
    <3>2. pc'["main"] # "s_runs"
      BY DEF StartupUnready, UnreadyLabel, StartupLabel
    <3>3. QED
      BY <1>0, <1>5, <2>1, <3>1, <3>2, EarlyStartup
  <2>2. CASE \E p \in Procs : recon[p].at \in HaltLabel
    BY <1>5, <2>2, HaltFollows DEF FindingInv
  <2>3. QED
    BY <1>5, <2>1, <2>2 DEF FindingInv, FindingHalts
<1>6. QED
  BY <1>1, <1>2, <1>3, <1>4, <1>5, ReadyArises

\* There is no finding and no cancellation when the journal is new.
LEMMA FindingInit == Init => FindingInv
<1> SUFFICES ASSUME Init PROVE FindingInv
  OBVIOUS
<1>1. NoCancels
  BY IdleCancelFrame DEF Init, NoCancels, IdleBoot, Procs
<1>2. ~critical /\ pc["main"] = "s_read" /\ pc["control"] = "idle"
  BY DEF Init, Procs
<1>3. QED
  BY <1>1, <1>2, ProvenInit
  DEF FindingInv, ProvenInv, FindingHalts, ResumeClear, StartupClear

\* NothingSubmittedUnderFinding: without cancellations nothing is submitted while a
\* critical reconciliation finding is unresolved (NoSubmissionUnderFinding), although
\* a finding and the halt it causes are two transactions.
THEOREM NothingSubmittedUnderFinding ==
  ASSUME ~OperatorCancels, ~CancelOnHalt
  PROVE  Spec => NoSubmissionUnderFinding
<1>1. CoordInv /\ GateInv /\ FindingInv /\ [Next]_vars => FindingInv'
  BY NoCancelsStep, StartupUnreadyStep, ResumeHaltedStep, FindingHaltsStep,
     ResumeClearStep, StartupClearStep
  DEF FindingInv
<1>2. CoordInv /\ GateInv /\ FindingInv /\ [Next]_vars =>
        [(\E i \in Intents : Begins(i)) => ~critical]_vars
  <2> SUFFICES ASSUME CoordInv, GateInv, FindingInv, [Next]_vars,
                      NEW i \in Intents, Begins(i)
               PROVE  ~critical
    OBVIOUS
  <2>1. control = "READY"
    BY JournalStep, BeginsWhenReady DEF CoordInv
  <2>2. pc["worker"] = "begin" /\ recon["worker"].at = "idle"
    BY UncertainArises DEF Begins, BeginSubmission, WorkerAt, At
  <2>3. pc["main"] \notin StartupLabel
    BY <2>2 DEF GateInv, HoldsSafety
  <2>4. \A p \in Procs : recon[p].at = "idle"
    BY <2>2, WorkerAlone
  <2>5. QED
    BY <2>1, <2>3, <2>4 DEF FindingInv, FindingHalts, StartupLabel, HaltLabel
<1>3. QED
  BY <1>1, <1>2, FindingInit, GateInvariant, PTL DEF Spec, NoSubmissionUnderFinding
=============================================================================
