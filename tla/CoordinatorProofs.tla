-------------------------- MODULE CoordinatorProofs --------------------------
(***************************************************************************)
(* The composed coordinator, for any set of intents, capacity, limits and  *)
(* number of restarts.  CoordInv joins the invariant of the journal        *)
(* (StoreProofs) with what every task's local variables and program        *)
(* counter may be; its proof goes task by task, and shows on the way that  *)
(* each step of the coordinator is a step of the journal or none           *)
(* (JournalStep), so that all the theorems about the journal hold here.    *)
(***************************************************************************)
EXTENDS Coordinator, StoreProofs

USE QtyAssumption, MaxRevisionAssumption, NoIntentAssumption

\* The states of an intent whose submission has begun.
SentIntentState == {"SUBMITTING", "SUBMITTED", "UNKNOWN"}
\* The states of an order from which only a terminal state, or another such state,
\* is reached: reconciliation projects these and no others.
SettledOrderState == ReconciledOrderState \cup TerminalOrderState

\* An answer of the venue to the listing of open orders: some orders, each with the
\* quantity matched when it was listed.
OpenSnapshot == UNION {[S -> 0..Qty] : S \in SUBSET Intents}
\* The local variables of one run of reconcile_locked.
ReconFrame ==
  [at : ReconLabel, open : OpenSnapshot, trades : [Intents -> 0..Qty],
   todo : SUBSET Intents, cur : Intents \cup {NoIntent},
   found : VenueEvidence \cup {NoEvidence}, bad : BOOLEAN]
\* The local variables of one run of the cancellation routine.
CancelFrame ==
  [at : CancelLabel, targets : SUBSET Intents, todo : SUBSET Intents,
   cur : Intents \cup {NoIntent}, seen : OrderState \cup {"ABSENT"}]

\* Reconciliations are well-formed: a lookup that is to be resolved has an intent
\* and an answer, and the orders still to project stay settled while other tasks
\* write the journal.
ReconOK ==
  /\ recon \in [Procs -> ReconFrame]
  /\ \A p \in Procs : recon[p].at = "resolve" =>
       recon[p].cur \in Intents /\ recon[p].found \in VenueEvidence
  /\ \A p \in Procs : recon[p].at = "project" =>
       \A i \in recon[p].todo : order[i] \in SettledOrderState

\* Cancellations are well-formed: between reading an order and writing its outcome
\* the routine works on some intent.
CancelOK ==
  /\ canc \in [Procs -> CancelFrame]
  /\ \A p \in Procs : canc[p].at \in {"act", "venue", "commit"} => canc[p].cur \in Intents

\* The local variables of the worker, of startup and of the control jobs; a worker
\* that is not idle has received an intent.
LocalsOK ==
  /\ work \in [intent : Intents \cup {NoIntent}, reply : ReplyKind, filled : 0..Qty]
  /\ pc["worker"] # "idle" => work.intent \in Intents
  /\ boot \in [prior : ServiceState, requests : SUBSET SUBSET Intents]
  /\ todo \in [{"main", "control"} -> SUBSET Intents]
  /\ readRevision \in 0..MaxRevision

\* What the tasks share outside the database: gates, queue within its capacity,
\* deferred work, requests and findings.
SchedOK ==
  /\ {safetyGate, lifecycleGate} \subseteq Procs \cup {"free"}
  /\ queue \in Seq(Intents) /\ Len(queue) <= QueueCapacity
  /\ deferred \subseteq Intents
  /\ cancelTasks \subseteq [all : BOOLEAN, targets : SUBSET Intents]
  /\ heartbeat \in {"beating", "halted", "cancelled"}
  /\ critical \in BOOLEAN /\ orphanRuns \in BOOLEAN
  /\ pendingCancels \subseteq SUBSET Intents

\* The venue against the journal: nothing is sent for an intent whose submission
\* has not begun, and at most once; the worker is about to send only what was never
\* sent.
VenueOK ==
  /\ venue \in [Intents -> {"none", "inflight", "LIVE", "FILLED", "CANCELLED"}]
  /\ matched \in [Intents -> 0..Qty]
  /\ sends \in [Intents -> 0..1]
  /\ \A i \in Intents :
       /\ intent[i] \notin SentIntentState => sends[i] = 0
       /\ sends[i] = 0 => venue[i] = "none"
       /\ venue[i] \in {"none", "inflight"} => matched[i] = 0
       /\ venue[i] = "LIVE" => matched[i] < Qty
  /\ pc["worker"] = "send" => 
       sends[work.intent] = 0 /\ intent[work.intent] \in SentIntentState

\* CoordInv: the journal invariant of StoreProofs with the well-formedness of every
\* task. It is inductive: the journal invariant alone is not preserved unless the
\* tasks call its transactions with the arguments they can really have.
CoordInv == StoreInv /\ LabelsOK /\ ReconOK /\ CancelOK /\ LocalsOK /\ SchedOK /\ VenueOK

\* The matched quantity of a listed order is within the order.
LEMMA OpenSnapshotType ==
  ASSUME NEW o \in OpenSnapshot, NEW i \in DOMAIN o
  PROVE  i \in Intents /\ o[i] \in 0..Qty
  BY DEF OpenSnapshot

\* find_order answers with evidence about an order or with none.
LEMMA FindOrderType ==
  ASSUME VenueOK, NEW i \in Intents
  PROVE  \/ find_order(i) = NoEvidence
         \/ find_order(i) \in VenueEvidence
  BY DEF find_order, Evidence, VenueEvidence, VenueOK, OrderState

\* The orders open at the venue, with what they matched, are a listing.
LEMMA OpenAtVenueType == VenueOK => OpenAtVenue \in OpenSnapshot
<1> SUFFICES ASSUME VenueOK PROVE OpenAtVenue \in OpenSnapshot
  OBVIOUS
<1> DEFINE S == {j \in Intents : venue[j] = "LIVE"}
<1>1. S \in SUBSET Intents /\ OpenAtVenue \in [S -> 0..Qty]
  BY DEF OpenAtVenue, VenueOK
<1>2. QED
  BY <1>1 DEF OpenSnapshot

\* What every transaction keeps, so that a task may rely on what it read earlier.
Kept ==
  \A i \in Intents :
    /\ intent[i] \in SentIntentState => intent'[i] \in SentIntentState
    /\ order[i] \in SettledOrderState => order'[i] \in SettledOrderState

\* A transaction neither returns a begun intent to an earlier state nor a settled
\* order to an unsettled one.
LEMMA JournalKeeps == StoreInv /\ [StoreNext]_storeVars => Kept
<1> SUFFICES ASSUME StoreInv, [StoreNext]_storeVars PROVE Kept
  OBVIOUS
<1> USE DEF Kept, SentIntentState, SettledOrderState, ReconciledOrderState,
            TerminalOrderState
<1>1. CASE UNCHANGED storeVars
  BY <1>1 DEF storeVars
<1>2. CASE ControlStep
  BY <1>2
  DEF ControlStep, set_service_state, set_service_state_if_unchanged, journalVars
<1>3. ASSUME NEW i \in Intents, IntentStep(i)
      PROVE  Kept
  BY <1>3
  DEF IntentStep, admit_intent, transition_intent, evaluate_and_reserve_risk,
      approve_risk, create_prepared_order, reject_preparation, StoreInv,
      StoreTypeOK, JournalsAgree, RowsAgree
<1>4. ASSUME NEW i \in Intents, OrderStep(i)
      PROVE  Kept
  <2>1. CASE begin_submission(i) \/ cancel_prepared_order(i)
    BY <2>1 DEF begin_submission, cancel_prepared_order, StoreInv, StoreTypeOK
  <2>2. CASE order[i] = "SUBMITTING" /\ SubmissionOutcome(i)
    BY <2>2 DEF SubmissionOutcome, finish_submission, StoreInv, StoreTypeOK
  <2>3. ASSUME NEW e \in VenueEvidence,
               resolve_unknown_submission(i, e) \/ reconcile_order_projection(i, e)
        PROVE  Kept
    BY <2>3
    DEF resolve_unknown_submission, reconcile_order_projection,
        validate_venue_order_evidence, VenueEvidence, OrderState, StoreInv,
        StoreTypeOK
  <2>4. ASSUME NEW next \in {"CANCEL_PENDING", "FILLED", "CANCELLED", "EXPIRED"},
               transition_order(i, next)
        PROVE  Kept
    BY <2>4 DEF transition_order, StoreInv, StoreTypeOK
  <2>5. QED
    BY <1>4, <2>1, <2>2, <2>3, <2>4 DEF OrderStep
<1>5. CASE RecoveryStep
  BY <1>5
  DEF RecoveryStep, recover_interrupted_submissions, Interrupted,
      recover_pre_submission_work, Recoverable, RecoverableIntentState,
      StoreInv, StoreTypeOK, JournalsAgree, RowsAgree, IntentState
<1>6. QED
  BY <1>1, <1>2, <1>3, <1>4, <1>5 DEF StoreNext



\* Only task p moves, and to a label of L.
Moves(p, L) == pc' = pc \/ \E l \in L : pc' = [pc EXCEPT ![p] = l]

\* A called routine leaves its caller where it is, or ends it with the caller's
\* error path.
LEMMA RoutineMoves ==
  ASSUME NEW p \in Procs, ReconcileStep(p) \/ CancelStep(p)
  PROVE  pc' = pc \/ pc' = [pc EXCEPT ![p] = AfterError(pc[p])]
<1>1. CASE ReconcileStep(p)
  BY <1>1
  DEF ReconcileStep, FetchOrders, ReadLocalOrders, ProjectOrder, ReadUnknowns,
      LookupUnknown, ResolveUnknown, FinishReconcile, ReconcileHalt, FailReconcile,
      VenueFailureHalt, ReconcileError, ReconcileReturn, Goto
<1>2. CASE CancelStep(p)
  BY <1>2
  DEF CancelStep, CreateCancellation, ReadTarget, MarkTarget, CancelAtVenue,
      CommitCancelled, finish_cancellation, CancelError, Goto
<1>3. QED
  BY <1>1, <1>2

\* The worker keeps to its labels.
LEMMA WorkerMoves == WorkerStep => Moves("worker", WorkerLabel)
  BY DEF WorkerStep, ReceiveIntent, LockSafety, LockLifecycle, PreIntentReconcile,
      CheckHealth, reject_received, BeginValidation, ValidateMarket,
      validate_freshness_and_increments, EvaluateRisk, BeginPreparation,
      PrepareOrder, BeginSubmission, SendToVenue, FinishSubmission, WorkerHalt,
      ReleaseWorker, WorkerGoto, AfterVenueError, Goto, Moves, WorkerLabel

\* The control jobs keep to their labels.
LEMMA ControlMoves == ControlJob => Moves("control", ControlLabel)
  BY DEF ControlJob, StartReconcileJob, HeartbeatHalt, StartHaltJob, StartResume,
      CheckResume, CommitResume, Enqueue, EndJob, AbandonResume, Goto, Moves, ControlLabel

\* Startup and shutdown keep to the labels of main.
LEMMA MainMoves == StartupStep \/ ShutdownStep => Moves("main", MainLabel)
  BY DEF StartupStep, ReadPriorState, MarkStartup, fail_interrupted_reconciliations,
      RecoverInterrupted, HaltInterrupted, RecoverWork, RecoverCancellations,
      StartupReconcile, StartupHeartbeat, ReadStartupState, BecomeReady, Enqueue,
      EndStartup, MainGoto, ShutdownStep, BeginShutdown, ShutdownCancel,
      ShutdownReconcile, EndShutdown, Goto, Moves, MainLabel

\* The error path of a label is a label of the same task.
LEMMA ErrorLabels ==
  /\ \A l \in MainLabel : AfterError(l) \in MainLabel
  /\ \A l \in WorkerLabel : AfterError(l) = l
  /\ \A l \in ControlLabel : AfterError(l) \in ControlLabel
  /\ \A l \in CancellerLabel : AfterError(l) = l
  BY DEF AfterError, MainLabel, WorkerLabel, ControlLabel, CancellerLabel

\* Every task stays at its own labels.
LEMMA LabelsStep == LabelsOK /\ [Next]_vars => LabelsOK'
<1> SUFFICES ASSUME LabelsOK, [Next]_vars PROVE LabelsOK'
  OBVIOUS
<1> USE DEF LabelsOK
<1>1. ASSUME NEW p \in Procs, ReconcileStep(p) \/ CancelStep(p)
      PROVE  LabelsOK'
  <2>1. pc' = pc \/ pc' = [pc EXCEPT ![p] = AfterError(pc[p])]
    BY <1>1, RoutineMoves
  <2>2. QED
    BY <2>1, ErrorLabels
    DEF Label, MainLabel, WorkerLabel, ControlLabel, CancellerLabel, Procs
<1>3. CASE WorkerStep \/ ControlJob \/ StartupStep \/ ShutdownStep
  BY <1>3, WorkerMoves, ControlMoves, MainMoves DEF Moves, Label, Procs
<1>4. CASE StartCancellation \/ EndCancellation
  BY <1>4
  DEF StartCancellation, EndCancellation, Goto, Label, ControlLabel, CancellerLabel, Procs
<1>8. CASE \/ \E i \in Intents : SubmitIntent(i) \/ VenueStep(i)
           \/ CancelRequest \/ halt_idempotent \/ UNCHANGED vars
  BY <1>8 DEF SubmitIntent, VenueStep, CancelRequest, halt_idempotent, vars
<1>9. CASE Restart
  BY <1>9
  DEF Restart, FreshProcess, Label, MainLabel, WorkerLabel, ControlLabel,
      CancellerLabel, Procs
<1>10. QED
  BY <1>1, <1>3, <1>4, <1>8, <1>9 DEF Next

\* Writing a well-formed frame keeps the cancellations well-formed.
LEMMA CancelUpdate ==
  ASSUME CancelOK, NEW p \in Procs, NEW f \in CancelFrame,
         f.at \in {"act", "venue", "commit"} => f.cur \in Intents,
         canc' = [canc EXCEPT ![p] = f]
  PROVE  CancelOK'
  BY DEF CancelOK

\* The frames with which the cancellation of all orders starts are well-formed.
LEMMA IdleCancelFrame ==
  /\ IdleCancel \in CancelFrame /\ IdleCancel.at = "idle"
  /\ [IdleCancel EXCEPT !.at = "create"] \in CancelFrame
  /\ [IdleCancel EXCEPT !.at = "create"].at = "create"
  BY DEF IdleCancel, CancelFrame, CancelLabel

\* The frame with which a requested cancellation starts is well-formed.
LEMMA CancelTargetsFrame ==
  ASSUME NEW t \in SUBSET Intents
  PROVE  LET f == [IdleCancel EXCEPT !.at = "next", !.targets = t, !.todo = t]
         IN f \in CancelFrame /\ f.at = "next"
  BY DEF IdleCancel, CancelFrame, CancelLabel

\* Moving on to the next target is well-formed.
LEMMA NextTargetFrame ==
  ASSUME CancelOK, NEW p \in Procs
  PROVE  NextTarget(p) \in CancelFrame /\ NextTarget(p).at = "next"
<1>1. canc[p] \in CancelFrame
  BY DEF CancelOK
<1>2. QED
  BY <1>1 DEF NextTarget, CancelFrame, CancelLabel

\* Every step of the cancellation routine keeps the cancellations well-formed.
LEMMA CancelStepFrames ==
  ASSUME CancelOK, StoreTypeOK, NEW p \in Procs, CancelStep(p)
  PROVE  CancelOK'
<1>0. canc[p] \in CancelFrame
  BY DEF CancelOK
<1>1. CASE CreateCancellation(p)
  <2> DEFINE f == [canc[p] EXCEPT !.at = "next", !.targets = OpenOrders,
                                  !.todo = OpenOrders]
  <2>1. f \in CancelFrame /\ f.at = "next"
    BY <1>0 DEF CancelFrame, CancelLabel, OpenOrders
  <2>2. canc' = [canc EXCEPT ![p] = f]
    BY <1>1 DEF CreateCancellation, SetCancel
  <2>3. QED
    BY <2>1, <2>2, CancelUpdate
<1>2. CASE ReadTarget(p)
  <2>1. PICK i \in canc[p].todo :
          canc' = [canc EXCEPT ![p] =
            IF order[i] \in TerminalOrderState THEN [canc[p] EXCEPT !.todo = @ \ {i}]
            ELSE [[canc[p] EXCEPT !.todo = @ \ {i}]
                  EXCEPT !.at = IF order[i] = "UNKNOWN" THEN "venue" ELSE "act",
                         !.cur = i, !.seen = order[i]]]
    BY <1>2 DEF ReadTarget, SetCancel
  <2>2. i \in Intents /\ order[i] \in OrderState \cup {"ABSENT"}
    BY <1>0, <2>1 DEF CancelFrame, StoreTypeOK
  <2>3. /\ [canc[p] EXCEPT !.todo = @ \ {i}] \in CancelFrame
        /\ [canc[p] EXCEPT !.todo = @ \ {i}].at = canc[p].at
        /\ [canc[p] EXCEPT !.todo = @ \ {i}].cur = canc[p].cur
    BY <1>0 DEF CancelFrame
  <2>4. \A l \in {"venue", "act"} :
          LET f == [[canc[p] EXCEPT !.todo = @ \ {i}]
                    EXCEPT !.at = l, !.cur = i, !.seen = order[i]]
          IN f \in CancelFrame /\ f.cur = i
    BY <1>0, <2>2 DEF CancelFrame, CancelLabel
  <2>5. CASE order[i] \in TerminalOrderState
    <3>1. canc[p].at = "next"
      BY <1>2 DEF ReadTarget, InCancel
    <3>2. QED
      BY <2>1, <2>3, <2>5, <3>1, CancelUpdate
  <2>6. CASE order[i] \notin TerminalOrderState
    <3>1. PICK l \in {"venue", "act"} :
            canc' = [canc EXCEPT ![p] =
              [[canc[p] EXCEPT !.todo = @ \ {i}]
               EXCEPT !.at = l, !.cur = i, !.seen = order[i]]]
      BY <2>1, <2>6
    <3>2. QED
      BY <2>2, <2>4, <3>1, CancelUpdate
  <2>7. QED
    BY <2>5, <2>6
<1>3. CASE MarkTarget(p) \/ CommitCancelled(p)
  <2>1. \/ canc' = [canc EXCEPT ![p] = NextTarget(p)]
        \/ canc' = [canc EXCEPT ![p] = IdleCancel]
        \/ /\ canc[p].at = "act"
           /\ canc' = [canc EXCEPT ![p] = [canc[p] EXCEPT !.at = "venue"]]
    BY <1>3 DEF MarkTarget, CommitCancelled, SetCancel, CancelError, InCancel
  <2>2. /\ [canc[p] EXCEPT !.at = "venue"] \in CancelFrame
        /\ [canc[p] EXCEPT !.at = "venue"].cur = canc[p].cur
    BY <1>0 DEF CancelFrame, CancelLabel
  <2>3. canc[p].at = "act" => canc[p].cur \in Intents
    BY DEF CancelOK
  <2>4. QED
    BY <2>1, <2>2, <2>3, CancelUpdate, NextTargetFrame, IdleCancelFrame
<1>4. CASE CancelAtVenue(p)
  <2>1. \/ canc' = [canc EXCEPT ![p] = NextTarget(p)]
        \/ /\ canc[p].at = "venue"
           /\ canc' = [canc EXCEPT ![p] = [canc[p] EXCEPT !.at = "commit"]]
    BY <1>4 DEF CancelAtVenue, SetCancel, InCancel
  <2>2. /\ [canc[p] EXCEPT !.at = "commit"] \in CancelFrame
        /\ [canc[p] EXCEPT !.at = "commit"].cur = canc[p].cur
    BY <1>0 DEF CancelFrame, CancelLabel
  <2>3. canc[p].at = "venue" => canc[p].cur \in Intents
    BY DEF CancelOK
  <2>4. QED
    BY <2>1, <2>2, <2>3, CancelUpdate, NextTargetFrame
<1>5. CASE finish_cancellation(p)
  BY <1>5, CancelUpdate, IdleCancelFrame DEF finish_cancellation, SetCancel
<1>6. QED
  BY <1>1, <1>2, <1>3, <1>4, <1>5 DEF CancelStep

\* The cancellation frames change by steps of the routine and when it is called
\* only.
LEMMA CancelCallers ==
  ASSUME LocalsOK, SchedOK, [Next]_vars
  PROVE  \/ UNCHANGED canc \/ Restart
         \/ \E p \in Procs :
              \/ CancelStep(p)
              \/ canc' = [canc EXCEPT ![p] = [IdleCancel EXCEPT !.at = "create"]]
              \/ \E t \in SUBSET Intents :
                   canc' = [canc EXCEPT ![p] =
                     [IdleCancel EXCEPT !.at = "next", !.targets = t, !.todo = t]]
<1> DEFINE Calls(p) ==
      \/ UNCHANGED canc
      \/ canc' = [canc EXCEPT ![p] = [IdleCancel EXCEPT !.at = "create"]]
      \/ \E t \in SUBSET Intents :
           canc' = [canc EXCEPT ![p] =
             [IdleCancel EXCEPT !.at = "next", !.targets = t, !.todo = t]]
<1>1. ASSUME NEW p \in Procs, ReconcileStep(p) PROVE UNCHANGED canc
  BY <1>1
  DEF ReconcileStep, FetchOrders, ReadLocalOrders, ProjectOrder, ReadUnknowns,
      LookupUnknown, ResolveUnknown, FinishReconcile, ReconcileHalt, FailReconcile,
      VenueFailureHalt, ReconcileError, ReconcileReturn, SetRecon
<1>2. WorkerStep => Calls("worker")
  BY DEF WorkerStep, ReceiveIntent, LockSafety, LockLifecycle, PreIntentReconcile,
         CheckHealth, reject_received, BeginValidation, ValidateMarket,
         validate_freshness_and_increments, EvaluateRisk, BeginPreparation,
         PrepareOrder, BeginSubmission, SendToVenue, FinishSubmission, WorkerHalt,
         ReleaseWorker, halt_inner, frames
<1>3. ControlJob => Calls("control")
  BY DEF ControlJob, StartReconcileJob, HeartbeatHalt, StartHaltJob, StartResume,
         CheckResume, CommitResume, Enqueue, EndJob, AbandonResume, SetCancel,
         SetRecon, frames
<1>4. StartupStep \/ ShutdownStep => Calls("main")
  <2>1. \A t \in boot.requests : t \in SUBSET Intents
    BY DEF LocalsOK
  <2>2. QED
    BY <2>1
    DEF StartupStep, ReadPriorState, MarkStartup, fail_interrupted_reconciliations,
        RecoverInterrupted, HaltInterrupted, RecoverWork, RecoverCancellations,
        StartupReconcile, StartupHeartbeat, ReadStartupState, BecomeReady, Enqueue,
        EndStartup, ShutdownStep, BeginShutdown, ShutdownCancel, ShutdownReconcile,
        EndShutdown, SetCancel, halt_inner, frames
<1>5. StartCancellation => Calls("canceller")
  <2>1. \A t \in cancelTasks : t.targets \in SUBSET Intents
    BY DEF SchedOK
  <2>2. QED
    BY <2>1 DEF StartCancellation, SetCancel
<1>6. CASE \/ \E i \in Intents : SubmitIntent(i) \/ VenueStep(i)
           \/ CancelRequest \/ halt_idempotent \/ EndCancellation \/ UNCHANGED vars
  BY <1>6
  DEF SubmitIntent, VenueStep, CancelRequest, halt_idempotent, EndCancellation, vars,
      frames
<1>7. {"worker", "control", "main", "canceller"} \subseteq Procs
  BY DEF Procs
<1>8. QED
  BY <1>1, <1>2, <1>3, <1>4, <1>5, <1>6, <1>7 DEF Next

\* Every step of the coordinator keeps the cancellations well-formed.
LEMMA CancelFramesStep ==
  ASSUME CancelOK, LocalsOK, SchedOK, StoreTypeOK, [Next]_vars
  PROVE  CancelOK'
<1>1. CASE UNCHANGED canc
  BY <1>1 DEF CancelOK
<1>2. ASSUME NEW p \in Procs, CancelStep(p) PROVE CancelOK'
  BY <1>2, CancelStepFrames
<1>3. ASSUME NEW p \in Procs,
             canc' = [canc EXCEPT ![p] = [IdleCancel EXCEPT !.at = "create"]]
      PROVE  CancelOK'
  BY <1>3, CancelUpdate, IdleCancelFrame
<1>4. ASSUME NEW p \in Procs, NEW t \in SUBSET Intents,
             canc' = [canc EXCEPT ![p] =
               [IdleCancel EXCEPT !.at = "next", !.targets = t, !.todo = t]]
      PROVE  CancelOK'
  BY <1>4, CancelUpdate, CancelTargetsFrame
<1>5. CASE Restart
  BY <1>5, IdleCancelFrame DEF Restart, FreshProcess, CancelOK
<1>6. QED
  BY <1>1, <1>2, <1>3, <1>4, <1>5, CancelCallers

\* Writing a well-formed frame keeps the reconciliations well-formed while the
\* journal keeps what the others read.
LEMMA ReconUpdate ==
  ASSUME ReconOK, Kept, NEW p \in Procs, NEW f \in ReconFrame,
         f.at = "resolve" => f.cur \in Intents /\ f.found \in VenueEvidence,
         f.at = "project" => \A i \in f.todo : order'[i] \in SettledOrderState,
         recon' = [recon EXCEPT ![p] = f]
  PROVE  ReconOK'
<1>1. \A q \in Procs : recon[q].todo \subseteq Intents
  BY DEF ReconOK, ReconFrame
<1>2. QED
  BY <1>1 DEF ReconOK, Kept

\* The reconciliations that are open stay well-formed across the writes of other
\* tasks.
LEMMA ReconStays == ASSUME ReconOK, Kept, UNCHANGED recon PROVE ReconOK'
<1>1. \A q \in Procs : recon[q].todo \subseteq Intents
  BY DEF ReconOK, ReconFrame
<1>2. QED
  BY <1>1 DEF ReconOK, Kept

\* The frames of a reconciliation that is idle or has just been called are well-
\* formed.
LEMMA IdleReconFrame ==
  /\ IdleRecon \in ReconFrame /\ IdleRecon.at = "idle"
  /\ \A l \in ReconLabel : /\ [IdleRecon EXCEPT !.at = l] \in ReconFrame
                           /\ [IdleRecon EXCEPT !.at = l].at = l
                           /\ [IdleRecon EXCEPT !.at = l].todo = {}
<1>1. [i \in {} |-> 0] \in OpenSnapshot
  <2>1. [i \in {} |-> 0] \in [{} -> 0..Qty] /\ {} \in SUBSET Intents
    OBVIOUS
  <2>2. QED
    BY <2>1 DEF OpenSnapshot
<1>2. [i \in Intents |-> 0] \in [Intents -> 0..Qty]
  OBVIOUS
<1>3. QED
  BY <1>1, <1>2 DEF IdleRecon, ReconFrame, ReconLabel

\* Calling reconcile_locked keeps the reconciliations well-formed.
LEMMA CallReconcileOK ==
  ASSUME ReconOK, Kept, NEW p \in Procs, CallReconcile(p)
  PROVE  ReconOK'
<1>1. "orders" \in ReconLabel
  BY DEF ReconLabel
<1>2. QED
  BY <1>1, IdleReconFrame, ReconUpdate DEF CallReconcile

\* Every step of reconcile_locked keeps the reconciliations well-formed.
LEMMA ReconcileStepFrames ==
  ASSUME ReconOK, StoreTypeOK, VenueOK, Kept, NEW p \in Procs, ReconcileStep(p)
  PROVE  ReconOK'
<1>0. recon[p] \in ReconFrame
  BY DEF ReconOK
<1>1. CASE FetchOrders(p)
  <2>1. \/ recon' = [recon EXCEPT ![p] = [recon[p] EXCEPT !.at = "fail"]]
        \/ \E bad \in BOOLEAN :
             recon' = [recon EXCEPT ![p] =
               [recon[p] EXCEPT !.at = "read", !.open = OpenAtVenue, !.bad = bad]]
    BY <1>1 DEF FetchOrders, SetRecon, VenueFindings
  <2>2. /\ [recon[p] EXCEPT !.at = "fail"] \in ReconFrame
        /\ [recon[p] EXCEPT !.at = "fail"].at = "fail"
    BY <1>0 DEF ReconFrame, ReconLabel
  <2>3. \A bad \in BOOLEAN :
          LET f == [recon[p] EXCEPT !.at = "read", !.open = OpenAtVenue, !.bad = bad]
          IN f \in ReconFrame /\ f.at = "read"
    BY <1>0, OpenAtVenueType DEF ReconFrame, ReconLabel
  <2>4. QED
    BY <2>1, <2>2, <2>3, ReconUpdate
<1>2. CASE ReadLocalOrders(p)
  <2> DEFINE bad == recon[p].bad
                    \/ {i \in DOMAIN recon[p].open : ~venueOrderId[i]} # {}
             f == [recon[p] EXCEPT !.at = "project", !.trades = TradesAtVenue,
                                   !.todo = reconciliation_orders, !.bad = bad]
  <2>1. recon' = [recon EXCEPT ![p] = f]
    BY <1>2, <1>0 DEF ReadLocalOrders, SetRecon, ReconFrame
  <2>2. TradesAtVenue \in [Intents -> 0..Qty] /\ bad \in BOOLEAN
    BY <1>0 DEF TradesAtVenue, VenueOK, ReconFrame
  <2>3. reconciliation_orders \in SUBSET Intents
    BY DEF reconciliation_orders
  <2> HIDE DEF bad
  <2>4. f \in ReconFrame /\ f.at = "project" /\ f.todo = reconciliation_orders
    BY <1>0, <2>2, <2>3 DEF ReconFrame, ReconLabel
  <2>5. \A i \in reconciliation_orders : order'[i] \in SettledOrderState
    BY DEF reconciliation_orders, Kept, SettledOrderState
  <2>6. QED
    BY <2>1, <2>4, <2>5, ReconUpdate
<1>3. CASE ProjectOrder(p)
  <2>1. PICK i \in recon[p].todo :
          /\ recon[p].at = "project"
          /\ LET rest == [recon[p] EXCEPT !.todo = @ \ {i}] IN
             \/ recon' = [recon EXCEPT ![p] = rest]
             \/ recon' = [recon EXCEPT ![p] = [rest EXCEPT !.bad = TRUE]]
             \/ recon' = [recon EXCEPT ![p] = [rest EXCEPT !.at = "error", !.todo = {}]]
    BY <1>3 DEF ProjectOrder, SetRecon, InRecon
  <2> DEFINE rest == [recon[p] EXCEPT !.todo = @ \ {i}]
  <2>2. /\ rest \in ReconFrame /\ rest.at = "project" /\ rest.todo \subseteq recon[p].todo
        /\ [rest EXCEPT !.bad = TRUE] \in ReconFrame
        /\ [rest EXCEPT !.bad = TRUE].at = "project"
        /\ [rest EXCEPT !.bad = TRUE].todo \subseteq recon[p].todo
        /\ [rest EXCEPT !.at = "error", !.todo = {}] \in ReconFrame
        /\ [rest EXCEPT !.at = "error", !.todo = {}].at = "error"
    BY <1>0, <2>1 DEF ReconFrame, ReconLabel
  <2>3. \A j \in recon[p].todo : order'[j] \in SettledOrderState
    BY <1>0, <2>1 DEF ReconOK, Kept, ReconFrame
  <2> HIDE DEF rest
  <2>4. \/ recon' = [recon EXCEPT ![p] = rest]
        \/ recon' = [recon EXCEPT ![p] = [rest EXCEPT !.bad = TRUE]]
        \/ recon' = [recon EXCEPT ![p] = [rest EXCEPT !.at = "error", !.todo = {}]]
    BY <2>1 DEF rest
  <2>5. QED
    BY <2>2, <2>3, <2>4, ReconUpdate
<1>4. CASE ReadUnknowns(p)
  <2> DEFINE U == {i \in Intents : order[i] = "UNKNOWN"}
             f == [recon[p] EXCEPT !.at = "lookup", !.todo = U]
  <2>1. recon' = [recon EXCEPT ![p] = f]
    BY <1>4 DEF ReadUnknowns, SetRecon
  <2>2. f \in ReconFrame /\ f.at = "lookup"
    BY <1>0 DEF ReconFrame, ReconLabel
  <2>3. QED
    BY <2>1, <2>2, ReconUpdate
<1>5. CASE LookupUnknown(p)
  <2>1. PICK i \in recon[p].todo :
          LET rest == [recon[p] EXCEPT !.todo = @ \ {i}] IN
          /\ recon[p].at = "lookup"
          /\ \/ /\ find_order(i) # NoEvidence
                /\ recon' = [recon EXCEPT ![p] =
                     [rest EXCEPT !.at = "resolve", !.cur = i, !.found = find_order(i)]]
             \/ recon' = [recon EXCEPT ![p] = [rest EXCEPT !.bad = TRUE]]
             \/ recon' = [recon EXCEPT ![p] = [rest EXCEPT !.at = "error", !.todo = {}]]
    BY <1>5 DEF LookupUnknown, SetRecon, InRecon
  <2> DEFINE rest == [recon[p] EXCEPT !.todo = @ \ {i}]
  <2>2. i \in Intents
    BY <1>0, <2>1 DEF ReconFrame
  <2>3. /\ rest \in ReconFrame
        /\ [rest EXCEPT !.bad = TRUE] \in ReconFrame
        /\ [rest EXCEPT !.bad = TRUE].at = "lookup"
        /\ [rest EXCEPT !.at = "error", !.todo = {}] \in ReconFrame
        /\ [rest EXCEPT !.at = "error", !.todo = {}].at = "error"
    BY <1>0, <2>1 DEF ReconFrame, ReconLabel
  <2>4. CASE /\ find_order(i) # NoEvidence
             /\ recon' = [recon EXCEPT ![p] =
                  [rest EXCEPT !.at = "resolve", !.cur = i, !.found = find_order(i)]]
    <3> DEFINE e == find_order(i)
               f == [rest EXCEPT !.at = "resolve", !.cur = i, !.found = e]
    <3>1. e \in VenueEvidence
      BY <2>2, <2>4, FindOrderType
    <3> HIDE DEF e, rest
    <3>2. f \in ReconFrame /\ f.at = "resolve" /\ f.cur = i /\ f.found = e
      BY <2>2, <2>3, <3>1 DEF ReconFrame, ReconLabel
    <3>3. recon' = [recon EXCEPT ![p] = f]
      BY <2>4 DEF e
    <3>4. QED
      BY <2>2, <3>1, <3>2, <3>3, ReconUpdate
  <2>5. QED
    BY <2>1, <2>3, <2>4, ReconUpdate
<1>6. CASE ResolveUnknown(p)
  <2> DEFINE idle == [recon[p] EXCEPT !.cur = NoIntent, !.found = NoEvidence]
  <2>1. \/ recon' = [recon EXCEPT ![p] = [idle EXCEPT !.at = "lookup"]]
        \/ recon' = [recon EXCEPT ![p] = [idle EXCEPT !.at = "error", !.todo = {}]]
    BY <1>6 DEF ResolveUnknown, SetRecon
  <2>2. /\ [idle EXCEPT !.at = "lookup"] \in ReconFrame
        /\ [idle EXCEPT !.at = "lookup"].at = "lookup"
        /\ [idle EXCEPT !.at = "error", !.todo = {}] \in ReconFrame
        /\ [idle EXCEPT !.at = "error", !.todo = {}].at = "error"
    BY <1>0 DEF ReconFrame, ReconLabel
  <2> HIDE DEF idle
  <2>3. QED
    BY <2>1, <2>2, ReconUpdate
<1>7. CASE \/ FinishReconcile(p) \/ ReconcileHalt(p) \/ FailReconcile(p)
           \/ VenueFailureHalt(p) \/ ReconcileError(p)
  <2>1. \/ recon' = [recon EXCEPT ![p] = IdleRecon]
        \/ \E l \in {"halt", "failHalt", "errorHalt"} :
             recon' = [recon EXCEPT ![p] = [IdleRecon EXCEPT !.at = l]]
    BY <1>7
    DEF FinishReconcile, ReconcileHalt, FailReconcile, VenueFailureHalt,
        ReconcileError, ReconcileReturn, SetRecon
  <2>2. {"halt", "failHalt", "errorHalt"} \subseteq ReconLabel
    BY DEF ReconLabel
  <2>3. QED
    BY <2>1, <2>2, IdleReconFrame, ReconUpdate
<1>8. QED
  BY <1>1, <1>2, <1>3, <1>4, <1>5, <1>6, <1>7 DEF ReconcileStep

\* The reconciliation frames change by steps of the routine, by a call and by a
\* reset only.
LEMMA ReconCallers ==
  ASSUME [Next]_vars
  PROVE  \/ UNCHANGED recon \/ Restart
         \/ \E p \in Procs : \/ ReconcileStep(p)
                             \/ CallReconcile(p)
                             \/ recon' = [recon EXCEPT ![p] = IdleRecon]
<1> DEFINE Calls(p) == \/ UNCHANGED recon \/ CallReconcile(p)
                       \/ recon' = [recon EXCEPT ![p] = IdleRecon]
<1>1. ASSUME NEW p \in Procs, CancelStep(p) PROVE Calls(p)
  BY <1>1
  DEF CancelStep, CreateCancellation, ReadTarget, MarkTarget, CancelAtVenue,
      CommitCancelled, finish_cancellation, CancelError, SetCancel
<1>2. WorkerStep => Calls("worker")
  BY DEF WorkerStep, ReceiveIntent, LockSafety, LockLifecycle, PreIntentReconcile,
         CheckHealth, reject_received, BeginValidation, ValidateMarket,
         validate_freshness_and_increments, EvaluateRisk, BeginPreparation,
         PrepareOrder, BeginSubmission, SendToVenue, FinishSubmission, WorkerHalt,
         ReleaseWorker, halt_inner, frames
<1>3. ControlJob => Calls("control")
  BY DEF ControlJob, StartReconcileJob, HeartbeatHalt, StartHaltJob, StartResume,
         CheckResume, CommitResume, Enqueue, EndJob, AbandonResume, SetCancel,
         SetRecon, frames
<1>4. StartupStep \/ ShutdownStep => Calls("main")
  BY DEF StartupStep, ReadPriorState, MarkStartup, fail_interrupted_reconciliations,
         RecoverInterrupted, HaltInterrupted, RecoverWork, RecoverCancellations,
         StartupReconcile, StartupHeartbeat, ReadStartupState, BecomeReady, Enqueue,
         EndStartup, ShutdownStep, BeginShutdown, ShutdownCancel, ShutdownReconcile,
         EndShutdown, SetCancel, halt_inner, frames
<1>5. CASE \/ StartCancellation \/ EndCancellation
           \/ \E i \in Intents : SubmitIntent(i) \/ VenueStep(i)
           \/ CancelRequest \/ halt_idempotent \/ UNCHANGED vars
  BY <1>5
  DEF StartCancellation, EndCancellation, SetCancel, SubmitIntent, VenueStep,
      CancelRequest, halt_idempotent, vars, frames
<1>6. {"worker", "control", "main"} \subseteq Procs
  BY DEF Procs
<1>7. QED
  BY <1>1, <1>2, <1>3, <1>4, <1>5, <1>6 DEF Next

\* Every step of the coordinator keeps the reconciliations well-formed.
LEMMA ReconFramesStep ==
  ASSUME ReconOK, VenueOK, StoreTypeOK, Kept, [Next]_vars
  PROVE  ReconOK'
<1>1. ASSUME NEW p \in Procs, ReconcileStep(p) PROVE ReconOK'
  BY <1>1, ReconcileStepFrames
<1>2. ASSUME NEW p \in Procs, CallReconcile(p) PROVE ReconOK'
  BY <1>2, CallReconcileOK
<1>3. ASSUME NEW p \in Procs, recon' = [recon EXCEPT ![p] = IdleRecon] PROVE ReconOK'
  BY <1>3, IdleReconFrame, ReconUpdate
<1>4. CASE Restart
  BY <1>4, IdleReconFrame DEF Restart, FreshProcess, ReconOK
<1>5. QED
  BY <1>1, <1>2, <1>3, <1>4, ReconStays, ReconCallers

\* Nobody but the worker, and a restart, moves the worker or touches its variables.
LEMMA OnlyWorkerWorks ==
  ASSUME LabelsOK, [Next]_vars, ~WorkerStep, ~Restart
  PROVE  pc'["worker"] = pc["worker"] /\ work' = work
<1>1. ASSUME NEW p \in Procs, ReconcileStep(p) \/ CancelStep(p)
      PROVE  pc'["worker"] = pc["worker"] /\ work' = work
  <2>1. pc' = pc \/ pc' = [pc EXCEPT ![p] = AfterError(pc[p])]
    BY <1>1, RoutineMoves
  <2>2. work' = work
    BY <1>1
    DEF ReconcileStep, FetchOrders, ReadLocalOrders, ProjectOrder, ReadUnknowns,
        LookupUnknown, ResolveUnknown, FinishReconcile, ReconcileHalt, FailReconcile,
        VenueFailureHalt, ReconcileError, CancelStep, CreateCancellation, ReadTarget,
        MarkTarget, CancelAtVenue, CommitCancelled, finish_cancellation, locals
  <2>3. QED
    BY <2>1, <2>2, ErrorLabels DEF LabelsOK, Procs
<1>2. CASE ControlJob
  <2>1. work' = work
    BY <1>2
    DEF ControlJob, StartReconcileJob, HeartbeatHalt, StartHaltJob, StartResume,
        CheckResume, CommitResume, Enqueue, EndJob, AbandonResume, locals
  <2>2. QED
    BY <1>2, <2>1, ControlMoves DEF Moves, LabelsOK, Procs
<1>3. CASE StartupStep \/ ShutdownStep
  <2>1. work' = work
    BY <1>3
    DEF StartupStep, ReadPriorState, MarkStartup, fail_interrupted_reconciliations,
        RecoverInterrupted, HaltInterrupted, RecoverWork, RecoverCancellations,
        StartupReconcile, StartupHeartbeat, ReadStartupState, BecomeReady, Enqueue,
        EndStartup, ShutdownStep, BeginShutdown, ShutdownCancel, ShutdownReconcile,
        EndShutdown, locals
  <2>2. QED
    BY <1>3, <2>1, MainMoves DEF Moves, LabelsOK, Procs
<1>4. CASE \/ StartCancellation \/ EndCancellation
           \/ \E i \in Intents : SubmitIntent(i) \/ VenueStep(i)
           \/ CancelRequest \/ halt_idempotent \/ UNCHANGED vars
  BY <1>4
  DEF StartCancellation, EndCancellation, SubmitIntent, VenueStep, CancelRequest,
      halt_idempotent, vars, locals, Goto, LabelsOK, Procs
<1>5. QED
  BY <1>1, <1>2, <1>3, <1>4 DEF Next

\* The worker's variables keep their type, and it has an intent whenever it is not
\* idle.
LEMMA WorkStep ==
  ASSUME LabelsOK, LocalsOK, SchedOK, [Next]_vars
  PROVE  /\ work' \in [intent : Intents \cup {NoIntent}, reply : ReplyKind, filled : 0..Qty]
         /\ pc'["worker"] # "idle" => work'.intent \in Intents
<1> DEFINE Work == [intent : Intents \cup {NoIntent}, reply : ReplyKind, filled : 0..Qty]
<1>0. work \in Work /\ (pc["worker"] # "idle" => work.intent \in Intents)
  BY DEF LocalsOK
<1>1. CASE ~WorkerStep /\ ~Restart
  BY <1>0, <1>1, OnlyWorkerWorks
<1>2. CASE Restart
  BY <1>2 DEF Restart, FreshProcess, IdleWork, ReplyKind, Accepted, Procs
<1>3. CASE ReceiveIntent
  <2>1. /\ work' = [IdleWork EXCEPT !.intent = Head(queue)] /\ queue # <<>>
        /\ pc' = [pc EXCEPT !["worker"] = "safety"]
    BY <1>3 DEF ReceiveIntent, WorkerGoto, Goto
  <2>2. Head(queue) \in Intents
    BY <2>1 DEF SchedOK
  <2>3. QED
    BY <2>1, <2>2 DEF IdleWork, ReplyKind, Accepted
<1>4. CASE SendToVenue
  <2>1. /\ pc["worker"] = "send"
        /\ \E k \in ReplyKind, m \in 0..Qty :
             work' = [work EXCEPT !.reply = k, !.filled = m]
    <3>1. 0 \in 0..Qty /\ {"malformed", "rejected", "ambiguous"} \subseteq ReplyKind
          /\ Accepted \subseteq ReplyKind
      BY DEF ReplyKind
    <3>2. \/ \E k \in Accepted, m \in 0..Qty :
               work' = [work EXCEPT !.reply = k, !.filled = m]
          \/ \E k \in {"malformed", "rejected", "ambiguous"} :
               work' = [work EXCEPT !.reply = k, !.filled = 0]
      BY <1>4 DEF SendToVenue
    <3>3. pc["worker"] = "send"
      BY <1>4 DEF SendToVenue, WorkerAt, At
    <3>4. QED
      BY <3>1, <3>2, <3>3
  <2>2. QED
    BY <1>0, <2>1
<1>5. CASE FinishSubmission
  <2>1. /\ pc["worker"] = "finish"
        /\ work' = [work EXCEPT !.reply = "none", !.filled = 0]
    BY <1>5 DEF FinishSubmission, WorkerAt, At
  <2>2. "none" \in ReplyKind /\ 0 \in 0..Qty
    BY DEF ReplyKind
  <2>3. QED
    BY <1>0, <2>1, <2>2
<1>6. CASE ReleaseWorker
  <2>1. work' = IdleWork /\ pc' = [pc EXCEPT !["worker"] = "idle"]
    BY <1>6 DEF ReleaseWorker, WorkerGoto, Goto
  <2>2. QED
    BY <2>1 DEF IdleWork, ReplyKind, Accepted, LabelsOK, Procs
<1>7. CASE WorkerStep /\ ~(ReceiveIntent \/ SendToVenue \/ FinishSubmission \/ ReleaseWorker)
  <2>1. work' = work /\ pc["worker"] # "idle"
    BY <1>7
    DEF WorkerStep, LockSafety, LockLifecycle, PreIntentReconcile, CheckHealth,
        reject_received, BeginValidation, ValidateMarket,
        validate_freshness_and_increments, EvaluateRisk, BeginPreparation,
        PrepareOrder, BeginSubmission, WorkerHalt, WorkerAt, At, locals
  <2>2. QED
    BY <1>0, <2>1
<1>8. QED
  BY <1>1, <1>2, <1>3, <1>4, <1>5, <1>6, <1>7

\* Every step keeps the local variables of the tasks well-formed.
LEMMA LocalsStep ==
  ASSUME LabelsOK, LocalsOK, SchedOK, StoreTypeOK, [Next]_vars
  PROVE  LocalsOK'
<1> DEFINE Boot == [prior : ServiceState, requests : SUBSET SUBSET Intents]
           Todo == [{"main", "control"} -> SUBSET Intents]
<1>0. /\ boot \in Boot /\ todo \in Todo /\ readRevision \in 0..MaxRevision
      /\ deferred \subseteq Intents /\ pendingCancels \subseteq SUBSET Intents
      /\ control \in ServiceState /\ revision \in 0..MaxRevision
  BY DEF LocalsOK, SchedOK, StoreTypeOK
<1>1. boot' \in Boot /\ todo' \in Todo /\ readRevision' \in 0..MaxRevision
  <2>1. ASSUME NEW p \in Procs, ReconcileStep(p) \/ CancelStep(p)
        PROVE  UNCHANGED <<boot, todo, readRevision>>
    BY <2>1
    DEF ReconcileStep, FetchOrders, ReadLocalOrders, ProjectOrder, ReadUnknowns,
        LookupUnknown, ResolveUnknown, FinishReconcile, ReconcileHalt, FailReconcile,
        VenueFailureHalt, ReconcileError, CancelStep, CreateCancellation, ReadTarget,
        MarkTarget, CancelAtVenue, CommitCancelled, finish_cancellation, locals
  <2>2. CASE WorkerStep
    <3>1. UNCHANGED <<boot, todo, readRevision>>
      BY <2>2
      DEF WorkerStep, ReceiveIntent, LockSafety, LockLifecycle, PreIntentReconcile,
          CheckHealth, reject_received, BeginValidation, ValidateMarket,
          validate_freshness_and_increments, EvaluateRisk, BeginPreparation,
          PrepareOrder, BeginSubmission, SendToVenue, FinishSubmission, WorkerHalt,
          ReleaseWorker, locals
    <3>2. QED
      BY <1>0, <3>1
  <2>3. CASE \/ StartCancellation \/ EndCancellation
             \/ \E i \in Intents : SubmitIntent(i) \/ VenueStep(i)
             \/ CancelRequest \/ halt_idempotent \/ UNCHANGED vars
    BY <1>0, <2>3
    DEF StartCancellation, EndCancellation, SubmitIntent, VenueStep, CancelRequest,
        halt_idempotent, vars, locals
  <2>4. CASE \/ StartReconcileJob \/ HeartbeatHalt \/ StartHaltJob \/ CheckResume
             \/ StartResume \/ EndJob
    <3>1. UNCHANGED <<boot, todo>> /\ readRevision' \in {readRevision, revision, 0}
      BY <2>4
      DEF StartReconcileJob, HeartbeatHalt, StartHaltJob, CheckResume, StartResume,
          EndJob, locals
    <3>2. QED
      BY <1>0, <3>1
  <2>5. CASE CommitResume
    BY <1>0, <2>5 DEF CommitResume
  <2>6. ASSUME NEW p \in {"main", "control"}, Enqueue(p)
        PROVE  boot' \in Boot /\ todo' \in Todo /\ readRevision' \in 0..MaxRevision
    BY <1>0, <2>6 DEF Enqueue
  <2>7. CASE AbandonResume
    BY <1>0, <2>7 DEF AbandonResume
  <2>8. CASE ReadPriorState \/ MarkStartup \/ RecoverCancellations \/ EndStartup
    <3>1. UNCHANGED <<todo, readRevision>>
      BY <2>8
      DEF ReadPriorState, MarkStartup, RecoverCancellations, EndStartup
    <3>2. \/ boot' = boot
          \/ \E s \in ServiceState : boot' = [boot EXCEPT !.prior = s]
          \/ \E t \in boot.requests : boot' = [boot EXCEPT !.requests = @ \ {t}]
          \/ boot' = IdleBoot
      BY <1>0, <2>8
      DEF ReadPriorState, MarkStartup, RecoverCancellations, EndStartup, ServiceState
    <3>3. QED
      BY <1>0, <3>1, <3>2 DEF IdleBoot, ServiceState
  <2>9. CASE RecoverWork
    BY <1>0, <2>9 DEF RecoverWork, Recoverable
  <2>10. CASE ReadStartupState
    BY <1>0, <2>10 DEF ReadStartupState
  <2>11. CASE \/ fail_interrupted_reconciliations \/ RecoverInterrupted
              \/ HaltInterrupted \/ StartupReconcile \/ StartupHeartbeat
              \/ BecomeReady \/ ShutdownStep
    BY <1>0, <2>11
    DEF fail_interrupted_reconciliations, RecoverInterrupted, HaltInterrupted,
        StartupReconcile, StartupHeartbeat, BecomeReady, ShutdownStep, BeginShutdown,
        ShutdownCancel, ShutdownReconcile, EndShutdown, locals
  <2>12. CASE Restart
    BY <1>0, <2>12 DEF Restart, FreshProcess, IdleBoot, ServiceState
  <2>13. QED
    BY <1>0, <2>1, <2>2, <2>3, <2>4, <2>5, <2>6, <2>7, <2>8, <2>9, <2>10, <2>11, <2>12
    DEF Next, ControlJob, StartupStep
<1>2. QED
  BY <1>1, WorkStep DEF LocalsOK

\* The gates are free or held by a task.
GatesOK == {safetyGate, lifecycleGate} \subseteq Procs \cup {"free"}

\* Every step leaves the gates free or held by a task.
LEMMA GatesStep == ASSUME SchedOK, [Next]_vars PROVE GatesOK'
<1>0. GatesOK
  BY DEF SchedOK, GatesOK
<1>1. /\ safetyGate' \in {safetyGate, "free", "main", "worker", "control"}
      /\ lifecycleGate' \in {lifecycleGate, "free", "main", "worker", "canceller"}
  <2>1. ASSUME NEW p \in Procs, ReconcileStep(p) \/ CancelStep(p)
        PROVE  UNCHANGED gates
    BY <2>1
    DEF ReconcileStep, FetchOrders, ReadLocalOrders, ProjectOrder, ReadUnknowns,
        LookupUnknown, ResolveUnknown, FinishReconcile, ReconcileHalt, FailReconcile,
        VenueFailureHalt, ReconcileError, CancelStep, CreateCancellation, ReadTarget,
        MarkTarget, CancelAtVenue, CommitCancelled, finish_cancellation
  <2>2. CASE WorkerStep
    BY <2>2
    DEF WorkerStep, ReceiveIntent, LockSafety, LockLifecycle, PreIntentReconcile,
        CheckHealth, reject_received, BeginValidation, ValidateMarket,
        validate_freshness_and_increments, EvaluateRisk, BeginPreparation,
        PrepareOrder, BeginSubmission, SendToVenue, FinishSubmission, WorkerHalt,
        ReleaseWorker, gates
  <2>3. CASE ControlJob
    BY <2>3
    DEF ControlJob, StartReconcileJob, HeartbeatHalt, StartHaltJob, StartResume,
        CheckResume, CommitResume, Enqueue, EndJob, AbandonResume, gates
  <2>4. CASE StartupStep \/ ShutdownStep
    BY <2>4
    DEF StartupStep, ReadPriorState, MarkStartup, fail_interrupted_reconciliations,
        RecoverInterrupted, HaltInterrupted, RecoverWork, RecoverCancellations,
        StartupReconcile, StartupHeartbeat, ReadStartupState, BecomeReady, Enqueue,
        EndStartup, ShutdownStep, BeginShutdown, ShutdownCancel, ShutdownReconcile,
        EndShutdown, gates
  <2>5. CASE \/ StartCancellation \/ EndCancellation
             \/ \E i \in Intents : SubmitIntent(i) \/ VenueStep(i)
             \/ CancelRequest \/ halt_idempotent \/ UNCHANGED vars
    BY <2>5
    DEF StartCancellation, EndCancellation, SubmitIntent, VenueStep, CancelRequest,
        halt_idempotent, vars, gates
  <2>6. CASE Restart
    BY <2>6 DEF Restart, FreshProcess
  <2>7. QED
    BY <2>1, <2>2, <2>3, <2>4, <2>5, <2>6 DEF Next, gates
<1>2. QED
  BY <1>0, <1>1 DEF GatesOK, Procs

\* The queue never exceeds its capacity: the worker takes from it, and a send waits
\* for or reserves a slot.
LEMMA QueueStep ==
  ASSUME SchedOK, LocalsOK, [Next]_vars
  PROVE  queue' \in Seq(Intents) /\ Len(queue') <= QueueCapacity
<1>0. /\ queue \in Seq(Intents) /\ Len(queue) <= QueueCapacity
      /\ QueueCapacity \in Nat
  BY QueueAssumption DEF SchedOK
<1>1. ASSUME NEW i \in Intents, Len(queue) < QueueCapacity, queue' = Append(queue, i)
      PROVE  queue' \in Seq(Intents) /\ Len(queue') <= QueueCapacity
  BY <1>0, <1>1
<1>2. CASE ReceiveIntent
  BY <1>0, <1>2 DEF ReceiveIntent
<1>3. ASSUME NEW p \in {"main", "control"}, Enqueue(p)
      PROVE  queue' \in Seq(Intents) /\ Len(queue') <= QueueCapacity
  <2>1. todo[p] \subseteq Intents
    BY DEF LocalsOK
  <2>2. \/ UNCHANGED queue
        \/ \E i \in todo[p] : Len(queue) < QueueCapacity /\ queue' = Append(queue, i)
    BY <1>3 DEF Enqueue
  <2>3. QED
    BY <1>0, <1>1, <2>1, <2>2
<1>4. ASSUME NEW i \in Intents, SubmitIntent(i)
      PROVE  queue' \in Seq(Intents) /\ Len(queue') <= QueueCapacity
  BY <1>1, <1>4 DEF SubmitIntent
<1>5. CASE Restart
  <2>1. queue' = <<>>
    BY <1>5 DEF Restart, FreshProcess
  <2>2. QED
    BY <1>0, <2>1
<1>6. ASSUME NEW p \in Procs, ReconcileStep(p) \/ CancelStep(p)
      PROVE  UNCHANGED queue
  BY <1>6
  DEF ReconcileStep, FetchOrders, ReadLocalOrders, ProjectOrder, ReadUnknowns,
      LookupUnknown, ResolveUnknown, FinishReconcile, ReconcileHalt, FailReconcile,
      VenueFailureHalt, ReconcileError, CancelStep, CreateCancellation, ReadTarget,
      MarkTarget, CancelAtVenue, CommitCancelled, finish_cancellation, sched
<1>7. CASE WorkerStep /\ ~ReceiveIntent
  <2>1. UNCHANGED queue
    BY <1>7
    DEF WorkerStep, LockSafety, LockLifecycle, PreIntentReconcile,
        CheckHealth, reject_received, BeginValidation, ValidateMarket,
        validate_freshness_and_increments, EvaluateRisk, BeginPreparation,
        PrepareOrder, BeginSubmission, SendToVenue, FinishSubmission, WorkerHalt,
        ReleaseWorker, sched
  <2>2. QED
    BY <1>0, <2>1
<1>8. CASE ControlJob /\ ~Enqueue("control")
  <2>1. UNCHANGED queue
    BY <1>8
    DEF ControlJob, StartReconcileJob, HeartbeatHalt, StartHaltJob, StartResume,
        CheckResume, CommitResume, EndJob, AbandonResume, sched
  <2>2. QED
    BY <1>0, <2>1
<1>9. CASE (StartupStep /\ ~Enqueue("main")) \/ ShutdownStep
  <2>1. UNCHANGED queue
    BY <1>9
    DEF StartupStep, ReadPriorState, MarkStartup, fail_interrupted_reconciliations,
        RecoverInterrupted, HaltInterrupted, RecoverWork, RecoverCancellations,
        StartupReconcile, StartupHeartbeat, ReadStartupState, BecomeReady,
        EndStartup, ShutdownStep, BeginShutdown, ShutdownCancel, ShutdownReconcile,
        EndShutdown, sched
  <2>2. QED
    BY <1>0, <2>1
<1>10. CASE \/ StartCancellation \/ EndCancellation
            \/ \E i \in Intents : VenueStep(i)
            \/ CancelRequest \/ halt_idempotent \/ UNCHANGED vars
  BY <1>0, <1>10
  DEF StartCancellation, EndCancellation, VenueStep, CancelRequest,
      halt_idempotent, vars, sched
<1>11. QED
  BY <1>0, <1>2, <1>3, <1>4, <1>5, <1>6, <1>7, <1>8, <1>9, <1>10 DEF Next

\* A cancellation that was spawned and has not started.
CancelTask == [all : BOOLEAN, targets : SUBSET Intents]

\* Deferred work, spawned and pending cancellations and the heartbeat keep their
\* types.
LEMMA PendingStep ==
  ASSUME SchedOK, LocalsOK, CancelOK, [Next]_vars
  PROVE  /\ deferred' \subseteq Intents
         /\ cancelTasks' \subseteq CancelTask
         /\ heartbeat' \in {"beating", "halted", "cancelled"}
         /\ pendingCancels' \subseteq SUBSET Intents
<1> DEFINE G == /\ deferred' \subseteq Intents
                /\ cancelTasks' \subseteq CancelTask
                /\ heartbeat' \in {"beating", "halted", "cancelled"}
                /\ pendingCancels' \subseteq SUBSET Intents
<1>0. /\ deferred \subseteq Intents
      /\ cancelTasks \subseteq CancelTask
      /\ heartbeat \in {"beating", "halted", "cancelled"}
      /\ pendingCancels \subseteq SUBSET Intents
  BY DEF SchedOK, CancelTask
<1>1. Protective \in CancelTask
  BY DEF Protective, CancelTask
<1>2. ASSUME NEW p \in Procs, ReconcileStep(p) PROVE G
  <2>1. /\ UNCHANGED <<deferred, heartbeat, pendingCancels>>
        /\ cancelTasks' \in {cancelTasks, cancelTasks \cup {Protective}}
    BY <1>2
    DEF ReconcileStep, FetchOrders, ReadLocalOrders, ProjectOrder, ReadUnknowns,
        LookupUnknown, ResolveUnknown, FinishReconcile, ReconcileHalt, FailReconcile,
        VenueFailureHalt, ReconcileError, spawn_protective_cancellation, sched, durable
  <2>2. QED
    BY <1>0, <1>1, <2>1
<1>3. ASSUME NEW p \in Procs, CancelStep(p) PROVE G
  <2>1. /\ UNCHANGED <<deferred, heartbeat, cancelTasks>>
        /\ \/ UNCHANGED pendingCancels
           \/ pendingCancels' = pendingCancels \cup ({OpenOrders} \ {{}})
           \/ pendingCancels' = pendingCancels \ {canc[p].targets}
    BY <1>3
    DEF CancelStep, CreateCancellation, ReadTarget, MarkTarget, CancelAtVenue,
        CommitCancelled, finish_cancellation, sched, durable
  <2>2. OpenOrders \subseteq Intents
    BY DEF OpenOrders
  <2>3. QED
    BY <1>0, <2>1, <2>2
<1>4. CASE WorkerStep
  <2>1. /\ UNCHANGED <<heartbeat, cancelTasks, pendingCancels>>
        /\ \/ UNCHANGED deferred
           \/ pc["worker"] # "idle" /\ deferred' = deferred \cup {work.intent}
    BY <1>4
    DEF WorkerStep, ReceiveIntent, LockSafety, LockLifecycle, PreIntentReconcile,
        CheckHealth, reject_received, BeginValidation, ValidateMarket,
        validate_freshness_and_increments, EvaluateRisk, BeginPreparation,
        PrepareOrder, BeginSubmission, SendToVenue, FinishSubmission, WorkerHalt,
        ReleaseWorker, WorkerAt, At, sched, durable
  <2>2. QED
    BY <1>0, <2>1 DEF LocalsOK
<1>5. CASE ControlJob
  <2>1. /\ UNCHANGED <<cancelTasks, pendingCancels>>
        /\ deferred' \in {deferred, {}}
        /\ heartbeat' \in {heartbeat, "beating", "halted", "cancelled"}
    BY <1>5
    DEF ControlJob, StartReconcileJob, HeartbeatHalt, StartHaltJob, StartResume,
        CheckResume, CommitResume, Enqueue, EndJob, AbandonResume, sched, durable
  <2>2. QED
    BY <1>0, <2>1
<1>6. CASE StartupStep \/ ShutdownStep
  <2>1. /\ UNCHANGED <<heartbeat, cancelTasks, pendingCancels>>
        /\ deferred' \in {deferred, todo["main"]}
    BY <1>6
    DEF StartupStep, ReadPriorState, MarkStartup, fail_interrupted_reconciliations,
        RecoverInterrupted, HaltInterrupted, RecoverWork, RecoverCancellations,
        StartupReconcile, StartupHeartbeat, ReadStartupState, BecomeReady, Enqueue,
        EndStartup, ShutdownStep, BeginShutdown, ShutdownCancel, ShutdownReconcile,
        EndShutdown, sched, durable
  <2>2. todo["main"] \subseteq Intents
    BY DEF LocalsOK
  <2>3. QED
    BY <1>0, <2>1, <2>2
<1>7. CASE \/ StartCancellation \/ EndCancellation
           \/ \E i \in Intents : SubmitIntent(i) \/ VenueStep(i)
           \/ halt_idempotent \/ UNCHANGED vars
  <2>1. /\ UNCHANGED <<deferred, heartbeat, pendingCancels>>
        /\ \/ cancelTasks' \in {cancelTasks, cancelTasks \cup {Protective}}
           \/ \E t \in cancelTasks : cancelTasks' = cancelTasks \ {t}
    BY <1>7
    DEF StartCancellation, EndCancellation, SubmitIntent, VenueStep, halt_idempotent,
        spawn_protective_cancellation, vars, sched, durable
  <2>2. QED
    BY <1>0, <1>1, <2>1
<1>8. CASE CancelRequest
  <2>1. /\ UNCHANGED <<deferred, heartbeat>>
        /\ \E t \in SUBSET Intents :
             /\ pendingCancels' = pendingCancels \cup {t}
             /\ cancelTasks' = cancelTasks \cup {[all |-> FALSE, targets |-> t]}
    BY <1>8 DEF CancelRequest, OpenOrders
  <2>2. \A t \in SUBSET Intents : [all |-> FALSE, targets |-> t] \in CancelTask
    BY DEF CancelTask
  <2>3. QED
    BY <1>0, <2>1, <2>2
<1>9. CASE Restart
  BY <1>0, <1>9 DEF Restart, FreshProcess
<1>10. QED
  BY <1>2, <1>3, <1>4, <1>5, <1>6, <1>7, <1>8, <1>9 DEF Next

\* The findings keep their types.
LEMMA FindingsStep ==
  ASSUME SchedOK, [Next]_vars
  PROVE  critical' \in BOOLEAN /\ orphanRuns' \in BOOLEAN
<1>0. critical \in BOOLEAN /\ orphanRuns \in BOOLEAN
  BY DEF SchedOK
<1>1. ASSUME NEW p \in Procs, ReconcileStep(p)
      PROVE  critical' \in BOOLEAN /\ orphanRuns' = orphanRuns
  BY <1>0, <1>1
  DEF ReconcileStep, FetchOrders, ReadLocalOrders, ProjectOrder, ReadUnknowns,
      LookupUnknown, ResolveUnknown, FinishReconcile, ReconcileHalt, FailReconcile,
      VenueFailureHalt, ReconcileError, durable
<1>2. ASSUME NEW p \in Procs, CancelStep(p)
      PROVE  UNCHANGED <<critical, orphanRuns>>
  BY <1>2
  DEF CancelStep, CreateCancellation, ReadTarget, MarkTarget, CancelAtVenue,
      CommitCancelled, finish_cancellation, durable
<1>3. CASE WorkerStep
  BY <1>0, <1>3
  DEF WorkerStep, ReceiveIntent, LockSafety, LockLifecycle, PreIntentReconcile,
      CheckHealth, reject_received, BeginValidation, ValidateMarket,
      validate_freshness_and_increments, EvaluateRisk, BeginPreparation,
      PrepareOrder, BeginSubmission, SendToVenue, FinishSubmission, WorkerHalt,
      ReleaseWorker, durable
<1>4. CASE ControlJob
  BY <1>0, <1>4
  DEF ControlJob, StartReconcileJob, HeartbeatHalt, StartHaltJob, StartResume,
      CheckResume, CommitResume, Enqueue, EndJob, AbandonResume, durable
<1>5. CASE StartupStep \/ ShutdownStep
  BY <1>0, <1>5
  DEF StartupStep, ReadPriorState, MarkStartup, fail_interrupted_reconciliations,
      RecoverInterrupted, HaltInterrupted, RecoverWork, RecoverCancellations,
      StartupReconcile, StartupHeartbeat, ReadStartupState, BecomeReady, Enqueue,
      EndStartup, ShutdownStep, BeginShutdown, ShutdownCancel, ShutdownReconcile,
      EndShutdown, durable
<1>6. CASE \/ StartCancellation \/ EndCancellation
           \/ \E i \in Intents : SubmitIntent(i) \/ VenueStep(i)
           \/ CancelRequest \/ halt_idempotent \/ UNCHANGED vars \/ Restart
  BY <1>0, <1>6
  DEF StartCancellation, EndCancellation, SubmitIntent, VenueStep, CancelRequest,
      halt_idempotent, Restart, vars, durable
<1>7. QED
  BY <1>0, <1>1, <1>2, <1>3, <1>4, <1>5, <1>6 DEF Next

\* Every step keeps the shared scheduling state well-formed.
LEMMA SchedStep ==
  ASSUME SchedOK, LocalsOK, CancelOK, [Next]_vars
  PROVE  SchedOK'
  BY GatesStep, QueueStep, PendingStep, FindingsStep DEF SchedOK, GatesOK, CancelTask

\* The states of an order at the venue.
VenueState == {"none", "inflight", "LIVE", "FILLED", "CANCELLED"}

\* What a step other than a submission may do to the order of an intent.
VenueMove(i) ==
  \/ venue'[i] = venue[i] /\ matched'[i] = matched[i]
  \/ /\ venue[i] = "inflight" /\ venue'[i] \in {"LIVE", "none"}
     /\ matched'[i] = matched[i]
  \/ /\ venue[i] = "LIVE"
     /\ matched'[i] = matched[i] + 1
     /\ venue'[i] = IF matched'[i] = Qty THEN "FILLED" ELSE "LIVE"
  \/ /\ venue[i] = "LIVE" /\ venue'[i] = "CANCELLED"
     /\ matched'[i] = matched[i]

\* VenueMoves: only a submission creates an order at the venue; every other step moves
\* the orders that are there forward.
LEMMA VenueMoves ==
  ASSUME CoordInv, [Next]_vars, ~SendToVenue
  PROVE  /\ sends' = sends
         /\ venue' \in [Intents -> VenueState]
         /\ matched' \in [Intents -> Nat]
         /\ \A i \in Intents : VenueMove(i)
<1> DEFINE G == /\ sends' = sends
                /\ venue' \in [Intents -> VenueState]
                /\ matched' \in [Intents -> Nat]
                /\ \A i \in Intents : VenueMove(i)
<1>0. venue \in [Intents -> VenueState] /\ matched \in [Intents -> 0..Qty]
  BY DEF CoordInv, VenueOK, VenueState
<1>1. ASSUME UNCHANGED <<sends, venue, matched>> PROVE G
  BY <1>0, <1>1 DEF VenueMove
<1>2. ASSUME NEW p \in Procs, ReconcileStep(p) PROVE G
  <2>1. CASE ReadLocalOrders(p)
    BY <1>0, <2>1 DEF ReadLocalOrders, history, VenueMove, VenueState
  <2>2. CASE ~ReadLocalOrders(p)
    <3>1. UNCHANGED <<sends, venue, matched>>
      BY <1>2, <2>2
      DEF ReconcileStep, FetchOrders, ProjectOrder, ReadUnknowns,
          LookupUnknown, ResolveUnknown, FinishReconcile, ReconcileHalt, FailReconcile,
          VenueFailureHalt, ReconcileError, LatchHalt, venueVars, history
    <3>2. QED
      BY <1>1, <3>1
  <2>3. QED
    BY <2>1, <2>2
<1>3. ASSUME NEW p \in Procs, CancelStep(p) PROVE G
  <2>1. CASE CancelAtVenue(p)
    <3>1. canc[p].cur \in Intents
      BY <2>1 DEF CancelAtVenue, InCancel, CoordInv, CancelOK
    <3>2. QED
      BY <1>0, <2>1, <3>1 DEF CancelAtVenue, history, VenueMove, VenueState
  <2>2. CASE ~CancelAtVenue(p)
    <3>1. UNCHANGED <<sends, venue, matched>>
      BY <1>3, <2>2
      DEF CancelStep, CreateCancellation, ReadTarget, MarkTarget,
          CommitCancelled, finish_cancellation, venueVars, history
    <3>2. QED
      BY <1>1, <3>1
  <2>3. QED
    BY <2>1, <2>2
<1>4. CASE WorkerStep
  <2>1. UNCHANGED <<sends, venue, matched>>
    BY <1>4
    DEF WorkerStep, ReceiveIntent, LockSafety, LockLifecycle, PreIntentReconcile,
        CheckHealth, reject_received, BeginValidation, ValidateMarket,
        validate_freshness_and_increments, EvaluateRisk, BeginPreparation,
        PrepareOrder, BeginSubmission, FinishSubmission, WorkerHalt,
        ReleaseWorker, halt_inner, LatchHalt, venueVars, history
  <2>2. QED
    BY <1>1, <2>1
<1>5. CASE ControlJob
  <2>1. UNCHANGED <<sends, venue, matched>>
    BY <1>5
    DEF ControlJob, StartReconcileJob, HeartbeatHalt, StartHaltJob, StartResume,
        CheckResume, CommitResume, Enqueue, EndJob, AbandonResume, LatchHalt,
        venueVars, history
  <2>2. QED
    BY <1>1, <2>1
<1>6. CASE StartupStep \/ ShutdownStep
  <2>1. UNCHANGED <<sends, venue, matched>>
    BY <1>6
    DEF StartupStep, ReadPriorState, MarkStartup, fail_interrupted_reconciliations,
        RecoverInterrupted, HaltInterrupted, RecoverWork, RecoverCancellations,
        StartupReconcile, StartupHeartbeat, ReadStartupState, BecomeReady, Enqueue,
        EndStartup, ShutdownStep, BeginShutdown, ShutdownCancel, ShutdownReconcile,
        EndShutdown, halt_inner, LatchHalt, venueVars, history
  <2>2. QED
    BY <1>1, <2>1
<1>7. CASE \/ StartCancellation \/ EndCancellation
           \/ \E j \in Intents : SubmitIntent(j)
           \/ CancelRequest \/ halt_idempotent \/ UNCHANGED vars \/ Restart
  <2>1. UNCHANGED <<sends, venue, matched>>
    BY <1>7
    DEF StartCancellation, EndCancellation, SubmitIntent, CancelRequest,
        halt_idempotent, LatchHalt, Restart, vars, venueVars, history
  <2>2. QED
    BY <1>1, <2>1
<1>8. ASSUME NEW j \in Intents, VenueStep(j) PROVE G
  BY <1>0, <1>8 DEF VenueStep, history, VenueMove, VenueState
<1>9. QED
  BY <1>2, <1>3, <1>4, <1>5, <1>6, <1>7, <1>8 DEF Next

\* A worker comes to the send from begin_submission only.
LEMMA SendFollowsBegin ==
  ASSUME CoordInv, [Next]_vars, pc'["worker"] = "send", pc["worker"] # "send"
  PROVE  BeginSubmission /\ begin_submission(work.intent) /\ work' = work
<1>1. WorkerStep
  <2>1. ~Restart
    BY DEF Restart, FreshProcess, Procs
  <2>2. QED
    BY <2>1, OnlyWorkerWorks DEF CoordInv
<1>2. BeginSubmission
  BY <1>1
  DEF WorkerStep, ReceiveIntent, LockSafety, LockLifecycle, PreIntentReconcile,
      CheckHealth, reject_received, BeginValidation, ValidateMarket,
      validate_freshness_and_increments, EvaluateRisk, BeginPreparation,
      PrepareOrder, BeginSubmission, SendToVenue, FinishSubmission, WorkerHalt,
      ReleaseWorker, WorkerGoto, AfterVenueError, Goto, CoordInv, LabelsOK, Procs
<1>3. QED
  BY <1>2
  DEF BeginSubmission, WorkerGoto, Goto, locals, CoordInv, LabelsOK, Procs

\* Every step keeps the venue consistent with the journal: a send is the only step
\* that adds one, and it needs the state that begin_submission wrote.
LEMMA VenueInvStep ==
  ASSUME CoordInv, Kept, [Next]_vars
  PROVE  VenueOK'
<1>0. VenueOK /\ LabelsOK /\ LocalsOK
  BY DEF CoordInv
<1>1. CASE SendToVenue
  <2> DEFINE i == work.intent
  <2>1. /\ pc["worker"] = "send" /\ i \in Intents /\ sends[i] = 0 /\ venue[i] = "none"
        /\ matched[i] = 0 /\ intent[i] \in SentIntentState
    BY <1>0, <1>1 DEF SendToVenue, WorkerAt, At, VenueOK, LocalsOK
  <2>2. /\ sends' = [sends EXCEPT ![i] = 1]
        /\ pc' = [pc EXCEPT !["worker"] = "finish"]
        /\ UNCHANGED intent
    <3>1. sends' = [sends EXCEPT ![i] = sends[i] + 1]
      BY <1>1 DEF SendToVenue
    <3>2. pc' = [pc EXCEPT !["worker"] = "finish"]
      BY <1>1 DEF SendToVenue, WorkerGoto, Goto
    <3>3. UNCHANGED intent
      BY <1>1 DEF SendToVenue, storeVars
    <3>4. QED
      BY <2>1, <3>1, <3>2, <3>3
  <2>3. \/ \E m \in 0..Qty, s \in Accepted :
             /\ (s = "FILLED") = (m = Qty)
             /\ venue' = [venue EXCEPT ![i] = s]
             /\ matched' = [matched EXCEPT ![i] = m]
        \/ UNCHANGED venueVars
        \/ venue' = [venue EXCEPT ![i] = "inflight"] /\ UNCHANGED matched
    BY <1>1 DEF SendToVenue
  <2> HIDE DEF i
  <2>4. pc'["worker"] = "finish"
    BY <1>0, <2>2 DEF LabelsOK, Procs
  <2>5. /\ venue' \in [Intents -> {"none", "inflight", "LIVE", "FILLED", "CANCELLED"}]
        /\ matched' \in [Intents -> 0..Qty]
        /\ sends' \in [Intents -> 0..1]
    BY <1>0, <2>1, <2>2, <2>3 DEF VenueOK, Accepted, venueVars
  <2>6. ASSUME NEW j \in Intents
        PROVE  /\ intent'[j] \notin SentIntentState => sends'[j] = 0
               /\ sends'[j] = 0 => venue'[j] = "none"
               /\ venue'[j] \in {"none", "inflight"} => matched'[j] = 0
               /\ venue'[j] = "LIVE" => matched'[j] < Qty
    BY <1>0, <2>1, <2>2, <2>3 DEF VenueOK, Accepted, venueVars
  <2>7. QED
    BY <2>4, <2>5, <2>6 DEF VenueOK
<1>2. CASE ~SendToVenue
  <2>1. /\ sends' = sends
        /\ venue' \in [Intents -> VenueState]
        /\ matched' \in [Intents -> Nat]
        /\ \A j \in Intents : VenueMove(j)
    BY <1>2, VenueMoves
  <2>2. ASSUME NEW j \in Intents
        PROVE  /\ matched'[j] \in 0..Qty
               /\ intent'[j] \notin SentIntentState => sends'[j] = 0
               /\ sends'[j] = 0 => venue'[j] = "none"
               /\ venue'[j] \in {"none", "inflight"} => matched'[j] = 0
               /\ venue'[j] = "LIVE" => matched'[j] < Qty
    BY <1>0, <2>1 DEF VenueOK, VenueMove, Kept
  <2>3. ASSUME pc'["worker"] = "send"
        PROVE  /\ work'.intent \in Intents
               /\ sends[work'.intent] = 0 /\ intent'[work'.intent] \in SentIntentState
    <3>1. CASE pc["worker"] = "send"
      <4>1. ~Restart
        BY <2>3 DEF Restart, FreshProcess, Procs
      <4>2. ~WorkerStep
        BY <1>0, <1>2, <2>3, <3>1
        DEF WorkerStep, ReceiveIntent, LockSafety, LockLifecycle, PreIntentReconcile,
            CheckHealth, reject_received, BeginValidation, ValidateMarket,
            validate_freshness_and_increments, EvaluateRisk, BeginPreparation,
            PrepareOrder, BeginSubmission, FinishSubmission, WorkerHalt,
            ReleaseWorker, WorkerAt, At
      <4>3. work' = work
        BY <1>0, <4>1, <4>2, OnlyWorkerWorks
      <4>4. QED
        BY <1>0, <3>1, <4>3 DEF VenueOK, LocalsOK, Kept
    <3>2. CASE pc["worker"] # "send"
      <4>1. BeginSubmission /\ begin_submission(work.intent) /\ work' = work
        BY <2>3, <3>2, SendFollowsBegin
      <4>2. work.intent \in Intents
        BY <1>0, <4>1 DEF BeginSubmission, WorkerAt, At, LocalsOK
      <4>3. intent[work.intent] = "PREPARED" /\ intent'[work.intent] = "SUBMITTING"
        BY <4>1, <4>2 DEF begin_submission, CoordInv, StoreInv, StoreTypeOK
      <4>4. QED
        BY <1>0, <4>1, <4>2, <4>3 DEF VenueOK, SentIntentState
    <3>3. QED
      BY <3>1, <3>2
  <2>4. QED
    BY <1>0, <2>1, <2>2, <2>3 DEF VenueOK, VenueState
<1>3. QED
  BY <1>1, <1>2
-----------------------------------------------------------------------------
\* JournalReconciles: every write of the reconciliation routine is a step of the
\* journal. A projection is applied to an order that was active when it was read, and
\* the journal never leaves such a state except for a terminal one (ReconOK).
LEMMA JournalReconciles ==
  ASSUME CoordInv, NEW p \in Procs, ReconcileStep(p)
  PROVE  [StoreNext]_storeVars
<1>0. VenueOK /\ ReconOK /\ StoreInv
  BY DEF CoordInv
<1>1. ASSUME set_service_state("HALTED") PROVE StoreNext
  BY <1>1 DEF StoreNext, ControlStep, ServiceState
<1>2. CASE ProjectOrder(p)
  <2>1. recon[p] \in ReconFrame /\ recon[p].open \in OpenSnapshot
    BY <1>0 DEF ReconOK, ReconFrame
  <2>2. PICK i \in recon[p].todo :
          \/ UNCHANGED storeVars
          \/ LET open == recon[p].open
                 e == IF i \in DOMAIN open THEN Evidence("LIVE", open[i]) ELSE find_order(i)
             IN e # NoEvidence /\ reconcile_order_projection(i, e)
    BY <1>2 DEF ProjectOrder
  <2>3. i \in Intents /\ order[i] \in SettledOrderState
    BY <1>0, <1>2, <2>1 DEF ProjectOrder, InRecon, ReconOK, ReconFrame
  <2> DEFINE e == IF i \in DOMAIN recon[p].open THEN Evidence("LIVE", recon[p].open[i])
                                                ELSE find_order(i)
  <2>4. e = NoEvidence \/ e \in VenueEvidence
    <3>1. CASE i \in DOMAIN recon[p].open
      <4>1. recon[p].open[i] \in 0..Qty
        BY <2>1, <3>1, OpenSnapshotType
      <4>2. Evidence("LIVE", recon[p].open[i]) \in VenueEvidence
        BY <4>1 DEF Evidence, VenueEvidence, OrderState
      <4>3. QED
        BY <3>1, <4>2
    <3>2. CASE i \notin DOMAIN recon[p].open
      BY <1>0, <2>3, <3>2, FindOrderType
    <3>3. QED
      BY <3>1, <3>2
  <2>5. UNCHANGED storeVars \/ (e # NoEvidence /\ reconcile_order_projection(i, e))
    BY <2>2
  <2> HIDE DEF e
  <2>6. QED
    BY <2>3, <2>4, <2>5 DEF StoreNext, OrderStep, SettledOrderState
<1>3. CASE ResolveUnknown(p)
  <2>1. recon[p].cur \in Intents /\ recon[p].found \in VenueEvidence
    BY <1>0, <1>3 DEF ResolveUnknown, InRecon, ReconOK
  <2>2. \/ UNCHANGED storeVars
        \/ resolve_unknown_submission(recon[p].cur, recon[p].found)
    BY <1>3 DEF ResolveUnknown
  <2>3. ASSUME resolve_unknown_submission(recon[p].cur, recon[p].found)
        PROVE  OrderStep(recon[p].cur)
    BY <2>1, <2>3 DEF OrderStep, resolve_unknown_submission
  <2>4. QED
    BY <2>1, <2>2, <2>3 DEF StoreNext
<1>4. CASE ReconcileHalt(p) \/ VenueFailureHalt(p) \/ ReconcileError(p)
  <2>1. set_service_state("HALTED") \/ UNCHANGED storeVars
    BY <1>4 DEF ReconcileHalt, VenueFailureHalt, ReconcileError
  <2>2. QED
    BY <1>1, <2>1
<1>5. CASE \/ FetchOrders(p) \/ ReadLocalOrders(p) \/ ReadUnknowns(p)
           \/ LookupUnknown(p) \/ FinishReconcile(p) \/ FailReconcile(p)
  BY <1>5
  DEF FetchOrders, ReadLocalOrders, ReadUnknowns, LookupUnknown, FinishReconcile,
      FailReconcile
<1>6. QED
  BY <1>2, <1>3, <1>4, <1>5 DEF ReconcileStep

\* JournalCancels: every write of the cancellation routine is a step of the journal.
LEMMA JournalCancels ==
  ASSUME CoordInv, NEW p \in Procs, CancelStep(p)
  PROVE  [StoreNext]_storeVars
<1> DEFINE i == canc[p].cur
<1>1. CASE MarkTarget(p) \/ CommitCancelled(p)
  <2>1. i \in Intents
    BY <1>1 DEF MarkTarget, CommitCancelled, InCancel, CoordInv, CancelOK
  <2>2. \/ cancel_prepared_order(i)
        \/ \E next \in {"CANCEL_PENDING", "CANCELLED"} : transition_order(i, next)
        \/ UNCHANGED storeVars
    BY <1>1 DEF MarkTarget, CommitCancelled, CancelError
  <2> HIDE DEF i
  <2>3. QED
    BY <2>1, <2>2 DEF StoreNext, OrderStep
<1>2. CASE ~(MarkTarget(p) \/ CommitCancelled(p))
  BY <1>2 DEF CancelStep, CreateCancellation, ReadTarget, CancelAtVenue,
              finish_cancellation
<1>3. QED
  BY <1>1, <1>2

\* JournalWorks: every write of the worker is a step of the journal.
LEMMA JournalWorks ==
  ASSUME CoordInv, WorkerStep
  PROVE  [StoreNext]_storeVars
<1> DEFINE i == work.intent
<1>1. ASSUME pc["worker"] # "idle" PROVE i \in Intents
  BY <1>1 DEF CoordInv, LocalsOK
<1>2. CASE \/ reject_received \/ BeginValidation \/ ValidateMarket
           \/ validate_freshness_and_increments \/ EvaluateRisk \/ BeginPreparation
           \/ PrepareOrder
  <2>1. pc["worker"] # "idle"
    BY <1>2
    DEF reject_received, BeginValidation, ValidateMarket,
        validate_freshness_and_increments, EvaluateRisk, BeginPreparation,
        PrepareOrder, WorkerAt, At
  <2>2. IntentStep(i) \/ UNCHANGED storeVars
    BY <1>2
    DEF reject_received, BeginValidation, ValidateMarket,
        validate_freshness_and_increments, EvaluateRisk, BeginPreparation,
        PrepareOrder, IntentStep
  <2>3. QED
    BY <1>1, <2>1, <2>2 DEF StoreNext
<1>3. CASE BeginSubmission
  <2>1. pc["worker"] # "idle"
    BY <1>3 DEF BeginSubmission, WorkerAt, At
  <2>2. begin_submission(i) \/ UNCHANGED storeVars
    BY <1>3 DEF BeginSubmission
  <2>3. QED
    BY <1>1, <2>1, <2>2 DEF StoreNext, OrderStep
<1>4. CASE FinishSubmission
  <2>1. pc["worker"] # "idle"
    BY <1>4 DEF FinishSubmission, WorkerAt, At
  <2>2. \/ work.reply \in Accepted
           /\ finish_submission(i, "SUBMITTED", work.reply, work.filled, work.filled)
        \/ finish_submission(i, "SUBMITTED", "REJECTED", 0, 0)
        \/ finish_submission(i, "UNKNOWN", "UNKNOWN", 0, 0)
        \/ UNCHANGED storeVars
    BY <1>4 DEF FinishSubmission
  <2>3. work.filled \in 0..Qty
    BY DEF CoordInv, LocalsOK
  <2> HIDE DEF i
  <2>4. SubmissionOutcome(i) \/ UNCHANGED storeVars
    BY <2>2, <2>3 DEF SubmissionOutcome, Accepted
  <2>5. SubmissionOutcome(i) => order[i] = "SUBMITTING"
    BY DEF SubmissionOutcome, finish_submission
  <2>6. QED
    BY <1>1, <2>1, <2>4, <2>5 DEF StoreNext, OrderStep
<1>5. CASE CheckHealth \/ WorkerHalt
  <2>1. set_service_state("HALTED") \/ UNCHANGED storeVars
    BY <1>5 DEF CheckHealth, WorkerHalt, halt_inner
  <2>2. QED
    BY <2>1 DEF StoreNext, ControlStep, ServiceState
<1>6. CASE \/ ReceiveIntent \/ LockSafety \/ LockLifecycle \/ PreIntentReconcile
           \/ SendToVenue \/ ReleaseWorker
  BY <1>6 DEF ReceiveIntent, LockSafety, LockLifecycle, PreIntentReconcile,
              SendToVenue, ReleaseWorker
<1>7. QED
  BY <1>2, <1>3, <1>4, <1>5, <1>6 DEF WorkerStep

\* JournalStep: whatever the tasks do, the journal takes a step of its own
\* specification, or none.
LEMMA JournalStep == CoordInv /\ [Next]_vars => [StoreNext]_storeVars
<1> SUFFICES ASSUME CoordInv, [Next]_vars PROVE [StoreNext]_storeVars
  OBVIOUS
<1>0. ASSUME NEW s \in {"HALTED", "READY", "RECONCILING", "SHUTTING_DOWN"},
             set_service_state(s)
      PROVE  StoreNext
  BY <1>0 DEF StoreNext, ControlStep, ServiceState
<1>1. ASSUME NEW p \in Procs, ReconcileStep(p) \/ CancelStep(p)
      PROVE  [StoreNext]_storeVars
  BY <1>1, JournalReconciles, JournalCancels
<1>2. CASE WorkerStep
  BY <1>2, JournalWorks
<1>3. CASE ControlJob
  <2>1. \/ UNCHANGED storeVars
        \/ \E s \in {"HALTED", "READY"} : set_service_state(s)
    BY <1>3
    DEF ControlJob, StartReconcileJob, HeartbeatHalt, StartHaltJob, StartResume,
        CheckResume, CommitResume, Enqueue, EndJob, AbandonResume,
        set_service_state_if_unchanged
  <2>2. QED
    BY <1>0, <2>1
<1>4. CASE StartupStep \/ ShutdownStep
  <2>1. \/ UNCHANGED storeVars
        \/ \E s \in {"HALTED", "READY", "RECONCILING", "SHUTTING_DOWN"} :
             set_service_state(s)
        \/ RecoveryStep
    BY <1>4
    DEF StartupStep, ReadPriorState, MarkStartup, fail_interrupted_reconciliations,
        RecoverInterrupted, HaltInterrupted, RecoverWork, RecoverCancellations,
        StartupReconcile, StartupHeartbeat, ReadStartupState, BecomeReady, Enqueue,
        EndStartup, ShutdownStep, BeginShutdown, ShutdownCancel, ShutdownReconcile,
        EndShutdown, halt_inner, RecoveryStep
  <2>2. QED
    BY <1>0, <2>1 DEF StoreNext
<1>5. ASSUME NEW i \in Intents, SubmitIntent(i)
      PROVE  StoreNext
  BY <1>5 DEF SubmitIntent, StoreNext, IntentStep
<1>6. CASE halt_idempotent
  BY <1>0, <1>6 DEF halt_idempotent
<1>7. CASE \/ StartCancellation \/ EndCancellation \/ CancelRequest \/ Restart
           \/ UNCHANGED vars \/ \E i \in Intents : VenueStep(i)
  BY <1>7
  DEF StartCancellation, EndCancellation, CancelRequest, Restart, VenueStep, vars
<1>8. QED
  BY <1>1, <1>2, <1>3, <1>4, <1>5, <1>6, <1>7 DEF Next

-----------------------------------------------------------------------------
\* The first start of the process satisfies CoordInv.
LEMMA CoordInit == Init => CoordInv
<1> SUFFICES ASSUME Init PROVE CoordInv
  OBVIOUS
<1>1. StoreInv
  BY StoreInitInv DEF Init
<1>2. LabelsOK
  BY DEF Init, LabelsOK, Label, MainLabel, WorkerLabel, ControlLabel, CancellerLabel,
         Procs
<1>3. ReconOK
  BY IdleReconFrame DEF Init, ReconOK, IdleRecon
<1>4. CancelOK
  BY IdleCancelFrame DEF Init, CancelOK, IdleCancel
<1>5. LocalsOK
  BY DEF Init, LocalsOK, IdleWork, IdleBoot, ReplyKind, Accepted, ServiceState, Procs
<1>6. SchedOK
  <2>1. queue \in Seq(Intents) /\ Len(queue) <= QueueCapacity
    <3>1. queue = <<>> /\ QueueCapacity \in Nat
      BY QueueAssumption DEF Init
    <3>2. QED
      BY <3>1
  <2>2. QED
    BY <2>1 DEF Init, SchedOK, Procs
<1>7. VenueOK
  BY DEF Init, VenueOK, Procs
<1>8. QED
  BY <1>1, <1>2, <1>3, <1>4, <1>5, <1>6, <1>7 DEF CoordInv

\* CoordInv is inductive, and every step of the coordinator is a step of the
\* journal or leaves it alone.
LEMMA CoordStep == CoordInv /\ [Next]_vars => CoordInv' /\ [StoreNext]_storeVars
<1> SUFFICES ASSUME CoordInv, [Next]_vars PROVE CoordInv' /\ [StoreNext]_storeVars
  OBVIOUS
<1>1. [StoreNext]_storeVars
  BY JournalStep
<1>2. StoreInv' /\ Kept
  BY <1>1, StoreStepPreserves, JournalKeeps DEF CoordInv
<1>3. StoreTypeOK
  BY DEF CoordInv, StoreInv
<1>4. QED
  BY <1>1, <1>2, <1>3, LabelsStep, ReconFramesStep, CancelFramesStep, LocalsStep, SchedStep,
     VenueInvStep
  DEF CoordInv

\* CoordInv holds of every reachable state of the coordinator: the journal agrees with
\* itself, every task is where its locals say, and the venue holds at most one order
\* per intent, begun by the journal first.
THEOREM CoordinatorInvariant == Spec => []CoordInv
<1>1. CoordInv /\ [Next]_vars => CoordInv'
  BY CoordStep
<1>2. QED
  BY <1>1, CoordInit, PTL DEF Spec

\* CoordinatorTypeCorrect: every task stays in its own code, every variable keeps its
\* type, and the channel never holds more than its capacity (CoordTypeOK), for any
\* set of intents, capacity and number of restarts.
THEOREM CoordinatorTypeCorrect == Spec => []CoordTypeOK
<1>1. CoordInv => CoordTypeOK
  BY DEF CoordInv, CoordTypeOK, ReconOK, CancelOK, LocalsOK, SchedOK, VenueOK,
         ReconFrame, CancelFrame
<1>2. QED
  BY <1>1, CoordinatorInvariant, PTL

\* SentOnce: an order is never sent to the venue twice (SingleSend), whatever is lost,
\* timed out, cancelled, resumed or restarted.
THEOREM SentOnce == Spec => []SingleSend
<1>1. CoordInv => SingleSend
  BY DEF CoordInv, VenueOK, SingleSend
<1>2. QED
  BY <1>1, CoordinatorInvariant, PTL

\* JournalRefined: the coordinator implements the journal's specification
\* (ImplementsJournal, and StoreSpec itself): every call execution.rs makes of
\* store.rs is one the journal was proved safe for, so every theorem of StoreProofs
\* holds of the coordinator.
THEOREM JournalRefined == Spec => ImplementsJournal /\ StoreSpec
<1>1. Init => StoreInit
  BY DEF Init
<1>2. CoordInv /\ [Next]_vars => [storeVars' # storeVars => StoreNext]_storeVars
  BY CoordStep
<1>3. CoordInv /\ [Next]_vars => [StoreNext]_storeVars
  BY CoordStep
<1>4. QED
  BY <1>1, <1>2, <1>3, CoordinatorInvariant, PTL DEF Spec, ImplementsJournal, StoreSpec

=============================================================================
