---------------------------- MODULE Coordinator -----------------------------
(***************************************************************************)
(* The execution coordinator: the worker, the spawned cancellations and    *)
(* the reconciliation routine composed with the jobs under safety_gate,    *)
(* startup, shutdown, restarts, the requests of the API and the venue.     *)
(***************************************************************************)
EXTENDS Reconciliation, Cancellation, Worker

-----------------------------------------------------------------------------
(* Jobs under safety_gate: reconcile, resume, the second half of halt      *)

\* Scheduled or requested; the heartbeat task runs one after its halt.
StartReconcileJob ==
  /\ At("control", "idle") /\ safetyGate = "free"
  /\ safetyGate' = "control"
  /\ CallReconcile("control")
  /\ \/ Goto("control", "release")
     \/ heartbeat = "cancelled" /\ Goto("control", "h_done")
  /\ UNCHANGED <<storeVars, lifecycleGate, sched, locals, canc, durable, venueVars,
                 history>>

\* halt of the heartbeat task: HALTED is written without the gate, which is
\* only taken for cancel_on_halt_inner.
HeartbeatHalt ==
  /\ NeedsHeartbeat /\ heartbeat = "beating"
  /\ set_service_state("HALTED") /\ LatchHalt
  /\ heartbeat' = "halted"
  /\ UNCHANGED <<pc, gates, queue, deferred, cancelTasks, locals, frames, durable,
                 venueVars>>

StartHaltJob ==
  /\ At("control", "idle") /\ safetyGate = "free" /\ heartbeat = "halted"
  /\ safetyGate' = "control"
  /\ IF CancelOnHalt THEN SetCancel("control", [IdleCancel EXCEPT !.at = "create"])
                     ELSE UNCHANGED frames
  /\ Goto("control", "h_cancelled")
  /\ UNCHANGED <<storeVars, lifecycleGate, sched, locals, durable, venueVars, history>>

\* resume: the revision is read before the reconciliation it runs.
StartResume ==
  /\ At("control", "idle") /\ safetyGate = "free" /\ pc["main"] = "serving"
  /\ control = "HALTED"
  /\ safetyGate' = "control"
  /\ readRevision' = revision
  /\ latch' = "resuming"
  /\ CallReconcile("control") /\ Goto("control", "r_beat")
  /\ UNCHANGED <<storeVars, lifecycleGate, sched, work, boot, todo, canc, durable,
                 venueVars, restarts, sends>>

\* The supervised heartbeat, then unresolved_critical_findings.
CheckResume ==
  /\ \/ /\ At("control", "r_beat")
        /\ \/ Goto("control", "r_check")
           \/ NeedsHeartbeat /\ Goto("control", "release")
     \/ /\ At("control", "r_check")
        /\ Goto("control", IF critical THEN "release" ELSE "r_commit")
  /\ UNCHANGED <<storeVars, gates, sched, locals, frames, durable, venueVars, history>>

\* The conditional write; then the deferred work is taken to be enqueued.
CommitResume ==
  /\ At("control", "r_commit")
  /\ \/ /\ set_service_state_if_unchanged("READY", readRevision)
        /\ todo' = [todo EXCEPT !["control"] = deferred]
        /\ deferred' = {}
        /\ latch' = IF latch = "resuming" THEN "none" ELSE latch
        /\ Goto("control", "enqueue")
     \/ /\ control # "HALTED" \/ revision # readRevision
        /\ Goto("control", "release")
        /\ UNCHANGED <<storeVars, todo, deferred, latch>>
  /\ UNCHANGED <<gates, queue, cancelTasks, heartbeat, work, boot, readRevision,
                 frames, durable, venueVars, restarts, sends>>

\* enqueue_recovered waits for room in the channel while it holds the gate.
Enqueue(p) ==
  /\ At(p, "enqueue")
  /\ \/ \E i \in todo[p] :
          /\ \/ /\ intent[i] \in {"RECEIVED", "PREPARED"}
                /\ Len(queue) < QueueCapacity
                /\ queue' = Append(queue, i)
             \/ /\ intent[i] \notin {"RECEIVED", "PREPARED"}
                /\ UNCHANGED queue
          /\ todo' = [todo EXCEPT ![p] = @ \ {i}]
          /\ UNCHANGED pc
     \/ todo[p] = {} /\ Goto(p, "release") /\ UNCHANGED <<queue, todo>>
  /\ UNCHANGED <<storeVars, gates, deferred, cancelTasks, heartbeat, work, boot,
                 readRevision, frames, durable, venueVars, history>>

\* The heartbeat task goes on from its halt to its reconciliation, and from
\* there to its next beat.
EndJob ==
  /\ \E l \in {"release", "h_cancelled", "h_done"} : At("control", l)
  /\ safetyGate' = "free"
  /\ readRevision' = 0
  /\ heartbeat' = CASE pc["control"] = "h_cancelled" -> "cancelled"
                    [] pc["control"] = "h_done"      -> "beating"
                    [] OTHER                         -> heartbeat
  /\ Goto("control", "idle")
  /\ UNCHANGED <<storeVars, lifecycleGate, queue, deferred, cancelTasks, work, boot, todo,
                 frames, durable, venueVars, history>>

\* The timeout layer of api.rs drops the future of a resume request wherever
\* it waits: the gate is released, nothing else is undone.
AbandonResume ==
  /\ RequestTimeouts
  /\ \/ pc["control"] \in {"r_beat", "r_check", "r_commit"}
     \/ pc["control"] = "enqueue" /\ todo["control"] # {}
  /\ orphanRuns' = (orphanRuns \/ RunOpen("control"))
  /\ safetyGate' = "free"
  /\ readRevision' = 0
  /\ todo' = [todo EXCEPT !["control"] = {}]
  /\ SetRecon("control", IdleRecon)
  /\ Goto("control", "idle")
  /\ UNCHANGED <<storeVars, lifecycleGate, sched, work, boot, critical, pendingCancels,
                 venueVars, history>>

ControlJob ==
  \/ StartReconcileJob \/ HeartbeatHalt \/ StartHaltJob \/ StartResume
  \/ CheckResume \/ CommitResume \/ Enqueue("control") \/ EndJob \/ AbandonResume

-----------------------------------------------------------------------------
(* main: startup, under safety_gate                                        *)

MainAt(l) == At("main", l)
MainGoto(l) == Goto("main", l)

ReadPriorState ==
  /\ MainAt("s_read")
  /\ boot' = [boot EXCEPT !.prior = control]
  /\ MainGoto("s_mark")
  /\ UNCHANGED <<storeVars, gates, sched, work, todo, readRevision, frames, durable,
                 venueVars, history>>

\* An unfinished shutdown counts as a halt; a halt stays.
MarkStartup ==
  /\ MainAt("s_mark")
  /\ \/ /\ boot.prior = "SHUTTING_DOWN"
        /\ set_service_state("HALTED") /\ LatchHalt
        /\ boot' = [boot EXCEPT !.prior = "HALTED"]
     \/ /\ boot.prior = "HALTED"
        /\ UNCHANGED <<storeVars, boot, history>>
     \/ /\ boot.prior \notin {"HALTED", "SHUTTING_DOWN"}
        /\ set_service_state("RECONCILING")
        /\ UNCHANGED <<boot, history>>
  /\ MainGoto("s_runs")
  /\ UNCHANGED <<gates, sched, work, todo, readRevision, frames, durable, venueVars>>

fail_interrupted_reconciliations ==
  /\ MainAt("s_runs")
  /\ critical' = (critical \/ orphanRuns)
  /\ orphanRuns' = FALSE
  /\ MainGoto("s_interrupted")
  /\ UNCHANGED <<storeVars, gates, sched, locals, frames, pendingCancels, venueVars,
                 history>>

RecoverInterrupted ==
  /\ MainAt("s_interrupted")
  /\ recover_interrupted_submissions
  /\ MainGoto(IF Interrupted = {} THEN "s_recover" ELSE "s_halt")
  /\ UNCHANGED <<gates, sched, locals, frames, durable, venueVars, history>>

HaltInterrupted ==
  /\ MainAt("s_halt")
  /\ set_service_state("HALTED") /\ LatchHalt
  /\ MainGoto("s_recover")
  /\ UNCHANGED <<gates, sched, locals, frames, durable, venueVars>>

\* Recovery of the work before submission; then the PENDING cancellations
\* are read.
RecoverWork ==
  /\ MainAt("s_recover")
  /\ recover_pre_submission_work
  /\ todo' = [todo EXCEPT !["main"] = Recoverable]
  /\ boot' = [boot EXCEPT !.requests = pendingCancels]
  /\ MainGoto("s_pending")
  /\ UNCHANGED <<gates, sched, work, readRevision, frames, durable, venueVars, history>>

\* Mutant: a service that starts halted leaves the pending cancellations alone.
SkipPendingWhenHalted ==
  /\ MainAt("s_pending")
  /\ \/ \E t \in boot.requests :
          /\ boot.prior # "HALTED"
          /\ boot' = [boot EXCEPT !.requests = @ \ {t}]
          /\ SetCancel("main", [IdleCancel EXCEPT !.at = "next", !.targets = t,
                                                  !.todo = t])
          /\ UNCHANGED pc
     \/ /\ boot.requests = {} \/ boot.prior = "HALTED"
        /\ MainGoto("s_reconcile") /\ UNCHANGED <<boot, frames>>
  /\ UNCHANGED <<storeVars, gates, sched, work, todo, readRevision, durable, venueVars,
                 history>>

\* The pending cancellations one by one, then that of a latched halt.
RecoverCancellations ==
  /\ MainAt("s_pending")
  /\ \/ \E t \in boot.requests :
          /\ boot' = [boot EXCEPT !.requests = @ \ {t}]
          /\ SetCancel("main", [IdleCancel EXCEPT !.at = "next", !.targets = t,
                                                  !.todo = t])
          /\ UNCHANGED pc
     \/ /\ boot.requests = {}
        /\ IF boot.prior = "HALTED" /\ CancelOnHalt
             THEN SetCancel("main", [IdleCancel EXCEPT !.at = "create"])
             ELSE UNCHANGED frames
        /\ MainGoto("s_reconcile") /\ UNCHANGED boot
  /\ UNCHANGED <<storeVars, gates, sched, work, todo, readRevision, durable, venueVars,
                 history>>

StartupReconcile ==
  /\ MainAt("s_reconcile")
  /\ CallReconcile("main") /\ MainGoto("s_beat")
  /\ UNCHANGED <<storeVars, gates, sched, locals, canc, durable, venueVars, history>>

StartupHeartbeat ==
  /\ MainAt("s_beat")
  /\ \/ UNCHANGED <<storeVars, frames, history>>
     \/ NeedsHeartbeat /\ halt_inner("main")
  /\ MainGoto("s_state")
  /\ UNCHANGED <<gates, sched, locals, durable, venueVars>>

\* Mutant: the recovered work is dropped when the service stays halted.
DropRecovered ==
  /\ MainAt("s_state")
  /\ todo' = IF control = "HALTED" THEN [todo EXCEPT !["main"] = {}] ELSE todo
  /\ MainGoto(IF control = "HALTED" THEN "release" ELSE "s_ready")
  /\ UNCHANGED <<storeVars, gates, sched, work, boot, readRevision, frames, durable,
                 venueVars, history>>

\* The state is read here and written, unconditionally, one step later.
ReadStartupState ==
  /\ MainAt("s_state")
  /\ \/ /\ control = "HALTED"
        /\ deferred' = todo["main"]
        /\ todo' = [todo EXCEPT !["main"] = {}]
        /\ MainGoto("release")
     \/ control # "HALTED" /\ MainGoto("s_ready") /\ UNCHANGED <<deferred, todo>>
  /\ UNCHANGED <<storeVars, gates, queue, cancelTasks, heartbeat, work, boot,
                 readRevision, frames, durable, venueVars, history>>

BecomeReady ==
  /\ MainAt("s_ready")
  /\ set_service_state("READY")
  /\ MainGoto("enqueue")
  /\ UNCHANGED <<gates, sched, locals, frames, durable, venueVars, history>>

EndStartup ==
  /\ MainAt("release")
  /\ safetyGate' = "free" /\ boot' = IdleBoot
  /\ MainGoto("serving")
  /\ UNCHANGED <<storeVars, lifecycleGate, sched, work, todo, readRevision, frames,
                 durable, venueVars, history>>

StartupStep ==
  \/ ReadPriorState \/ MarkStartup \/ fail_interrupted_reconciliations
  \/ RecoverInterrupted \/ HaltInterrupted \/ RecoverWork \/ RecoverCancellations
  \/ StartupReconcile \/ StartupHeartbeat \/ ReadStartupState \/ BecomeReady
  \/ Enqueue("main") \/ EndStartup

-----------------------------------------------------------------------------
(* main: shutdown, after the API server has drained its requests           *)

BeginShutdown ==
  /\ MainAt("serving")
  /\ pc["control"] \notin {"r_beat", "r_check", "r_commit", "enqueue"}
  /\ set_service_state("SHUTTING_DOWN")
  /\ MainGoto(IF CancelOnHalt THEN "d_cancel" ELSE "d_lock")
  /\ UNCHANGED <<gates, sched, locals, frames, durable, venueVars, history>>

ShutdownCancel ==
  /\ \/ /\ MainAt("d_cancel") /\ lifecycleGate = "free"
        /\ lifecycleGate' = "main"
        /\ SetCancel("main", [IdleCancel EXCEPT !.at = "create"])
        /\ MainGoto("d_reconcile")
     \/ /\ MainAt("d_reconcile")
        /\ lifecycleGate' = "free"
        /\ MainGoto("d_lock") /\ UNCHANGED frames
  /\ UNCHANGED <<storeVars, safetyGate, sched, locals, durable, venueVars, history>>

ShutdownReconcile ==
  /\ MainAt("d_lock") /\ safetyGate = "free"
  /\ safetyGate' = "main"
  /\ CallReconcile("main") /\ MainGoto("d_mark")
  /\ UNCHANGED <<storeVars, lifecycleGate, sched, locals, canc, durable, venueVars,
                 history>>

\* The durable completion marker; the process ends.
EndShutdown ==
  /\ MainAt("d_mark")
  /\ set_service_state("HALTED") /\ LatchHalt
  /\ MainGoto("exit")
  /\ UNCHANGED <<gates, sched, locals, frames, durable, venueVars>>

ShutdownStep == BeginShutdown \/ ShutdownCancel \/ ShutdownReconcile \/ EndShutdown

-----------------------------------------------------------------------------
(* Requests of the API, served between startup and shutdown                *)

\* Mutant: the intent is admitted before a slot is reserved.
SubmitWithoutSlot(i) ==
  /\ MainAt("serving")
  /\ admit_intent(i)
  /\ queue' = Append(queue, i)
  /\ UNCHANGED <<pc, gates, deferred, cancelTasks, heartbeat, locals, frames, durable,
                 venueVars, history>>

\* submit_intent: a slot of the channel is reserved before the admission.
SubmitIntent(i) ==
  /\ MainAt("serving") /\ Len(queue) < QueueCapacity
  /\ admit_intent(i)
  /\ queue' = Append(queue, i)
  /\ UNCHANGED <<pc, gates, deferred, cancelTasks, heartbeat, locals, frames, durable,
                 venueVars, history>>

\* cancel: by order (whatever its state) or all open orders.  Two requests for
\* the same targets are never pending at once, and one without targets does
\* nothing (bounds of the model).
CancelRequest ==
  /\ MainAt("serving") /\ OperatorCancels
  /\ \E targets \in {{i} : i \in {j \in Intents : order[j] # "ABSENT"}} \cup {OpenOrders} :
       /\ targets \notin pendingCancels \cup {{}}
       /\ pendingCancels' = pendingCancels \cup {targets}
       /\ cancelTasks' = cancelTasks \cup {[all |-> FALSE, targets |-> targets]}
  /\ UNCHANGED <<storeVars, pc, gates, queue, deferred, heartbeat, locals, frames,
                 critical, orphanRuns, venueVars, history>>

halt_idempotent ==
  /\ MainAt("serving")
  /\ set_service_state("HALTED") /\ LatchHalt
  /\ spawn_protective_cancellation
  /\ UNCHANGED <<pc, gates, queue, deferred, heartbeat, locals, frames, durable,
                 venueVars>>

-----------------------------------------------------------------------------
(* The process stops, by itself or at any other point, and starts again.   *)

Restart ==
  /\ restarts < MaxRestarts
  /\ restarts' = restarts + 1
  /\ orphanRuns' = (orphanRuns \/ \E p \in Procs : RunOpen(p))
  /\ latch' = IF latch = "resuming" THEN "halted" ELSE latch
  /\ FreshProcess
  /\ UNCHANGED <<storeVars, critical, pendingCancels, venueVars, sends>>

\* The other tasks may still run after main has ended, until the process is
\* gone.
Next ==
  \/ \E p \in Procs : ReconcileStep(p) \/ CancelStep(p)
  \/ WorkerStep
  \/ StartCancellation \/ EndCancellation
  \/ ControlJob
  \/ StartupStep \/ ShutdownStep
  \/ \E i \in Intents : SubmitIntent(i)
  \/ CancelRequest \/ halt_idempotent
  \/ Restart
  \/ \E i \in Intents : VenueStep(i)

Spec == Init /\ [][Next]_vars

-----------------------------------------------------------------------------
(* Properties                                                              *)

\* begin_submission commits for i in this step.
Begins(i) == order[i] = "PREPARED" /\ order'[i] = "SUBMITTING"

\* SingleSend: whatever is lost, delayed, cancelled, resumed or restarted, the
\* order of an intent is sent to the venue at most once (begin_submission,
\* submit_prepared and the recovery at startup).
SingleSend == \A i \in Intents : sends[i] <= 1

\* NoForgottenOrder: an order that the venue has, or may still receive, is in a
\* local state that reconciliation or recovery acts on and that the risk engine
\* counts, so that it is neither terminal, rejected nor prepared locally.
NoForgottenOrder ==
  \A i \in Intents :
    venue[i] \in {"inflight", "LIVE"} =>
      order[i] \in {"SUBMITTING", "LIVE", "CANCEL_PENDING", "UNKNOWN"}

\* NoPhantomFill: the trades booked for an order never exceed what the venue has
\* matched, although the same fill can be reported by the reply, by a stale
\* snapshot of either of two overlapping reconciliations, by a lookup and after a
\* restart (apply_matched_fill, reconcile_order_projection).
NoPhantomFill == \A i \in Intents : booked[i] <= matched[i]

\* ExposureWithinLimit: reservations and open orders never exceed
\* max_open_orders, although stale reconciliation snapshots may reopen an order
\* that was closed locally: no approval can happen while one is applied
\* (evaluate_and_reserve_risk and the gates of execution.rs).
ExposureWithinLimit == Cardinality(OpenExposure) <= MaxOpenOrders

\* CancelWaitsForSubmission: while the worker submits an order no cancellation
\* works on it (order_lifecycle_gate and safety_gate in execution.rs).
CancelWaitsForSubmission ==
  \A p \in Procs :
    /\ work.intent # NoIntent /\ pc["worker"] \in {"send", "finish"}
    /\ canc[p].at # "idle"
    => work.intent \notin canc[p].todo \cup {canc[p].cur}

\* ReceivedWorkIsTracked: an admitted intent that nothing was decided about is
\* queued, being processed, deferred, or about to be recovered by startup; it is
\* never left behind in the journal (enqueue_recovered, defer_recovery).
ReceivedWorkIsTracked ==
  \A i \in Intents : intent[i] = "RECEIVED" =>
    \/ \E n \in 1..Len(queue) : queue[n] = i
    \/ work.intent = i
    \/ i \in deferred \cup todo["main"] \cup todo["control"]
    \/ pc["main"] \in {"s_read", "s_mark", "s_runs", "s_interrupted", "s_halt",
                       "s_recover", "exit"}

\* EnqueueIsServed: a task that waits for room in the channel, and holds
\* safety_gate meanwhile, waits for a worker that can go on: the worker takes an
\* intent off the channel before it asks for the gate. With more unfinished intents
\* than the channel and the worker hold between them this is lost
\* (enqueue_recovered, process_intent).
EnqueueIsServed ==
  \A p \in {"main", "control"} :
    /\ At(p, "enqueue") /\ Len(queue) = QueueCapacity
    /\ \E i \in todo[p] : intent[i] \in {"RECEIVED", "PREPARED"}
    /\ Cardinality({i \in Intents : intent[i] \in {"RECEIVED", "PREPARED"}}) <= QueueCapacity + 1
    => ENABLED ReceiveIntent

\* OperatorReleasesHalt: after any write of HALTED nothing is submitted until a
\* resume that started after that write has committed, across restarts too
\* (set_service_state_if_unchanged, startup).
OperatorReleasesHalt ==
  [][\A i \in Intents : Begins(i) => latch = "none"]_vars

\* NoSubmissionUnderFinding: nothing is submitted while a critical
\* reconciliation finding is unresolved, even though the finding and the halt it
\* causes are two transactions (reconcile_started_inner, resume), as long as no
\* cancellation is requested. The reconciliation of one runs without safety_gate:
\* it may leave a finding between the check and the write of a resume, and where the
\* service is HALTED already its internal errors do not change the revision.
NoSubmissionUnderFinding ==
  [][(\E i \in Intents : Begins(i)) => ~critical]_vars

\* StopsWhenUnproven: nothing is submitted while the outcome of the submission of
\* another order is not known (submit_prepared, finish_submission, startup).
StopsWhenUnproven ==
  [][(\E i \in Intents : Begins(i)) =>
       \A j \in Intents : order[j] \notin {"SUBMITTING", "UNKNOWN"}]_vars

\* TerminalStaysTerminal: a terminal order state is final (transition_order,
\* reconcile_order_projection).
TerminalStaysTerminal ==
  [][\A i \in Intents : order[i] \in TerminalOrderState => order'[i] = order[i]]_vars

\* ImplementsJournal: whatever the tasks do, the journal only takes steps of its
\* own specification: the property is StoreSpec, with StoreNext evaluated only for
\* the steps that change the journal. What StoreProofs shows of StoreSpec therefore
\* holds of the coordinator (every caller of store.rs in execution.rs).
ImplementsJournal ==
  StoreInit /\ [][storeVars' # storeVars => StoreNext]_storeVars

Contract == INSTANCE VenueContract WITH Orders <- Intents, Lots <- Qty,
                                        state <- venue, lots <- matched

\* CoordinatorKeepsContract: what submissions, overlapping reconciliations and
\* cancellations do to the orders at the venue is the life that VenueContract
\* describes and the paper venue implements: an order whose reply was lost and that
\* arrives later is never placed again, and none is cancelled or matched once it is
\* closed (submit_prepared, execute_cancellation, reconcile_started_inner).
CoordinatorKeepsContract == Contract!ContractSpec
=============================================================================
