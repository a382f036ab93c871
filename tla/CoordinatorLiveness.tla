------------------------- MODULE CoordinatorLiveness -------------------------
(***************************************************************************)
(* What the tasks of Coordinator must get done. A task that can go on does *)
(* so (tokio polls every task that is woken), and a task that waits for a  *)
(* gate gets it in its turn (tokio mutexes are first in, first out). No    *)
(* request, market event, halt, shutdown or restart has to happen.         *)
(***************************************************************************)
EXTENDS Coordinator

\* What task p does inside the routines it has called.
Routine(p) == ReconcileStep(p) \/ CancelStep(p)

\* What each task does once it has begun; a job of control and a shutdown need not
\* begin.
MainTask == Routine("main") \/ StartupStep \/ ShutdownCancel \/ ShutdownReconcile \/ EndShutdown
ControlTask == Routine("control") \/ CheckResume \/ CommitResume \/ Enqueue("control") \/ EndJob
WorkerTask == Routine("worker") \/ WorkerStep
CancellerTask == Routine("canceller") \/ StartCancellation \/ EndCancellation

\* Worker and canceller wait for gates that the others may take again and again.
Fairness ==
  /\ WF_vars(MainTask) /\ WF_vars(ControlTask)
  /\ SF_vars(WorkerTask) /\ SF_vars(CancellerTask)

FairSpec == Spec /\ Fairness

\* A task waits for a write of the control state that the bound on revisions does
\* not allow: what follows is not modelled.
BoundReached ==
  /\ revision = MaxRevision
  /\ \/ \E p \in Procs : \/ recon[p].at \in {"halt", "failHalt"}
                         \/ recon[p].at = "errorHalt" /\ control # "HALTED"
     \/ pc["main"] \in {"s_halt", "s_ready", "d_mark"}
     \/ pc["main"] = "s_mark" /\ boot.prior # "HALTED"
     \/ pc["worker"] = "halt"
     \/ pc["control"] = "r_commit" /\ readRevision = revision

\* The process has ended, or is about to.
Stopped == pc["main"] = "exit"

\* StartupEnds: a process that starts comes to serve requests, with every
\* cancellation executed that a crash had interrupted or kept from starting, or
\* ends with an error, whatever it recovers and whatever the venue answers (startup;
\* with cancel_on_halt new protective cancellations may be pending by then).
StartupEnds ==
  pc["main"] = "s_read" ~>
    \/ pc["main"] = "release" /\ (CancelOnHalt \/ pendingCancels = {})
    \/ Stopped \/ BoundReached

\* BacklogEnds: queued intents and spawned cancellations do not wait for ever: a
\* state comes in which the worker has finished with every intent and every
\* cancellation has started, although the worker halts the service and reconciles
\* while it holds both gates, and a resume, a reconciliation or a cancellation that
\* fails may hold one of them meanwhile (process_intent, halt_inner,
\* spawn_cancellation).
BacklogEnds ==
  cancelTasks # {} \/ queue # <<>> \/ work.intent # NoIntent ~>
    \/ cancelTasks = {} /\ queue = <<>> /\ work.intent = NoIntent
    \/ Stopped \/ BoundReached
==============================================================================
