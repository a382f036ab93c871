------------------------------- MODULE Worker -------------------------------
(***************************************************************************)
(* The worker task of execution.rs: process_intent, process_intent_inner   *)
(* and submit_prepared for one queued intent at a time, under safety_gate  *)
(* and order_lifecycle_gate.                                               *)
(***************************************************************************)
EXTENDS CoordinatorState

WorkerAt(l) == At("worker", l)
WorkerGoto(l) == Goto("worker", l)

\* Mutant: the worker takes an intent only when nobody holds safety_gate.
ReceiveUnderGate ==
  /\ WorkerAt("idle") /\ queue # <<>> /\ safetyGate = "free"
  /\ work' = [IdleWork EXCEPT !.intent = Head(queue)]
  /\ queue' = Tail(queue)
  /\ WorkerGoto("safety")
  /\ UNCHANGED <<storeVars, gates, deferred, cancelTasks, heartbeat, boot, todo,
                 readRevision, frames, durable, venueVars, history>>

ReceiveIntent ==
  /\ WorkerAt("idle") /\ queue # <<>>
  /\ work' = [IdleWork EXCEPT !.intent = Head(queue)]
  /\ queue' = Tail(queue)
  /\ WorkerGoto("safety")
  /\ UNCHANGED <<storeVars, gates, deferred, cancelTasks, heartbeat, boot, todo,
                 readRevision, frames, durable, venueVars, history>>

\* Mutant: intents are processed without safety_gate.
SkipSafety ==
  /\ WorkerAt("safety")
  /\ WorkerGoto("lifecycle")
  /\ UNCHANGED <<storeVars, gates, sched, locals, frames, durable, venueVars, history>>

LockSafety ==
  /\ WorkerAt("safety") /\ safetyGate = "free"
  /\ safetyGate' = "worker"
  /\ WorkerGoto("lifecycle")
  /\ UNCHANGED <<storeVars, lifecycleGate, sched, locals, frames, durable, venueVars,
                 history>>

LockLifecycle ==
  /\ WorkerAt("lifecycle") /\ lifecycleGate = "free"
  /\ lifecycleGate' = "worker"
  /\ WorkerGoto("stream")
  /\ UNCHANGED <<storeVars, safetyGate, sched, locals, frames, durable, venueVars,
                 history>>

\* A pending user-stream event asks for a reconciliation first; its error is
\* only logged.
PreIntentReconcile ==
  /\ WorkerAt("stream")
  /\ CallReconcile("worker") \/ UNCHANGED recon
  /\ WorkerGoto("health")
  /\ UNCHANGED <<storeVars, gates, sched, locals, canc, durable, venueVars, history>>

\* execution_health_failure: reconciliation or heartbeat may be stale.
CheckHealth ==
  /\ WorkerAt("health")
  /\ \/ halt_inner("worker") /\ WorkerGoto("reject")
     \/ /\ WorkerGoto("ready")
        /\ UNCHANGED <<storeVars, frames, history>>
  /\ UNCHANGED <<gates, sched, locals, durable, venueVars>>

\* reject_received fails for an intent that is not RECEIVED, and the error
\* drops the intent from the worker.
reject_received ==
  LET i == work.intent IN
  /\ \/ WorkerAt("reject")
     \/ WorkerAt("ready") /\ control # "READY"
  /\ \/ transition_intent(i, "RECEIVED", "REJECTED")
     \/ intent[i] # "RECEIVED" /\ UNCHANGED storeVars
  /\ WorkerGoto("release")
  /\ UNCHANGED <<gates, sched, locals, frames, durable, venueVars, history>>

BeginValidation ==
  LET i == work.intent IN
  /\ WorkerAt("ready") /\ control = "READY"
  /\ \/ /\ transition_intent(i, "RECEIVED", "VALIDATING")
        /\ WorkerGoto("validate")
     \/ /\ intent[i] # "RECEIVED"
        /\ WorkerGoto(IF intent[i] = "PREPARED" THEN "begin" ELSE "release")
        /\ UNCHANGED storeVars
  /\ UNCHANGED <<gates, sched, locals, frames, durable, venueVars, history>>

\* The intent was settled by an error of the venue: VenueError::requires_halt
\* decides whether the service is halted too.
AfterVenueError == \E l \in {"release", "halt"} : WorkerGoto(l)

\* The market rules and the order book are fetched; an error or a deadline
\* rejects the intent.
ValidateMarket ==
  LET i == work.intent IN
  /\ WorkerAt("validate")
  /\ \/ WorkerGoto("risk") /\ UNCHANGED storeVars
     \/ /\ transition_intent(i, "VALIDATING", "REJECTED")
        /\ AfterVenueError
  /\ UNCHANGED <<gates, sched, locals, frames, durable, venueVars, history>>

\* The request, the rules and the book are valid and fresh, or the intent is
\* rejected (the check passing is the first case of ValidateMarket).
validate_freshness_and_increments ==
  /\ WorkerAt("validate")
  /\ transition_intent(work.intent, "VALIDATING", "REJECTED")
  /\ WorkerGoto("release")
  /\ UNCHANGED <<gates, sched, locals, frames, durable, venueVars, history>>

\* An approval that collides with an old reservation row is an error, which
\* leaves the intent VALIDATING.
EvaluateRisk ==
  LET i == work.intent IN
  /\ WorkerAt("risk")
  /\ \/ /\ evaluate_and_reserve_risk(i)
        /\ WorkerGoto(IF intent'[i] = "APPROVED" THEN "approved" ELSE "release")
     \/ /\ reservation[i] # "ABSENT" /\ "approve" \in evaluate
        /\ WorkerGoto("release") /\ UNCHANGED storeVars
  /\ UNCHANGED <<gates, sched, locals, frames, durable, venueVars, history>>

BeginPreparation ==
  /\ WorkerAt("approved")
  /\ transition_intent(work.intent, "APPROVED", "PREPARING")
  /\ WorkerGoto("prepare")
  /\ UNCHANGED <<gates, sched, locals, frames, durable, venueVars, history>>

PrepareOrder ==
  LET i == work.intent IN
  /\ WorkerAt("prepare")
  /\ \/ create_prepared_order(i) /\ WorkerGoto("begin")
     \/ reject_preparation(i) /\ AfterVenueError
  /\ UNCHANGED <<gates, sched, locals, frames, durable, venueVars, history>>

\* submit_prepared up to the request: the state is checked in the transaction.
BeginSubmission ==
  LET i == work.intent IN
  /\ WorkerAt("begin")
  /\ \/ begin_submission(i) /\ WorkerGoto("send") /\ UNCHANGED deferred
     \/ /\ control # "READY"
        /\ deferred' = deferred \cup {i}
        /\ WorkerGoto("release") /\ UNCHANGED storeVars
  /\ UNCHANGED <<gates, queue, cancelTasks, heartbeat, locals, frames, durable,
                 venueVars, history>>

\* The venue accepts (the order rests, is matched in full, or what an immediate
\* order leaves is dropped), rejects, or the reply is ambiguous: late, lost, or
\* not a success the adapter understands.
SendToVenue ==
  LET i == work.intent
      Reply(kind, filled) == work' = [work EXCEPT !.reply = kind, !.filled = filled]
  IN /\ WorkerAt("send")
     /\ sends' = [sends EXCEPT ![i] = @ + 1]
     /\ \/ \E m \in 0..Qty, s \in Accepted :
             /\ (s = "FILLED") = (m = Qty)
             /\ venue' = [venue EXCEPT ![i] = s]
             /\ matched' = [matched EXCEPT ![i] = m]
             /\ Reply(s, m) \/ (MalformedReplies /\ Reply("malformed", 0))
        \/ Reply("rejected", 0) /\ UNCHANGED venueVars
        \/ /\ venue' = [venue EXCEPT ![i] = "inflight"]
           /\ Reply("ambiguous", 0) /\ UNCHANGED matched
     /\ WorkerGoto("finish")
     /\ UNCHANGED <<storeVars, gates, sched, boot, todo, readRevision, frames, durable,
                    restarts, latch>>

\* Mutant: an ambiguous reply is taken for a rejection.
AmbiguousIsRejected ==
  LET i == work.intent IN
  /\ WorkerAt("finish")
  /\ IF work.reply \in Accepted
       THEN finish_submission(i, "SUBMITTED", work.reply, work.filled, work.filled)
       ELSE finish_submission(i, "SUBMITTED", "REJECTED", 0, 0)
  /\ WorkerGoto("release")
  /\ work' = [work EXCEPT !.reply = "none", !.filled = 0]
  /\ UNCHANGED <<gates, sched, boot, todo, readRevision, frames, durable, venueVars,
                 history>>

\* Mutant: an ambiguous reply does not halt the service.
AmbiguousWithoutHalt ==
  LET i == work.intent IN
  /\ WorkerAt("finish")
  /\ IF work.reply \in Accepted
       THEN finish_submission(i, "SUBMITTED", work.reply, work.filled, work.filled)
       ELSE finish_submission(i, "UNKNOWN", "UNKNOWN", 0, 0)
  /\ WorkerGoto("release")
  /\ work' = [work EXCEPT !.reply = "none", !.filled = 0]
  /\ UNCHANGED <<gates, sched, boot, todo, readRevision, frames, durable, venueVars,
                 history>>

\* Mutant: an ambiguous submission is sent again.
RetryAmbiguous ==
  LET i == work.intent IN
  /\ WorkerAt("finish")
  /\ IF work.reply \in Accepted
       THEN /\ finish_submission(i, "SUBMITTED", work.reply, work.filled, work.filled)
            /\ WorkerGoto("release")
       ELSE WorkerGoto("send") /\ UNCHANGED storeVars
  /\ work' = [work EXCEPT !.reply = "none", !.filled = 0]
  /\ UNCHANGED <<gates, sched, boot, todo, readRevision, frames, durable, venueVars,
                 history>>

\* The outcome is committed; a reply whose evidence does not validate makes
\* finish_submission, and with it the processing of the intent, fail.
FinishSubmission ==
  LET i == work.intent IN
  /\ WorkerAt("finish")
  /\ \/ /\ work.reply \in Accepted
        /\ finish_submission(i, "SUBMITTED", work.reply, work.filled, work.filled)
        /\ WorkerGoto("release")
     \/ /\ work.reply = "rejected"
        /\ finish_submission(i, "SUBMITTED", "REJECTED", 0, 0)
        /\ AfterVenueError
     \/ /\ work.reply = "ambiguous"
        /\ finish_submission(i, "UNKNOWN", "UNKNOWN", 0, 0)
        /\ WorkerGoto("halt")
     \/ /\ work.reply = "malformed"
        /\ WorkerGoto("release") /\ UNCHANGED storeVars
  /\ work' = [work EXCEPT !.reply = "none", !.filled = 0]
  /\ UNCHANGED <<gates, sched, boot, todo, readRevision, frames, durable, venueVars,
                 history>>

\* Mutant: the worker calls halt, which takes safety_gate, instead of halt_inner.
HaltTakesGate ==
  /\ \/ WorkerAt("halt") /\ safetyGate = "free" /\ halt_inner("worker") /\ WorkerGoto("reconcile")
     \/ /\ WorkerAt("reconcile") /\ CallReconcile("worker") /\ WorkerGoto("release")
        /\ UNCHANGED <<storeVars, canc, history>>
  /\ UNCHANGED <<gates, sched, locals, durable, venueVars>>

\* halt_for_venue_error and the halts of submit_prepared: halt_inner, then a
\* reconciliation whose error is ignored.
WorkerHalt ==
  /\ \/ WorkerAt("halt") /\ halt_inner("worker") /\ WorkerGoto("reconcile")
     \/ /\ WorkerAt("reconcile") /\ CallReconcile("worker") /\ WorkerGoto("release")
        /\ UNCHANGED <<storeVars, canc, history>>
  /\ UNCHANGED <<gates, sched, locals, durable, venueVars>>

ReleaseWorker ==
  /\ WorkerAt("release")
  /\ safetyGate' = "free" /\ lifecycleGate' = "free"
  /\ work' = IdleWork
  /\ WorkerGoto("idle")
  /\ UNCHANGED <<storeVars, sched, boot, todo, readRevision, frames, durable, venueVars,
                 history>>

WorkerStep ==
  \/ ReceiveIntent \/ LockSafety \/ LockLifecycle \/ PreIntentReconcile \/ CheckHealth
  \/ reject_received \/ BeginValidation \/ ValidateMarket
  \/ validate_freshness_and_increments \/ EvaluateRisk
  \/ BeginPreparation \/ PrepareOrder \/ BeginSubmission \/ SendToVenue
  \/ FinishSubmission \/ WorkerHalt \/ ReleaseWorker
=============================================================================
