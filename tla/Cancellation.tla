---------------------------- MODULE Cancellation ----------------------------
(***************************************************************************)
(* create_cancellation and execute_cancellation as a routine that any task *)
(* p may have called (its frame is canc[p]), and the spawned               *)
(* cancellations, which run it under order_lifecycle_gate.                 *)
(***************************************************************************)
EXTENDS CoordinatorState

InCancel(p, l) == canc[p].at = l /\ recon[p].at = "idle"

SetCancel(p, frame) ==
  canc' = [canc EXCEPT ![p] = frame] /\ UNCHANGED recon

\* Continue with the next target, the current one being settled.
NextTarget(p) ==
  [canc[p] EXCEPT !.at = "next", !.cur = NoIntent, !.seen = "ABSENT"]

\* An error ends the routine; the request stays PENDING.
CancelError(p) ==
  /\ SetCancel(p, IdleCancel)
  /\ Goto(p, AfterError(pc[p]))
  /\ UNCHANGED storeVars

\* Orders an all_open_orders request selects.
OpenOrders == {i \in Intents : order[i] \notin TerminalOrderState \cup {"ABSENT"}}

CreateCancellation(p) ==
  /\ InCancel(p, "create")
  /\ pendingCancels' = pendingCancels \cup ({OpenOrders} \ {{}})
  /\ SetCancel(p, [canc[p] EXCEPT !.at = "next", !.targets = OpenOrders,
                                  !.todo = OpenOrders])
  /\ UNCHANGED <<storeVars, pc, gates, sched, locals, critical, orphanRuns, venueVars, history>>

\* get_order: the state read here decides what the later steps attempt.
ReadTarget(p) ==
  /\ InCancel(p, "next")
  /\ \E i \in canc[p].todo :
       LET rest == [canc[p] EXCEPT !.todo = @ \ {i}] IN
       SetCancel(p,
         IF order[i] \in TerminalOrderState THEN rest
         ELSE [rest EXCEPT !.at = IF order[i] = "UNKNOWN" THEN "venue" ELSE "act",
                           !.cur = i, !.seen = order[i]])
  /\ UNCHANGED <<storeVars, pc, gates, sched, locals, durable, venueVars, history>>

\* A prepared order is cancelled locally, any other is marked CANCEL_PENDING.
MarkTarget(p) ==
  LET i == canc[p].cur IN
  /\ InCancel(p, "act")
  /\ \/ /\ canc[p].seen = "PREPARED"
        /\ cancel_prepared_order(i)
        /\ SetCancel(p, NextTarget(p)) /\ UNCHANGED pc
     \/ /\ canc[p].seen # "PREPARED"
        /\ transition_order(i, "CANCEL_PENDING")
        /\ SetCancel(p, IF order[i] \in TerminalOrderState THEN NextTarget(p)
                        ELSE [canc[p] EXCEPT !.at = "venue"])
        /\ UNCHANGED pc
     \/ /\ IF canc[p].seen = "PREPARED" THEN order[i] # "PREPARED"
           ELSE /\ order[i] \notin TerminalOrderState
                /\ ~valid_order_transition(order[i], "CANCEL_PENDING")
        /\ CancelError(p)
  /\ UNCHANGED <<gates, sched, locals, durable, venueVars, history>>

\* The venue acknowledges the cancellation of an open order, or answers with
\* an error or not at all, with or without having cancelled it.
CancelAtVenue(p) ==
  LET i == canc[p].cur IN
  /\ InCancel(p, "venue")
  /\ \/ /\ venue[i] = "LIVE"
        /\ venue' = [venue EXCEPT ![i] = "CANCELLED"]
        /\ SetCancel(p, [canc[p] EXCEPT !.at = "commit"])
     \/ /\ venue' \in {venue, [venue EXCEPT ![i] = IF @ = "LIVE" THEN "CANCELLED" ELSE @]}
        /\ canc' = [canc EXCEPT ![p] = NextTarget(p)]
        /\ CallReconcile(p)
  /\ UNCHANGED <<storeVars, pc, gates, sched, locals, durable, matched, history>>

CommitCancelled(p) ==
  LET i == canc[p].cur IN
  /\ InCancel(p, "commit")
  /\ \/ /\ transition_order(i, "CANCELLED")
        /\ SetCancel(p, NextTarget(p)) /\ UNCHANGED pc
     \/ /\ ~valid_order_transition(order[i], "CANCELLED")
        /\ CancelError(p)
  /\ UNCHANGED <<gates, sched, locals, durable, venueVars, history>>

finish_cancellation(p) ==
  /\ InCancel(p, "next") /\ canc[p].todo = {}
  /\ pendingCancels' = pendingCancels \ {canc[p].targets}
  /\ SetCancel(p, IdleCancel)
  /\ UNCHANGED <<storeVars, pc, gates, sched, locals, critical, orphanRuns, venueVars, history>>

CancelStep(p) ==
  \/ CreateCancellation(p) \/ ReadTarget(p) \/ MarkTarget(p)
  \/ CancelAtVenue(p) \/ CommitCancelled(p) \/ finish_cancellation(p)

-----------------------------------------------------------------------------
(* Spawned cancellations                                                   *)

\* Mutant: a cancellation does not wait for order_lifecycle_gate.
CancelWithoutGate ==
  /\ At("canceller", "idle")
  /\ \E t \in cancelTasks :
       /\ cancelTasks' = cancelTasks \ {t}
       /\ SetCancel("canceller",
            IF t.all THEN [IdleCancel EXCEPT !.at = "create"]
            ELSE [IdleCancel EXCEPT !.at = "next", !.targets = t.targets,
                                    !.todo = t.targets])
  /\ Goto("canceller", "release")
  /\ UNCHANGED <<storeVars, gates, queue, deferred, heartbeat, locals, durable,
                 venueVars, history>>

StartCancellation ==
  /\ At("canceller", "idle") /\ lifecycleGate = "free"
  /\ \E t \in cancelTasks :
       /\ cancelTasks' = cancelTasks \ {t}
       /\ SetCancel("canceller",
            IF t.all THEN [IdleCancel EXCEPT !.at = "create"]
            ELSE [IdleCancel EXCEPT !.at = "next", !.targets = t.targets,
                                    !.todo = t.targets])
  /\ lifecycleGate' = "canceller"
  /\ Goto("canceller", "release")
  /\ UNCHANGED <<storeVars, safetyGate, queue, deferred, heartbeat, locals, durable,
                 venueVars, history>>

EndCancellation ==
  /\ At("canceller", "release")
  /\ lifecycleGate' = "free"
  /\ Goto("canceller", "idle")
  /\ UNCHANGED <<storeVars, safetyGate, sched, locals, frames, durable, venueVars,
                 history>>
=============================================================================
