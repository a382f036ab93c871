-------------------------- MODULE CoordinatorState --------------------------
(***************************************************************************)
(* The state of the execution coordinator of execution.rs, on top of the   *)
(* order journal, and what its routines share.                             *)
(*                                                                         *)
(* Four asynchronous tasks run side by side: main (startup and shutdown),  *)
(* the worker that processes queued intents, control (the reconciliation,  *)
(* resume and heartbeat-halt jobs; each holds safety_gate from start to    *)
(* end, so one task stands for all of them) and the canceller (the spawned *)
(* cancellations; each holds cancellation_gate, so one task stands for all *)
(* of them). Between two awaits a task runs alone: a step is one           *)
(* transaction of the store or one call of the venue.                      *)
(*                                                                         *)
(* reconcile_inner and execute_cancellation are called by several tasks. A *)
(* task that has called one of them has a frame, recon[p] or canc[p]; its  *)
(* own label pc[p] is where the call returns to.                           *)
(*                                                                         *)
(* A crash loses the tasks, gates, frames and queues; the journal, the     *)
(* pending cancellations and the findings survive.                         *)
(***************************************************************************)
EXTENDS Store, Sequences

CONSTANTS CancelOnHalt,     \* RiskPolicy.cancel_on_halt
          NeedsHeartbeat,   \* ExecutionVenue::requires_heartbeat
          MalformedReplies, \* the venue may accept with a reply that fails
                            \* validate_venue_order_evidence
          RequestTimeouts,  \* the HTTP timeout may end a resume request
          OperatorCancels,  \* bound of the model: are there requests to cancel
          QueueCapacity,    \* bound of the mpsc channel (100 in the code)
          MaxRestarts,      \* bound of the model: restarts of the process
          NoIntent          \* "no intent", e.g. of an idle worker

ASSUME FlagsAssumption ==
  /\ CancelOnHalt \in BOOLEAN
  /\ NeedsHeartbeat \in BOOLEAN
  /\ MalformedReplies \in BOOLEAN
  /\ RequestTimeouts \in BOOLEAN
  /\ OperatorCancels \in BOOLEAN
ASSUME QueueAssumption == QueueCapacity \in Nat \ {0}
ASSUME MaxRestartsAssumption == MaxRestarts \in Nat
ASSUME NoIntentAssumption == NoIntent \notin Intents

Procs == {"main", "worker", "control", "canceller"}

VARIABLES
  pc,             \* label of each task
  safetyGate,     \* task that holds safety_gate, or "free"
  lifecycleGate,  \* task that holds order_lifecycle_gate, or "free"
  queue,          \* the mpsc channel of the worker
  deferred,       \* deferred_recovery
  cancelTasks,    \* spawned cancellations that wait for cancellation_gate
  heartbeat,      \* the heartbeat task: beating, or how far its halt has come
  work,           \* worker: the intent and the reply of the venue
  boot,           \* main: prior state and PENDING requests read at startup
  todo,           \* main, control: recovered intents still to be enqueued
  readRevision,   \* control: revision read by resume
  recon,          \* frames of reconcile_started
  canc,           \* frames of execute_cancellation
  critical,       \* some critical reconciliation finding is unresolved
  orphanRuns,     \* some reconciliation_runs row is RUNNING and abandoned
  pendingCancels, \* targets of the PENDING cancellation_requests
  venue,          \* what the venue knows of the order of an intent
  matched,        \* lots the venue has matched
  restarts,       \* history: restarts so far
  sends,          \* history: how often an order was sent to the venue
  latch           \* history: does a halt still wait for an operator

gates == <<safetyGate, lifecycleGate>>
sched == <<queue, deferred, cancelTasks, heartbeat>>
locals == <<work, boot, todo, readRevision>>
frames == <<recon, canc>>
durable == <<critical, orphanRuns, pendingCancels>>
venueVars == <<venue, matched>>
history == <<restarts, sends, latch>>
vars == <<storeVars, pc, gates, sched, locals, frames, durable, venueVars,
          history>>

\* The labels of the four tasks: s_ startup, d_ shutdown, r_ resume, h_ the
\* heartbeat's halt; "serving" and "exit" are the states main waits in.
MainLabel ==
  {"s_read", "s_mark", "s_runs", "s_interrupted", "s_halt", "s_recover", "s_pending",
   "s_reconcile", "s_beat", "s_state", "s_ready", "enqueue", "release", "serving",
   "d_cancel", "d_reconcile", "d_lock", "d_mark", "exit"}
WorkerLabel ==
  {"idle", "safety", "lifecycle", "stream", "health", "reject", "ready", "validate",
   "risk", "approved", "prepare", "begin", "send", "finish", "halt", "reconcile",
   "release"}
ControlLabel ==
  {"idle", "r_beat", "r_check", "r_commit", "enqueue", "h_cancelled", "h_done",
   "release"}
CancellerLabel == {"idle", "release"}
Label == MainLabel \cup WorkerLabel \cup ControlLabel

LabelsOK ==
  /\ pc \in [Procs -> Label]
  /\ pc["main"] \in MainLabel
  /\ pc["worker"] \in WorkerLabel
  /\ pc["control"] \in ControlLabel
  /\ pc["canceller"] \in CancellerLabel

ReconLabel == {"idle", "orders", "read", "project", "unknowns", "lookup",
               "resolve", "halt", "fail", "failHalt", "error", "errorHalt"}
\* What a submission can come back with: the state of the order in the response
\* of the venue, or the class of its error; "none" while there is no reply.
Accepted == {"LIVE", "FILLED", "CANCELLED"}
ReplyKind == Accepted \cup {"none", "malformed", "rejected", "ambiguous"}
CancelLabel == {"idle", "create", "next", "act", "venue", "commit"}

\* A venue observation; "none" when find_order knows nothing of the order.
Evidence(state, filled) ==
  [state |-> state, filled |-> filled, remaining |-> Qty - filled, ids |-> filled]
NoEvidence == Evidence("none", 0)

\* open: the snapshot of open orders; trades: the snapshot of matched lots.
IdleRecon == [at |-> "idle", open |-> [i \in {} |-> 0],
              trades |-> [i \in Intents |-> 0], todo |-> {}, cur |-> NoIntent,
              found |-> NoEvidence, bad |-> FALSE]
IdleCancel == [at |-> "idle", targets |-> {}, todo |-> {}, cur |-> NoIntent,
               seen |-> "ABSENT"]
IdleWork == [intent |-> NoIntent, reply |-> "none", filled |-> 0]
IdleBoot == [prior |-> "STARTING", requests |-> {}]
Protective == [all |-> TRUE, targets |-> {}]

\* CoordTypeOK: every variable keeps its type and every task stays in its own code;
\* the channel never holds more than its capacity, whoever fills it (reserve_queue
\* and enqueue_recovered).
CoordTypeOK ==
  /\ LabelsOK
  /\ {safetyGate, lifecycleGate} \subseteq Procs \cup {"free"}
  /\ queue \in Seq(Intents) /\ Len(queue) <= QueueCapacity
  /\ deferred \subseteq Intents
  /\ cancelTasks \subseteq [all : BOOLEAN, targets : SUBSET Intents]
  /\ heartbeat \in {"beating", "halted", "cancelled"}
  /\ work \in [intent : Intents \cup {NoIntent}, reply : ReplyKind, filled : 0..Qty]
  /\ boot \in [prior : ServiceState, requests : SUBSET SUBSET Intents]
  /\ todo \in [{"main", "control"} -> SUBSET Intents]
  /\ readRevision \in 0..MaxRevision
  /\ \A p \in Procs : recon[p].at \in ReconLabel /\ recon[p].todo \subseteq Intents
  /\ \A p \in Procs : canc[p].at \in CancelLabel /\ canc[p].todo \subseteq Intents
  /\ critical \in BOOLEAN /\ orphanRuns \in BOOLEAN
  /\ pendingCancels \subseteq SUBSET Intents
  /\ venue \in [Intents -> {"none", "inflight", "LIVE", "FILLED", "CANCELLED"}]
  /\ matched \in [Intents -> 0..Qty]

\* What a process starts with: main holds safety_gate for startup.
FreshProcess ==
  /\ pc' = [p \in Procs |-> IF p = "main" THEN "s_read" ELSE "idle"]
  /\ safetyGate' = "main" /\ lifecycleGate' = "free"
  /\ queue' = <<>> /\ deferred' = {} /\ cancelTasks' = {}
  /\ heartbeat' = "beating"
  /\ work' = IdleWork /\ boot' = IdleBoot
  /\ todo' = [p \in {"main", "control"} |-> {}] /\ readRevision' = 0
  /\ recon' = [p \in Procs |-> IdleRecon] /\ canc' = [p \in Procs |-> IdleCancel]

Init ==
  /\ StoreInit
  /\ pc = [p \in Procs |-> IF p = "main" THEN "s_read" ELSE "idle"]
  /\ safetyGate = "main" /\ lifecycleGate = "free"
  /\ queue = <<>> /\ deferred = {} /\ cancelTasks = {} /\ heartbeat = "beating"
  /\ work = IdleWork /\ boot = IdleBoot
  /\ todo = [p \in {"main", "control"} |-> {}] /\ readRevision = 0
  /\ recon = [p \in Procs |-> IdleRecon] /\ canc = [p \in Procs |-> IdleCancel]
  /\ critical = FALSE /\ orphanRuns = FALSE /\ pendingCancels = {}
  /\ venue = [i \in Intents |-> "none"] /\ matched = [i \in Intents |-> 0]
  /\ restarts = 0 /\ sends = [i \in Intents |-> 0]
  /\ latch = "none"

-----------------------------------------------------------------------------
(* Control flow of a task                                                  *)

\* The task has returned from the routines it called and is at label l.
At(p, l) == pc[p] = l /\ recon[p].at = "idle" /\ canc[p].at = "idle"

Goto(p, l) == pc' = [pc EXCEPT ![p] = l]

\* Where an error of a called routine leads, for the callers that use "?".
AfterError(l) ==
  CASE l \in {"s_pending", "s_reconcile", "s_beat"} -> "exit"   \* startup
    [] l \in {"d_reconcile", "d_mark"}              -> "exit"   \* shutdown
    [] l = "r_beat"                                 -> "release" \* resume
    [] OTHER                                        -> l

\* What every write of HALTED does besides the write.
LatchHalt == latch' = "halted" /\ UNCHANGED <<restarts, sends>>

spawn_protective_cancellation ==
  cancelTasks' = IF CancelOnHalt THEN cancelTasks \cup {Protective} ELSE cancelTasks

CallReconcile(p) == recon' = [recon EXCEPT ![p] = [IdleRecon EXCEPT !.at = "orders"]]

\* halt_inner: the write of HALTED, then cancel_on_halt_inner.
halt_inner(p) ==
  /\ set_service_state("HALTED")
  /\ LatchHalt
  /\ canc' = IF CancelOnHalt
               THEN [canc EXCEPT ![p] = [IdleCancel EXCEPT !.at = "create"]]
               ELSE canc
  /\ UNCHANGED recon

-----------------------------------------------------------------------------
(* The venue (external, as the adapters of venue/ present it).  An order   *)
(* whose reply was lost may still arrive, or never.                        *)

VenueStep(i) ==
  /\ \/ /\ venue[i] = "inflight"
        /\ \E s \in {"LIVE", "none"} : venue' = [venue EXCEPT ![i] = s]
        /\ UNCHANGED matched
     \/ /\ venue[i] = "LIVE"
        /\ matched' = [matched EXCEPT ![i] = @ + 1]
        /\ venue' = [venue EXCEPT ![i] = IF matched'[i] = Qty THEN "FILLED" ELSE @]
     \/ /\ venue[i] = "LIVE"
        /\ venue' = [venue EXCEPT ![i] = "CANCELLED"]
        /\ UNCHANGED matched
  /\ UNCHANGED <<storeVars, pc, gates, sched, locals, frames, durable, history>>

\* Open orders as the venue's reconcile lists them.
OpenAtVenue == [i \in {j \in Intents : venue[j] = "LIVE"} |-> matched[i]]

\* Trades as the venue's reconcile lists them, after the orders.
TradesAtVenue == matched

\* Findings of the adapter itself (trade statuses, allowances, the pagination of
\* positions): there may or may not be one.
VenueFindings == BOOLEAN

find_order(i) ==
  IF venue[i] \in {"LIVE", "FILLED", "CANCELLED"} THEN Evidence(venue[i], matched[i])
                                                  ELSE NoEvidence
=============================================================================
