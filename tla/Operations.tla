----------------------------- MODULE Operations -----------------------------
(***************************************************************************)
(* The mutating requests of api.rs with their idempotency keys, the        *)
(* backups of store.rs, and the event stream they write to. A request is   *)
(* a task that the timeout layer may drop wherever it waits; what it has   *)
(* committed stays. What the other operations do is modelled by            *)
(* Coordinator: here an admitted operation is the row it leaves, named by  *)
(* the request that created it.                                            *)
(***************************************************************************)
EXTENDS EventStream, FiniteSetsExt

CONSTANTS Requests,        \* identifiers of the requests of clients
          Scenarios,       \* bound of the model: what requests there are, as
                           \* functions to [key, op, body], and is there a client
                           \* of the event stream
          OperationSlots,  \* 64 in the code
          MaxRestarts,     \* bound of the model: restarts of the process
          None             \* no request: an unused key, no reply

Errors == {"IDEMPOTENCY_CONFLICT", "refused", "dropped"}

ASSUME OperationsAssumption ==
  /\ IsFiniteSet(Requests) /\ None \notin Requests \cup Errors
  /\ Requests \cap (Errors \cup {"free", "sending"}) = {}
  /\ \A s \in Scenarios : DOMAIN s.ask \subseteq Requests
  /\ OperationSlots \in Nat \ {0} /\ MaxRestarts \in Nat

VARIABLES
  ask,        \* what each request asks for
  watched,    \* is there a client of the event stream
  at,         \* where each request is
  reply,      \* what it was answered: the row of an operation, or an error
  mutation,   \* the request that holds mutation_gate, or None
  emergency,  \* the request that holds emergency_mutation_gate, or None
  keys,       \* idempotency_keys: the request whose row a key names
  effects,    \* the operations that were committed
  tasks,      \* spawned operations, each with its permit
  backup,     \* backups: state of each row
  file,       \* what VACUUM INTO wrote: the retained events it found
  manifest,   \* last_event_sequence of the manifest and of the row
  stage,      \* where run_backup is
  restarts    \* history

reqVars == <<at, reply, mutation, emergency, tasks>>
backupVars == <<backup, file, manifest, stage>>
opVars == <<ask, watched, reqVars, keys, effects, backupVars, restarts>>
operationsVars == <<streamVars, opVars>>

Key(r) == ask[r].key
SameRequest(r, s) == ask[r].op = ask[s].op /\ ask[r].body = ask[s].body

Running == {r \in Requests : backup[r] = "RUNNING"}

\* The last sequences are kept for the backups that are running, so that the
\* bound of the model never keeps one from ending.
Room(n) == last + n + Cardinality(Running) <= MaxSequence

OperationsInit ==
  /\ StreamInit
  /\ \E s \in Scenarios : ask = s.ask /\ watched = s.watched
  /\ at = [r \in Requests |-> "new"]
  /\ reply = [r \in Requests |-> None]
  /\ mutation = None /\ emergency = None
  /\ keys = [k \in {ask[r].key : r \in DOMAIN ask} |-> None]
  /\ effects = {} /\ tasks = {}
  /\ backup = [r \in Requests |-> "ABSENT"]
  /\ file = [r \in Requests |-> {}]
  /\ manifest = [r \in Requests |-> 0]
  /\ stage = [r \in Requests |-> "idle"]
  /\ restarts = 0

\* OperationsTypeOK: every variable keeps its type, and no more operations run
\* than there are permits (reserve_operation).
OperationsTypeOK ==
  /\ StreamTypeOK
  /\ at \in [Requests -> {"new", "gate", "lookup", "reserve", "commit", "fetch", "done"}]
  /\ reply \in [Requests -> Requests \cup Errors \cup {None}]
  /\ {mutation, emergency} \subseteq Requests \cup {None}
  /\ \A k \in DOMAIN keys : keys[k] \in Requests \cup {None}
  /\ effects \subseteq Requests /\ tasks \subseteq Requests
  /\ Cardinality(tasks) <= OperationSlots
  /\ backup \in [Requests -> {"ABSENT", "RUNNING", "COMPLETE", "FAILED"}]
  /\ stage \in [Requests -> {"idle", "vacuum", "copied", "publish", "failed"}]

-----------------------------------------------------------------------------
(* A request                                                               *)

\* Halts and cancellations do not wait behind a resume or a reconciliation;
\* submit_intent takes no gate.
Emergency(r) == ask[r].op \in {"cancellation", "control.halt"}
Gated(r) == ask[r].op # "intent"
Spawns(r) == ask[r].op \in {"cancellation", "reconciliation", "backup"}

\* Permits are held by the spawned operations and by the requests that are
\* about to spawn one.
SlotsInUse == tasks \cup {r \in Requests : at[r] \in {"commit", "fetch"} /\ Spawns(r)}

\* The request ends with an answer; its gate is released.
Answer(r, a) ==
  /\ at' = [at EXCEPT ![r] = "done"]
  /\ reply' = [reply EXCEPT ![r] = a]
  /\ mutation' = IF mutation = r THEN None ELSE mutation
  /\ emergency' = IF emergency = r THEN None ELSE emergency

Arrive(r) ==
  /\ at[r] = "new"
  /\ at' = [at EXCEPT ![r] = IF Gated(r) THEN "gate" ELSE "lookup"]
  /\ UNCHANGED <<streamVars, ask, watched, reply, mutation, emergency, tasks, keys, effects,
                 backupVars, restarts>>

LockGate(r) ==
  /\ at[r] = "gate"
  /\ IF Emergency(r) THEN emergency = None /\ emergency' = r /\ UNCHANGED mutation
                     ELSE mutation = None /\ mutation' = r /\ UNCHANGED emergency
  /\ at' = [at EXCEPT ![r] = "lookup"]
  /\ UNCHANGED <<streamVars, ask, watched, reply, tasks, keys, effects, backupVars, restarts>>

\* replay_intent only looks for keys of intents, idempotent_response for any.
StoredFor(r) ==
  IF ask[r].op = "intent" /\ keys[Key(r)] # None /\ ask[keys[Key(r)]].op # "intent"
    THEN None ELSE keys[Key(r)]

\* Mutant: the canonical request is not compared.
ReplayedByKey(r, s) == s

\* A stored operation answers an equal request and refuses any other.
Replayed(r, s) == IF SameRequest(r, s) THEN s ELSE "IDEMPOTENCY_CONFLICT"

replay_operation(r) ==
  /\ at[r] = "lookup"
  /\ IF StoredFor(r) # None
       THEN Answer(r, Replayed(r, StoredFor(r)))
       ELSE at' = [at EXCEPT ![r] = "reserve"] /\ UNCHANGED <<reply, mutation, emergency>>
  /\ UNCHANGED <<streamVars, ask, watched, tasks, keys, effects, backupVars, restarts>>

\* Mutant: the permit is not asked for.
ReserveWithoutSlot(r) ==
  /\ at[r] = "reserve"
  /\ \/ /\ at' = [at EXCEPT ![r] = "commit"]
        /\ UNCHANGED <<reply, mutation, emergency>>
     \/ Answer(r, "refused")
  /\ UNCHANGED <<streamVars, ask, watched, tasks, keys, effects, backupVars, restarts>>

\* enforce_admission_rate may refuse; a permit is taken if there is one.
Reserve(r) ==
  /\ at[r] = "reserve"
  /\ \/ /\ Spawns(r) => Cardinality(SlotsInUse) < OperationSlots
        /\ at' = [at EXCEPT ![r] = "commit"]
        /\ UNCHANGED <<reply, mutation, emergency>>
     \/ Answer(r, "refused")
  /\ UNCHANGED <<streamVars, ask, watched, tasks, keys, effects, backupVars, restarts>>

\* Mutant: an existing key does not roll the transaction back.
InsertRowsAnyway(r) ==
  /\ Room(IF ask[r].op = "backup" THEN 2 ELSE 1)
  /\ keys' = [keys EXCEPT ![Key(r)] = IF @ = None THEN r ELSE @]
  /\ effects' = effects \cup {r}
  /\ backup' = IF ask[r].op = "backup" THEN [backup EXCEPT ![r] = "RUNNING"] ELSE backup

\* The rows of the transaction: the operation, its key and its event.
InsertRows(r) ==
  /\ keys[Key(r)] = None
  /\ Room(IF ask[r].op = "backup" THEN 2 ELSE 1)
  /\ keys' = [keys EXCEPT ![Key(r)] = r]
  /\ effects' = effects \cup {r}
  /\ backup' = IF ask[r].op = "backup" THEN [backup EXCEPT ![r] = "RUNNING"] ELSE backup

\* The transaction of the operation. create_backup reads its row back before it
\* spawns the task; the others spawn theirs at once.
CommitOperation(r) ==
  /\ at[r] = "commit"
  /\ InsertRows(r)
  /\ append_event
  /\ IF ask[r].op = "backup"
       THEN /\ at' = [at EXCEPT ![r] = "fetch"]
            /\ UNCHANGED <<reply, mutation, emergency, tasks>>
       ELSE /\ Answer(r, r)
            /\ tasks' = IF Spawns(r) THEN tasks \cup {r} ELSE tasks
  /\ UNCHANGED <<ask, watched, pruned, sent, sub, file, manifest, stage, restarts>>

\* The key is in use, or the operation itself is refused (the service is not
\* READY, the resume is stale): nothing is kept. admit_intent answers an equal
\* intent that was admitted in the meantime; the key of another operation makes
\* its insertion fail.
RollBackOperation(r) ==
  LET s == keys[Key(r)] IN
  /\ at[r] = "commit" /\ writeGate = "free"
  /\ \/ Answer(r, "refused")
     \/ /\ s # None /\ ask[r].op = "intent" /\ ask[s].op = "intent"
        /\ Answer(r, Replayed(r, s))
     \/ /\ s # None /\ ask[r].op # "intent"
        /\ Answer(r, "IDEMPOTENCY_CONFLICT")
  /\ UNCHANGED <<streamVars, ask, watched, tasks, keys, effects, backupVars, restarts>>

SpawnBackup(r) ==
  /\ at[r] = "fetch"
  /\ Answer(r, r)
  /\ tasks' = tasks \cup {r}
  /\ stage' = [stage EXCEPT ![r] = "vacuum"]
  /\ UNCHANGED <<streamVars, ask, watched, keys, effects, backup, file, manifest, restarts>>

\* The timeout layer drops the request. A commit under way may still happen;
\* nobody broadcasts its event, nor spawns its task. A backup whose row cannot be
\* read back ends the same way.
DropRequest(r) ==
  /\ at[r] \notin {"new", "done"}
  /\ Answer(r, "dropped")
  /\ \/ UNCHANGED <<streamVars, keys, effects, backup>>
     \/ /\ at[r] = "commit" /\ InsertRows(r) /\ AppendUnannounced
        /\ UNCHANGED <<pruned, sent, sub>>
  /\ UNCHANGED <<ask, watched, tasks, file, manifest, stage, restarts>>

RequestStep(r) ==
  \/ Arrive(r) \/ LockGate(r) \/ replay_operation(r) \/ Reserve(r)
  \/ CommitOperation(r) \/ RollBackOperation(r) \/ SpawnBackup(r) \/ DropRequest(r)

\* Any other spawned operation ends and gives its permit back.
EndTask(r) ==
  /\ r \in tasks /\ ask[r].op # "backup"
  /\ tasks' = tasks \ {r}
  /\ UNCHANGED <<streamVars, ask, watched, at, reply, mutation, emergency, keys, effects,
                 backupVars, restarts>>

-----------------------------------------------------------------------------
(* run_backup                                                              *)

Stage(r, s) == stage' = [stage EXCEPT ![r] = s]

\* Mutant: the writer is not quiesced for the copy.
VacuumWithoutGate(r) ==
  /\ stage[r] = "vacuum" /\ writeGate = "free"
  /\ file' = [file EXCEPT ![r] = pruned + 1 .. last] /\ Stage(r, "copied")
  /\ UNCHANGED <<streamVars, ask, watched, reqVars, keys, effects, backup, manifest, restarts>>

\* create_backup_files takes write_gate and copies the database.
VacuumInto(r) ==
  /\ stage[r] = "vacuum" /\ writeGate = "free"
  /\ writeGate' = r
  /\ file' = [file EXCEPT ![r] = pruned + 1 .. last] /\ Stage(r, "copied")
  /\ UNCHANGED <<last, pruned, outbox, sent, unannounced, sub, ask, watched, reqVars, keys, effects,
                 backup, manifest, restarts>>

\* The last sequence is read for the manifest after the copy was checked.
WriteManifest(r) ==
  /\ stage[r] = "copied"
  /\ manifest' = [manifest EXCEPT ![r] = last] /\ Stage(r, "publish")
  /\ UNCHANGED <<streamVars, ask, watched, reqVars, keys, effects, backup, file, restarts>>

\* The files are renamed, then COMPLETE and the event are committed under the
\* same gate, which goes on to the broadcast.
PublishBackup(r) ==
  /\ stage[r] = "publish"
  /\ backup' = [backup EXCEPT ![r] = "COMPLETE"]
  /\ last' = last + 1 /\ outbox' = outbox \cup {last'} /\ writeGate' = "sending"
  /\ tasks' = tasks \ {r} /\ Stage(r, "idle")
  /\ UNCHANGED <<pruned, sent, unannounced, sub, ask, watched, at, reply, mutation, emergency, keys,
                 effects, file, manifest, restarts>>

\* An error of any step: the gate is released first.
BackupError(r) ==
  /\ stage[r] \in {"vacuum", "copied", "publish"}
  /\ stage[r] = "vacuum" => writeGate = "free"
  /\ writeGate' = IF writeGate = r THEN "free" ELSE writeGate
  /\ Stage(r, "failed")
  /\ UNCHANGED <<last, pruned, outbox, sent, unannounced, sub, ask, watched, reqVars, keys, effects,
                 backup, file, manifest, restarts>>

\* Mutant: the error ends the task before the row is updated.
FailWithoutRow(r) ==
  /\ stage[r] = "failed"
  /\ tasks' = tasks \ {r} /\ Stage(r, "idle")
  /\ UNCHANGED <<streamVars, ask, watched, at, reply, mutation, emergency, keys, effects, backup,
                 file, manifest, restarts>>

FailBackup(r) ==
  /\ stage[r] = "failed"
  /\ backup' = [backup EXCEPT ![r] = "FAILED"]
  /\ append_event
  /\ tasks' = tasks \ {r} /\ Stage(r, "idle")
  /\ UNCHANGED <<pruned, sent, sub, ask, watched, at, reply, mutation, emergency, keys, effects,
                 file, manifest, restarts>>

BackupStep(r) ==
  VacuumInto(r) \/ WriteManifest(r) \/ PublishBackup(r) \/ BackupError(r) \/ FailBackup(r)

-----------------------------------------------------------------------------
(* The other writers, retention, restarts                                  *)

\* Any other transaction of the store.
OtherEvent ==
  /\ Room(1) /\ append_event
  /\ UNCHANGED <<pruned, sent, sub, opVars>>

BackedUpThrough == {manifest[r] : r \in {s \in Requests : backup[s] = "COMPLETE"}}

Prune == prune_events(BackedUpThrough) /\ UNCHANGED opVars

\* fail_interrupted_backups: one event for each interrupted backup, before the
\* API is served again. Requests and clients of the old process are gone.
Restart ==
  /\ restarts < MaxRestarts
  /\ restarts' = restarts + 1
  /\ at' = [r \in Requests |-> IF at[r] = "new" THEN "new" ELSE "done"]
  /\ reply' = [r \in Requests |-> IF at[r] \in {"new", "done"} THEN reply[r] ELSE "dropped"]
  /\ mutation' = None /\ emergency' = None /\ tasks' = {}
  /\ backup' = [r \in Requests |-> IF r \in Running THEN "FAILED" ELSE backup[r]]
  /\ stage' = [r \in Requests |-> "idle"]
  /\ last' = last + Cardinality(Running)
  /\ writeGate' = "free" /\ outbox' = {} /\ sent' = <<>> /\ sub' = Disconnected
  /\ UNCHANGED <<ask, watched, pruned, unannounced, keys, effects, file, manifest>>

OperationsNext ==
  \/ \E r \in DOMAIN ask : RequestStep(r) \/ EndTask(r) \/ BackupStep(r)
  \/ OtherEvent \/ Prune
  \/ Broadcast /\ UNCHANGED opVars
  \/ watched /\ ClientStep /\ UNCHANGED opVars
  \/ Restart

\* A writer broadcasts, a request that has committed goes on (or is dropped),
\* and a spawned backup goes on, without anyone's help;
\* write_gate is a tokio mutex, which serves the waiting tasks in order.
OperationsFairness ==
  /\ WF_operationsVars(Broadcast /\ UNCHANGED opVars)
  /\ \A r \in Requests : WF_operationsVars(SpawnBackup(r))
                         /\ SF_operationsVars(BackupStep(r))

OperationsSpec == OperationsInit /\ [][OperationsNext]_operationsVars /\ OperationsFairness

-----------------------------------------------------------------------------
(* Properties                                                              *)

\* OneEffectPerKey: whatever requests with one key run side by side, under
\* different gates, are dropped or are sent again after a restart, at most one
\* operation is committed for the key (insert_idempotency_record, admit_intent).
OneEffectPerKey ==
  \A r, s \in effects : Key(r) = Key(s) => r = s

\* ReplayIsExact: a request that is answered with an operation is answered with
\* a committed operation that was asked for with the same key and the same
\* canonical request (replay_intent, idempotent_response).
ReplayIsExact ==
  \A r \in Requests : reply[r] \in Requests =>
    /\ reply[r] \in effects
    /\ Key(reply[r]) = Key(r) /\ SameRequest(reply[r], r)

\* PrunedIsInABackup: a live audit event that was deleted from the journal is in
\* the file of a complete backup (prune_events, create_backup_files).
PrunedIsInABackup ==
  LiveMode => \A s \in 1..pruned :
    \E r \in Requests : backup[r] = "COMPLETE" /\ s \in file[r]

\* The request was dropped after the row of its backup was committed.
Abandoned(r) == reply[r] = "dropped"

\* BackupsEnd: a backup that is RUNNING becomes COMPLETE or FAILED, through
\* errors of any step and restarts, unless the request that started it was
\* dropped before it spawned the task (run_backup, fail_interrupted_backups).
BackupsEnd ==
  \A r \in Requests :
    backup[r] = "RUNNING" ~> backup[r] \in {"COMPLETE", "FAILED"} \/ Abandoned(r)
=============================================================================
