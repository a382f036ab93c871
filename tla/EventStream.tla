----------------------------- MODULE EventStream -----------------------------
(***************************************************************************)
(* The audit journal execution_events and one client of GET /v1/events.    *)
(* A sequence number is given by the insertion (AUTOINCREMENT), so the     *)
(* retained events are always pruned+1 .. last. A writer commits, and then *)
(* broadcasts, while it holds write_gate: a reader can come between the    *)
(* two. An event whose writer is dropped inside the commit (the timeout    *)
(* layer of api.rs) is in the journal and is never broadcast.              *)
(***************************************************************************)
EXTENDS Integers, FiniteSets, Sequences, SequencesExt

CONSTANTS LiveMode,         \* Mode::Live, where pruning needs a backup
          EventRetention,   \* event_retention of the configuration
          ReplayLimit,      \* 10_000 in the code
          ChannelCapacity,  \* 1024 in the code
          MaxSequence       \* bound of the model: events in all

ASSUME StreamAssumption ==
  /\ LiveMode \in BOOLEAN
  /\ {EventRetention, ReplayLimit, ChannelCapacity, MaxSequence} \subseteq Nat \ {0}

VARIABLES
  last,         \* the largest sequence ever inserted
  pruned,       \* every event up to this one is deleted
  writeGate,    \* "free", "sending", or the backup that holds the gate
  outbox,       \* committed events that their writer has yet to broadcast
  sent,         \* what this process has broadcast, in order
  unannounced,  \* history: events that will never be broadcast
  sub           \* the request of the client and what it has received

streamVars == <<last, pruned, writeGate, outbox, sent, unannounced, sub>>

\* after: Last-Event-ID; next: position of the receiver in the channel; base,
\* got: since the last reset (or the connection) the client knows everything up
\* to base and has received got.
Disconnected == [at |-> "off", after |-> 0, next |-> 1, minimum |-> 0,
                 maximum |-> 0, watermark |-> 0, base |-> 0, got |-> <<>>]

StreamInit ==
  /\ last = 1 /\ pruned = 0       \* startup has written its first event
  /\ writeGate = "free" /\ outbox = {} /\ sent = <<>> /\ unannounced = {}
  /\ sub = Disconnected

StreamTypeOK ==
  /\ last \in 1..MaxSequence /\ pruned \in 0..last
  /\ outbox \subseteq 1..last /\ unannounced \subseteq 1..last
  /\ sent \in Seq(1..last)
  /\ sub.at \in {"off", "bounds", "replay", "live"}
  /\ sub.got \in Seq(1..last)

-----------------------------------------------------------------------------
(* Writers                                                                 *)

\* Mutant: the gate is released before the event is broadcast.
ReleaseThenSend ==
  /\ writeGate = "free"
  /\ last' = last + 1
  /\ outbox' = outbox \cup {last'}
  /\ UNCHANGED <<writeGate, unannounced>>

\* The end of a transaction with one event: the writer keeps the gate until it
\* has broadcast the event.
append_event ==
  /\ writeGate = "free"
  /\ last' = last + 1
  /\ outbox' = {last'}
  /\ writeGate' = "sending"
  /\ UNCHANGED unannounced

\* The same, but the writer is gone before its commit returns.
AppendUnannounced ==
  /\ writeGate = "free"
  /\ last' = last + 1
  /\ unannounced' = unannounced \cup {last'}
  /\ UNCHANGED <<writeGate, outbox>>

Broadcast ==
  /\ \E s \in outbox :
       /\ sent' = Append(sent, s)
       /\ outbox' = outbox \ {s}
  /\ writeGate' = IF writeGate = "sending" THEN "free" ELSE writeGate
  /\ UNCHANGED <<last, pruned, unannounced, sub>>

\* Called at the end of every reconciliation the venue answered; backedUpThrough:
\* the last sequences of the complete backups.
prune_events(backedUpThrough) ==
  LET cutoff == last - EventRetention IN
  /\ writeGate = "free"
  /\ cutoff > pruned
  /\ LiveMode => \E m \in backedUpThrough : m >= cutoff
  /\ pruned' = cutoff
  /\ UNCHANGED <<last, writeGate, outbox, sent, unannounced, sub>>

-----------------------------------------------------------------------------
(* GET /v1/events                                                          *)

\* The receiver exists before the journal is read.
subscribe ==
  /\ sub.at = "off"
  /\ \E after \in 0..last + 1 :
       sub' = [Disconnected EXCEPT !.at = "bounds", !.after = after,
                                   !.next = Len(sent) + 1]
  /\ UNCHANGED <<last, pruned, writeGate, outbox, sent, unannounced>>

\* Mutant: a cursor is outside only when its own event and the next are gone.
OutsideByOne(after, minimum, maximum) ==
  after > 0 /\ (after + 1 < minimum - 1 \/ after > maximum)

event_cursor_outside_retention(after, minimum, maximum) ==
  after > 0 /\ (after < minimum - 1 \/ after > maximum)

\* A reset tells the client to query the resources: it then knows everything up
\* to the watermark.
Reset(watermark) ==
  sub' = [sub EXCEPT !.at = "live", !.watermark = watermark, !.base = watermark,
                     !.got = <<>>]

event_sequence_bounds ==
  /\ sub.at = "bounds"
  /\ IF event_cursor_outside_retention(sub.after, pruned + 1, last)
       THEN Reset(last)
       ELSE sub' = [sub EXCEPT !.at = "replay", !.minimum = pruned + 1,
                               !.maximum = last]
  /\ UNCHANGED <<last, pruned, writeGate, outbox, sent, unannounced>>

\* A second query: an event may have been added, or pruned, since the bounds.
replay_events ==
  LET from == IF sub.after > pruned THEN sub.after ELSE pruned
      found == IF last - from > ReplayLimit THEN ReplayLimit ELSE last - from
      replay == [n \in 1..found |-> from + n]
      watermark == IF found = 0 THEN sub.after ELSE from + found
  IN /\ sub.at = "replay"
     /\ IF watermark < sub.maximum
          THEN Reset(sub.maximum)    \* event_replay_truncated
          ELSE sub' = [sub EXCEPT !.at = "live", !.watermark = watermark,
                                  !.base = sub.after, !.got = replay]
     /\ UNCHANGED <<last, pruned, writeGate, outbox, sent, unannounced>>

\* The live flow: what the replay has covered is skipped.
DeliverLive ==
  /\ sub.at = "live" /\ sub.next <= Len(sent)
  /\ Len(sent) - sub.next < ChannelCapacity
  /\ sub' = [sub EXCEPT !.next = @ + 1,
                        !.got = IF sent[sub.next] > sub.watermark
                                  THEN Append(@, sent[sub.next]) ELSE @]
  /\ UNCHANGED <<last, pruned, writeGate, outbox, sent, unannounced>>

\* The channel has overwritten what the receiver has not read: a reset, and the
\* stream goes on with the oldest event the channel still has.
ClientLagged ==
  LET oldest == Len(sent) - ChannelCapacity + 1
      known == {sub.base, sent[oldest - 1]} \cup ToSet(sub.got)
  IN
  /\ sub.at = "live" /\ sub.next < oldest
  /\ sub' = [sub EXCEPT !.next = oldest, !.base = Max(known), !.got = <<>>]
  /\ UNCHANGED <<last, pruned, writeGate, outbox, sent, unannounced>>

Disconnect ==
  /\ sub.at # "off" /\ sub' = Disconnected
  /\ UNCHANGED <<last, pruned, writeGate, outbox, sent, unannounced>>

ClientStep ==
  \/ subscribe \/ event_sequence_bounds \/ replay_events
  \/ DeliverLive \/ ClientLagged \/ Disconnect

-----------------------------------------------------------------------------
(* Properties                                                              *)

\* What the client has been passed over without a reset.
Missed ==
  IF sub.got = <<>> THEN {} ELSE (sub.base + 1 .. Last(sub.got)) \ ToSet(sub.got)

\* StreamInOrder: between two resets a client receives strictly increasing
\* sequences, although the replay and the live flow are read from two sources
\* and overlap (events in api.rs; the broadcast under write_gate in store.rs).
StreamInOrder ==
  /\ \A m, n \in 1..Len(sub.got) : m < n => sub.got[m] < sub.got[n]
  /\ \A n \in 1..Len(sub.got) : sub.got[n] > sub.base

\* NoSilentGap: a client that was not told to start over has received every
\* event up to the last one it has, except events deleted between its two queries
\* of the journal (all deleted ones when it has no cursor) and events whose writer
\* was dropped inside its commit (events, replay_events).
NoSilentGap ==
  Missed \subseteq ((IF sub.after = 0 THEN 1 ELSE sub.minimum)..pruned) \cup unannounced
==============================================================================
