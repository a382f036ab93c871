--------------------------- MODULE OperationsProofs ---------------------------
(***************************************************************************)
(* The event stream, idempotency keys, retention and backups, for every    *)
(* set of requests, whatever they ask for, every retention, every capacity *)
(* of the channel and every number of restarts.                            *)
(***************************************************************************)
EXTENDS Operations, TLAPS, FiniteSetTheorems

-----------------------------------------------------------------------------
(* The event stream: the journal, the channel and the client, whoever      *)
(* writes to them.                                                         *)

SubRecord ==
  [at : {"off", "bounds", "replay", "live"}, after : Nat, next : Nat, minimum : Nat,
   maximum : Nat, watermark : Nat, base : Nat, got : Seq(Nat)]

\* The channel carries the events of this process in their order; an event that is
\* yet to be broadcast is the last one, and its writer has the gate.
ChannelInv ==
  /\ last \in Nat \ {0} /\ pruned \in 0..last
  /\ unannounced \subseteq 1..last /\ outbox \subseteq {last}
  /\ outbox = {} \/ writeGate = "sending"
  /\ sent \in Seq(Nat)
  /\ \A k \in 1..Len(sent) : sent[k] \in 1..last /\ sent[k] \notin outbox
  /\ \A j, k \in 1..Len(sent) : j < k => sent[j] < sent[k]

\* The client has event m.
Got(m) == \E n \in 1..Len(sub.got) : sub.got[n] = m

\* Event m is ahead of the receiver of the client, or will never be broadcast.
Ahead(m) ==
  m \in unannounced \cup outbox \/ \E k \in sub.next..Len(sent) : sent[k] = m

\* Event m is behind the receiver: replayed, skipped or received.
Passed(m) == m <= sub.watermark \/ \E k \in 1..sub.next - 1 : sent[k] = m

\* What may be gone from the journal when the client reads it.
Deleted == (IF sub.after = 0 THEN 1 ELSE sub.minimum)..pruned

\* Between the two queries of a client: its cursor is within the bounds, and what
\* was inserted after them is still to come.
ReplayOK ==
  /\ sub.after <= sub.maximum /\ sub.maximum <= last
  /\ sub.after = 0 \/ sub.minimum <= sub.after + 1
  /\ \A m \in sub.maximum + 1..last : Ahead(m)

\* What a client in the live flow has is in order and behind the receiver, and
\* every event after its base that it has not is accounted for.
LiveOK ==
  /\ sub.watermark <= last /\ Passed(sub.base)
  /\ \A n \in 1..Len(sub.got) :
       sub.got[n] \in 1..last /\ sub.got[n] > sub.base /\ Passed(sub.got[n])
  /\ \A m, n \in 1..Len(sub.got) : m < n => sub.got[m] < sub.got[n]
  /\ \A m \in sub.base + 1..last :
       IF m <= sub.watermark THEN Got(m) \/ m \in Deleted \cup unannounced
                             ELSE Got(m) \/ Ahead(m)

ClientInv ==
  /\ sub \in SubRecord /\ sub.next \in 1..Len(sent) + 1
  /\ sub.at # "live" => sub.got = <<>>
  /\ sub.at = "replay" => ReplayOK
  /\ sub.at = "live" => LiveOK

\* StreamInv: together they say where every event is that the client has not had.
StreamInv == ChannelInv /\ ClientInv

\* Appended: what the end of a channel, or of what a client has, looks like after one
\* more event.
LEMMA Appended ==
  ASSUME NEW q \in Seq(Nat), NEW x \in Nat
  PROVE  /\ Append(q, x) \in Seq(Nat) /\ Len(q) \in Nat
         /\ Len(Append(q, x)) = Len(q) + 1
         /\ \A k \in 1..Len(q) : Append(q, x)[k] = q[k] /\ q[k] \in Nat
         /\ Append(q, x)[Len(q) + 1] = x
  OBVIOUS

\* A client that is not connected satisfies its part.
LEMMA Gone ==
  /\ Disconnected \in SubRecord /\ Disconnected.at = "off" /\ Disconnected.next = 1
  /\ Disconnected.got = <<>>
  BY DEF Disconnected, SubRecord

\* StreamAppends: an event is inserted by a writer that has the gate, and announced
\* or not.
StreamAppends ==
  /\ last' = last + 1 /\ outbox = {} /\ UNCHANGED <<pruned, sent, sub>>
  /\ \/ outbox' = {last'} /\ writeGate' = "sending" /\ UNCHANGED unannounced
     \/ outbox' = {} /\ unannounced' = unannounced \cup {last'}

\* What was ahead of the receiver stays ahead, and so is what was inserted.
LEMMA AppendKeeps ==
  ASSUME StreamInv, StreamAppends
  PROVE  StreamInv'
<1>0. /\ last \in Nat \ {0} /\ last' = last + 1 /\ pruned \in 0..last
      /\ sub \in SubRecord /\ sent \in Seq(Nat) /\ outbox = {}
      /\ unannounced \subseteq 1..last
      /\ \A k \in 1..Len(sent) : sent[k] \in 1..last
      /\ UNCHANGED <<pruned, sent, sub>>
  BY DEF StreamInv, ChannelInv, ClientInv, StreamAppends
<1>1. \A m \in 1..last : m \in 1..last' /\ m # last'
  BY <1>0
<1>2. ChannelInv'
  <2>1. /\ last' \in Nat \ {0} /\ pruned' \in 0..last' /\ sent' \in Seq(Nat)
        /\ outbox' \subseteq {last'} /\ (outbox' = {} \/ writeGate' = "sending")
    BY <1>0 DEF StreamAppends
  <2>2. unannounced' \subseteq 1..last'
    <3>1. unannounced' \subseteq unannounced \cup {last'}
      BY DEF StreamAppends
    <3>2. last' \in 1..last'
      BY <1>0
    <3>3. QED
      BY <1>0, <1>1, <3>1, <3>2, Zenon
  <2>3. \A k \in 1..Len(sent) : sent[k] \in 1..last' /\ sent[k] # last'
    BY <1>0, <1>1
  <2>4. QED
    BY <1>0, <2>1, <2>2, <2>3 DEF ChannelInv, StreamInv
<1>3. /\ \A m : Ahead(m) => Ahead(m)'
      /\ \A m : m = last' => Ahead(m)'
  <2>1. unannounced \cup {last'} \subseteq unannounced' \cup outbox'
    BY DEF StreamAppends
  <2>2. \A m : m \in unannounced' \cup outbox' => Ahead(m)'
    BY DEF Ahead
  <2>3. ASSUME NEW m, Ahead(m) PROVE Ahead(m)'
    BY <1>0, <2>1, <2>3 DEF Ahead
  <2>4. QED
    BY <2>1, <2>2, <2>3
<1>4. /\ \A m : (Got(m) <=> Got(m)') /\ (Passed(m) <=> Passed(m)')
      /\ Deleted' = Deleted /\ unannounced \subseteq unannounced'
  BY DEF StreamAppends, Got, Passed, Deleted
<1>5. ASSUME sub.at = "replay" PROVE ReplayOK'
  <2>1. ReplayOK /\ sub.maximum \in Nat
    BY <1>0, <1>5 DEF StreamInv, ClientInv, SubRecord
  <2>2. \A m \in sub.maximum + 1..last' : m = last' \/ m \in sub.maximum + 1..last
    BY <1>0, <2>1
  <2>3. sub.maximum <= last'
    BY <1>0, <2>1 DEF ReplayOK
  <2>4. QED
    <3>1. \A m \in sub.maximum + 1..last' : Ahead(m)'
      BY <1>3, <2>1, <2>2, Zenon DEF ReplayOK
    <3>2. QED
      BY <1>0, <2>1, <2>3, <3>1 DEF ReplayOK
<1>6. ASSUME sub.at = "live" PROVE LiveOK'
  <2>1. LiveOK /\ sub.base \in Nat /\ sub.watermark \in Nat
    BY <1>0, <1>6 DEF StreamInv, ClientInv, SubRecord
  <2>2. \A m \in sub.base + 1..last' : m = last' \/ m \in sub.base + 1..last
    BY <1>0, <2>1
  <2>3. sub.watermark <= last' /\ ~(last' <= sub.watermark)
    BY <1>0, <2>1 DEF LiveOK
  <2>4. \A m \in sub.base + 1..last' :
          IF m <= sub.watermark THEN Got(m)' \/ m \in Deleted' \cup unannounced'
                                ELSE Got(m)' \/ Ahead(m)'
    <3> SUFFICES ASSUME NEW m \in sub.base + 1..last'
                 PROVE  IF m <= sub.watermark
                          THEN Got(m)' \/ m \in Deleted' \cup unannounced'
                          ELSE Got(m)' \/ Ahead(m)'
      OBVIOUS
    <3>1. CASE m = last'
      BY <1>3, <2>3, <3>1
    <3>2. CASE m \in sub.base + 1..last
      <4>1. IF m <= sub.watermark THEN Got(m) \/ m \in Deleted \cup unannounced
                                  ELSE Got(m) \/ Ahead(m)
        BY <2>1, <3>2 DEF LiveOK
      <4>2. QED
        BY <1>3, <1>4, <4>1
    <3>3. QED
      BY <2>2, <3>1, <3>2
  <2>5. \A n \in 1..Len(sub.got) :
          sub.got[n] \in 1..last' /\ sub.got[n] > sub.base /\ Passed(sub.got[n])'
    <3> SUFFICES ASSUME NEW n \in 1..Len(sub.got)
                 PROVE  /\ sub.got[n] \in 1..last' /\ sub.got[n] > sub.base
                        /\ Passed(sub.got[n])'
      OBVIOUS
    <3>1. sub.got[n] \in 1..last /\ sub.got[n] > sub.base /\ Passed(sub.got[n])
      BY <2>1 DEF LiveOK
    <3>2. QED
      BY <1>0, <1>1, <3>1 DEF StreamAppends, Passed
  <2>6. QED
    BY <1>0, <1>4, <2>1, <2>3, <2>4, <2>5 DEF LiveOK
<1>7. QED
  BY <1>0, <1>2, <1>5, <1>6 DEF StreamInv, ClientInv

\* An event that is broadcast is the newest, so it is ahead of every receiver.
LEMMA BroadcastKeeps ==
  ASSUME StreamInv, Broadcast
  PROVE  StreamInv'
<1>0. /\ last \in Nat \ {0} /\ sent \in Seq(Nat) /\ outbox \subseteq {last}
      /\ sub \in SubRecord /\ Len(sent) \in Nat
  BY DEF StreamInv, ChannelInv, ClientInv
<1>1. /\ outbox = {last} /\ outbox' = {} /\ sent' = Append(sent, last)
      /\ UNCHANGED <<last, pruned, unannounced, sub>>
  BY <1>0 DEF Broadcast
<1>2. /\ sent' \in Seq(Nat) /\ Len(sent') = Len(sent) + 1
      /\ \A k \in 1..Len(sent) : sent'[k] = sent[k]
      /\ sent'[Len(sent) + 1] = last
  BY <1>0, <1>1, Appended
<1>3. ChannelInv'
  <2>1. \A k \in 1..Len(sent') : sent'[k] \in 1..last'
    BY <1>0, <1>1, <1>2 DEF StreamInv, ChannelInv
  <2>2. \A j, k \in 1..Len(sent') : j < k => sent'[j] < sent'[k]
    <3> SUFFICES ASSUME NEW j \in 1..Len(sent'), NEW k \in 1..Len(sent'), j < k
                 PROVE  sent'[j] < sent'[k]
      OBVIOUS
    <3>1. j \in 1..Len(sent)
      BY <1>0, <1>2
    <3>2. sent[j] \in 1..last /\ sent[j] # last
      BY <1>1, <3>1 DEF StreamInv, ChannelInv
    <3>3. sent[j] < last
      BY <1>0, <3>2
    <3>4. CASE k = Len(sent) + 1
      BY <1>2, <3>1, <3>3, <3>4
    <3>5. CASE k # Len(sent) + 1
      <4>1. k \in 1..Len(sent)
        <5> DEFINE n == Len(sent)
        <5>1. n \in Nat /\ k \in 1..n + 1 /\ k # n + 1
          BY <1>0, <1>2, <3>5
        <5> HIDE DEF n
        <5>2. k \in 1..n
          BY <5>1
        <5>3. QED
          BY <5>2 DEF n
      <4>2. QED
        BY <1>2, <3>1, <4>1 DEF StreamInv, ChannelInv
    <3>6. QED
      BY <3>4, <3>5
  <2>3. QED
    BY <1>0, <1>1, <1>2, <2>1, <2>2 DEF StreamInv, ChannelInv
<1>4. sub.next \in 1..Len(sent) + 1
  BY DEF StreamInv, ClientInv
<1>5. /\ \A m : Ahead(m) => Ahead(m)'
      /\ \A m : (Got(m) <=> Got(m)') /\ (Passed(m) => Passed(m)')
      /\ Deleted' = Deleted
  <2>1. \A m : Ahead(m) => Ahead(m)'
    BY <1>0, <1>1, <1>2, <1>4 DEF Ahead
  <2>2. \A m : Passed(m) => Passed(m)'
    BY <1>0, <1>1, <1>2, <1>4 DEF Passed
  <2>3. QED
    BY <1>1, <2>1, <2>2 DEF Got, Deleted
<1>6. sub.at = "replay" => ReplayOK'
  BY <1>1, <1>5 DEF StreamInv, ClientInv, ReplayOK
<1>7. sub.at = "live" => LiveOK'
  BY <1>1, <1>5 DEF StreamInv, ClientInv, LiveOK
<1>8. QED
  BY <1>0, <1>1, <1>2, <1>3, <1>4, <1>6, <1>7 DEF StreamInv, ClientInv

\* Pruning leaves the channel and the client alone.
LEMMA PruneKeeps ==
  ASSUME StreamInv, NEW B, prune_events(B)
  PROVE  StreamInv'
<1>1. /\ pruned' = last - EventRetention /\ pruned < pruned'
      /\ UNCHANGED <<last, writeGate, outbox, sent, unannounced, sub>>
      /\ last \in Nat /\ pruned \in Nat
  BY DEF prune_events, StreamInv, ChannelInv
<1>2. ChannelInv'
  <2>1. pruned' \in 0..last
    BY <1>1, StreamAssumption
  <2>2. QED
    BY <1>1, <2>1 DEF StreamInv, ChannelInv
<1>3. /\ \A m : (Ahead(m) <=> Ahead(m)') /\ (Got(m) <=> Got(m)')
      /\ \A m : Passed(m) <=> Passed(m)'
  BY <1>1 DEF Ahead, Got, Passed
<1>4. Deleted \subseteq Deleted'
  BY <1>1 DEF Deleted, StreamInv, ClientInv, SubRecord
<1>5. sub.at = "replay" => ReplayOK'
  BY <1>1, <1>3 DEF StreamInv, ClientInv, ReplayOK
<1>6. sub.at = "live" => LiveOK'
  BY <1>1, <1>3, <1>4 DEF StreamInv, ClientInv, LiveOK
<1>7. QED
  BY <1>1, <1>2, <1>5, <1>6 DEF StreamInv, ClientInv

\* The steps of the client leave the channel alone.
LEMMA ChannelKept ==
  ASSUME StreamInv, UNCHANGED <<last, pruned, writeGate, outbox, sent, unannounced>>
  PROVE  /\ ChannelInv' /\ sub \in SubRecord /\ sub.next \in 1..Len(sent) + 1
         /\ last \in Nat \ {0} /\ pruned \in 0..last /\ Len(sent) \in Nat
  BY DEF StreamInv, ChannelInv, ClientInv

\* A client that connects has received nothing.
LEMMA SubscribeKeeps ==
  ASSUME StreamInv, subscribe \/ Disconnect
  PROVE  StreamInv'
<1>1. ChannelInv' /\ last \in Nat /\ Len(sent) \in Nat /\ sent' = sent
  BY ChannelKept DEF subscribe, Disconnect
<1>2. /\ sub' \in SubRecord /\ sub'.at \in {"off", "bounds"} /\ sub'.got = <<>>
      /\ sub'.next \in 1..Len(sent) + 1
  <2>1. CASE subscribe
    <3>1. PICK after \in 0..last + 1 :
            sub' = [Disconnected EXCEPT !.at = "bounds", !.after = after,
                                        !.next = Len(sent) + 1]
      BY <2>1 DEF subscribe
    <3>2. after \in Nat /\ Len(sent) + 1 \in Nat /\ Len(sent) + 1 \in 1..Len(sent) + 1
      BY <1>1
    <3>3. sub' \in SubRecord
      BY <3>1, <3>2, Gone DEF SubRecord
    <3>4. sub'.at = "bounds" /\ sub'.got = <<>> /\ sub'.next = Len(sent) + 1
      BY <3>1 DEF Disconnected
    <3>5. QED
      BY <3>2, <3>3, <3>4
  <2>2. CASE Disconnect
    BY <1>1, <2>2, Gone DEF Disconnect
  <2>3. QED
    BY <2>1, <2>2
<1>3. QED
  BY <1>1, <1>2 DEF StreamInv, ClientInv

\* A reset changes what the client knows, and not its place in the channel.
LEMMA ResetFields ==
  ASSUME sub \in SubRecord, NEW w \in Nat, Reset(w)
  PROVE  /\ sub' \in SubRecord /\ sub'.at = "live" /\ sub'.watermark = w /\ sub'.base = w
         /\ sub'.got = <<>> /\ sub'.next = sub.next
<1>1. sub' = [sub EXCEPT !.at = "live", !.watermark = w, !.base = w, !.got = <<>>]
  BY DEF Reset
<1>2. <<>> \in Seq(Nat) /\ "live" \in {"off", "bounds", "replay", "live"}
  OBVIOUS
<1> DEFINE e == <<>>
<1> HIDE DEF e
<1>3. e \in Seq(Nat) /\ sub' = [sub EXCEPT !.at = "live", !.watermark = w, !.base = w, !.got = e]
  BY <1>1, <1>2 DEF e
<1>4. sub' \in SubRecord
  BY <1>2, <1>3 DEF SubRecord
<1>5. /\ sub'.at = "live" /\ sub'.watermark = w /\ sub'.base = w
      /\ sub'.got = e /\ sub'.next = sub.next
  BY <1>3 DEF SubRecord
<1>6. QED
  BY <1>4, <1>5 DEF e

\* A client in the live flow satisfies its part when LiveOK holds.
LEMMA LiveClient ==
  ASSUME ChannelInv', sub' \in SubRecord, sub'.at = "live", sub'.next \in 1..Len(sent') + 1,
         LiveOK'
  PROVE  StreamInv'
  BY DEF StreamInv, ClientInv

\* The bounds are read when the receiver exists: nothing is between them and it.
LEMMA BoundsKeep ==
  ASSUME StreamInv, event_sequence_bounds
  PROVE  StreamInv'
<1>0. /\ ChannelInv' /\ sub \in SubRecord /\ sub.next \in 1..Len(sent) + 1
      /\ last \in Nat \ {0} /\ pruned \in 0..last
      /\ UNCHANGED <<last, sent>> /\ sub.at = "bounds" /\ sub.got = <<>>
  BY ChannelKept DEF event_sequence_bounds, StreamInv, ClientInv
<1>1. CASE event_cursor_outside_retention(sub.after, pruned + 1, last)
  <2>1. Reset(last)
    BY <1>1 DEF event_sequence_bounds
  <2>2. /\ sub' \in SubRecord /\ sub'.at = "live" /\ sub'.watermark = last /\ sub'.base = last
        /\ sub'.got = <<>> /\ sub'.next = sub.next
    BY <1>0, <2>1, ResetFields
  <2>3. LiveOK'
    <3>1. \A m \in last + 1..last : FALSE
      BY <1>0
    <3>2. Passed(sub.base)'
      BY <1>0, <2>2 DEF Passed
    <3>3. QED
      BY <1>0, <2>2, <3>1, <3>2 DEF LiveOK
  <2>4. QED
    BY <1>0, <2>2, <2>3 DEF StreamInv, ClientInv
<1>2. CASE ~event_cursor_outside_retention(sub.after, pruned + 1, last)
  <2>1. sub' = [sub EXCEPT !.at = "replay", !.minimum = pruned + 1, !.maximum = last]
    BY <1>2 DEF event_sequence_bounds
  <2>2. /\ sub' \in SubRecord /\ sub'.at = "replay" /\ sub'.minimum = pruned + 1
        /\ sub'.maximum = last /\ sub'.after = sub.after
        /\ sub'.got = <<>> /\ sub'.next = sub.next
    <3>1. pruned + 1 \in Nat /\ last \in Nat
      BY <1>0
    <3>2. QED
      BY <1>0, <2>1, <3>1 DEF SubRecord
  <2>3. ReplayOK'
    <3>1. \A m \in last + 1..last : FALSE
      BY <1>0
    <3>2. /\ sub.after <= last
          /\ sub.after = 0 \/ pruned + 1 <= sub.after + 1
      BY <1>0, <1>2 DEF event_cursor_outside_retention, SubRecord
    <3>3. QED
      BY <1>0, <2>2, <3>1, <3>2 DEF ReplayOK
  <2>4. QED
    BY <1>0, <2>2, <2>3 DEF StreamInv, ClientInv
<1>3. QED
  BY <1>1, <1>2

\* What the replay brings ends at the watermark; what it does not bring was deleted,
\* or is ahead of the receiver.
LEMMA ReplayKeeps ==
  ASSUME StreamInv, replay_events
  PROVE  StreamInv'
<1> DEFINE from == IF sub.after > pruned THEN sub.after ELSE pruned
           found == IF last - from > ReplayLimit THEN ReplayLimit ELSE last - from
           replay == [n \in 1..found |-> from + n]
           watermark == IF found = 0 THEN sub.after ELSE from + found
<1>0. /\ ChannelInv' /\ sub \in SubRecord /\ sub.next \in 1..Len(sent) + 1
      /\ last \in Nat \ {0} /\ pruned \in 0..last /\ sub.at = "replay" /\ ReplayOK
      /\ UNCHANGED <<last, pruned, writeGate, outbox, sent, unannounced>>
  BY ChannelKept DEF replay_events, StreamInv, ClientInv
<1>1. /\ sub.after \in Nat /\ sub.maximum \in Nat /\ sub.minimum \in Nat
      /\ sub.after <= sub.maximum /\ sub.maximum <= last
      /\ sub.after = 0 \/ sub.minimum <= sub.after + 1
  BY <1>0 DEF SubRecord, ReplayOK
<1>2. /\ from \in Nat /\ found \in Nat /\ watermark \in Nat
      /\ sub.after <= from /\ pruned <= from /\ from \in {sub.after, pruned}
      /\ from + found <= last /\ watermark <= last /\ sub.after <= watermark
  <2>1. ReplayLimit \in Nat
    BY StreamAssumption
  <2>2. /\ from \in Nat /\ sub.after <= from /\ pruned <= from /\ from <= last
        /\ from \in {sub.after, pruned}
    BY <1>0, <1>1
  <2> HIDE DEF from
  <2>3. found \in Nat /\ from + found <= last
    BY <1>0, <2>1, <2>2
  <2> HIDE DEF found
  <2>4. QED
    BY <1>0, <1>1, <2>2, <2>3
<1>3. /\ found = 0 => watermark = sub.after
      /\ found # 0 => watermark = from + found
  OBVIOUS
<1>4. replay \in Seq(Nat) /\ Len(replay) = found /\ \A n \in 1..found : replay[n] = from + n
  <2> HIDE DEF from, found
  <2>1. QED
    BY <1>2
<1>5. IF watermark < sub.maximum
        THEN Reset(sub.maximum)
        ELSE sub' = [sub EXCEPT !.at = "live", !.watermark = watermark,
                                !.base = sub.after, !.got = replay]
  BY DEF replay_events
<1> HIDE DEF from, found, replay, watermark
<1>6. CASE watermark < sub.maximum
  <2>1. /\ sub' \in SubRecord /\ sub'.at = "live" /\ sub'.watermark = sub.maximum
        /\ sub'.base = sub.maximum /\ sub'.got = <<>> /\ sub'.next = sub.next
    BY <1>0, <1>1, <1>5, <1>6, ResetFields
  <2>2. Passed(sub.base)'
    BY <1>1, <2>1 DEF Passed
  <2>3. \A m \in sub.maximum + 1..last : ~(m <= sub.maximum) /\ Ahead(m)'
    <3>1. \A m \in sub.maximum + 1..last : ~(m <= sub.maximum)
      BY <1>0, <1>1
    <3>2. \A m \in sub.maximum + 1..last : Ahead(m)
      BY <1>0 DEF ReplayOK
    <3>3. \A m : Ahead(m) => Ahead(m)'
      BY <1>0, <2>1 DEF Ahead
    <3>4. QED
      BY <3>1, <3>2, <3>3
  <2>4. LiveOK'
    BY <1>0, <1>1, <2>1, <2>2, <2>3 DEF LiveOK
  <2>5. QED
    BY <1>0, <2>1, <2>4 DEF StreamInv, ClientInv
<1>7. CASE ~(watermark < sub.maximum)
  <2>1. /\ sub' \in SubRecord /\ sub'.at = "live" /\ sub'.watermark = watermark
        /\ sub'.base = sub.after /\ sub'.got = replay /\ sub'.next = sub.next
        /\ sub'.after = sub.after /\ sub'.minimum = sub.minimum
    BY <1>0, <1>1, <1>2, <1>4, <1>5, <1>7 DEF SubRecord
  <2>2. Passed(sub.base)'
    BY <1>2, <2>1 DEF Passed
  <2>3. ASSUME NEW n \in 1..found
        PROVE  /\ replay[n] \in 1..last /\ replay[n] > sub.after
               /\ replay[n] <= watermark
    BY <1>0, <1>1, <1>2, <1>3, <1>4
  <2>4. ASSUME NEW m \in 1..found, NEW n \in 1..found, m < n
        PROVE  replay[m] < replay[n]
    BY <1>2, <1>4, <2>4
  <2>5. ASSUME NEW m \in sub.after + 1..last
        PROVE  IF m <= watermark THEN Got(m)' \/ m \in Deleted' ELSE Ahead(m)'
    <3>1. CASE ~(m <= watermark)
      <4>1. m \in sub.maximum + 1..last
        BY <1>0, <1>1, <1>2, <1>7, <3>1
      <4>2. Ahead(m)
        BY <1>0, <4>1 DEF ReplayOK
      <4>3. QED
        BY <1>0, <2>1, <3>1, <4>2 DEF Ahead
    <3>2. CASE m <= watermark /\ m <= from
      <4>1. m \in sub.after + 1..pruned
        BY <1>0, <1>1, <1>2, <3>2
      <4>2. m \in (IF sub.after = 0 THEN 1 ELSE sub.minimum)..pruned
        BY <1>0, <1>1, <4>1
      <4>3. QED
        BY <1>0, <2>1, <3>2, <4>2 DEF Deleted
    <3>3. CASE m <= watermark /\ ~(m <= from)
      <4>1. m - from \in 1..found /\ from + (m - from) = m
        BY <1>1, <1>2, <1>3, <3>3
      <4>2. replay[m - from] = m
        BY <1>4, <4>1
      <4>3. QED
        BY <1>4, <2>1, <3>3, <4>1, <4>2 DEF Got
    <3>4. QED
      BY <3>1, <3>2, <3>3
  <2>6. LiveOK'
    <3>1. \A n \in 1..Len(sub'.got) :
            sub'.got[n] \in 1..last' /\ sub'.got[n] > sub'.base /\ Passed(sub.got[n])'
      BY <1>0, <1>4, <2>1, <2>3 DEF Passed
    <3>2. \A m, n \in 1..Len(sub'.got) : m < n => sub'.got[m] < sub'.got[n]
      BY <1>4, <2>1, <2>4
    <3>3. \A m \in sub'.base + 1..last' :
            IF m <= sub'.watermark THEN Got(m)' \/ m \in Deleted' \cup unannounced'
                                   ELSE Got(m)' \/ Ahead(m)'
      BY <1>0, <2>1, <2>5
    <3>4. QED
      BY <1>0, <1>2, <2>1, <2>2, <3>1, <3>2, <3>3 DEF LiveOK
  <2>7. QED
    BY <1>0, <2>1, <2>6 DEF StreamInv, ClientInv
<1>8. QED
  BY <1>6, <1>7

\* The event that the receiver takes is behind it afterwards: received, or covered by
\* the replay.  It is later than everything that was behind it before.
LEMMA LiveKeeps ==
  ASSUME StreamInv, DeliverLive
  PROVE  StreamInv'
<1> DEFINE s == sent[sub.next]
<1>0. /\ ChannelInv' /\ sub \in SubRecord /\ sub.next \in 1..Len(sent) /\ Len(sent) \in Nat
      /\ last \in Nat \ {0} /\ sub.at = "live" /\ LiveOK
      /\ UNCHANGED <<last, pruned, writeGate, outbox, sent, unannounced>>
      /\ sub' = [sub EXCEPT !.next = @ + 1,
                            !.got = IF s > sub.watermark THEN Append(@, s) ELSE @]
  BY ChannelKept DEF DeliverLive, StreamInv, ClientInv
<1>1. /\ sub.base \in Nat /\ sub.watermark \in Nat /\ sub.next \in Nat /\ sub.got \in Seq(Nat)
      /\ Len(sub.got) \in Nat
  BY <1>0 DEF SubRecord
<1>2. /\ s \in 1..last
      /\ \A k \in 1..sub.next - 1 : sent[k] < s
  <2>1. \A k \in 1..sub.next - 1 : k \in 1..Len(sent) /\ k < sub.next
    BY <1>0, <1>1
  <2>2. QED
    BY <1>0, <2>1 DEF StreamInv, ChannelInv
<1>3. /\ sub' \in SubRecord /\ sub'.at = "live" /\ sub'.next = sub.next + 1
      /\ sub'.base = sub.base /\ sub'.watermark = sub.watermark
      /\ sub'.after = sub.after /\ sub'.minimum = sub.minimum
      /\ sub'.got = IF s > sub.watermark THEN Append(sub.got, s) ELSE sub.got
  <2>1. s \in Nat /\ sub.next + 1 \in Nat /\ Append(sub.got, s) \in Seq(Nat)
    BY <1>0, <1>1, <1>2
  <2> HIDE DEF s
  <2>2. QED
    BY <1>0, <1>1, <2>1 DEF SubRecord
<1> HIDE DEF s
<1>4. sub'.next \in 1..Len(sent) + 1 /\ sub.next \in 1..sub'.next - 1
  BY <1>0, <1>1, <1>3
<1>5. ASSUME NEW m, Passed(m)
      PROVE  m <= sub'.watermark \/ \E k \in 1..sub'.next - 1 : sent'[k] = m
  <2>1. \A k \in 1..sub.next - 1 : k \in 1..sub'.next - 1
    BY <1>1, <1>3
  <2>2. QED
    BY <1>0, <1>3, <1>5, <2>1 DEF Passed
<1>6. \A m : m \in Deleted \cup unannounced => m \in Deleted' \cup unannounced'
  BY <1>0, <1>3 DEF Deleted
<1>7. \A m : Ahead(m) => m = s \/ Ahead(m)'
  <2> SUFFICES ASSUME NEW k \in sub.next..Len(sent)
               PROVE  k = sub.next \/ k \in sub'.next..Len(sent)
    BY <1>0 DEF Ahead, s
  <2>1. QED
    BY <1>0, <1>1, <1>3
<1>8. CASE s > sub.watermark
  <2>1. /\ sub'.got \in Seq(Nat) /\ Len(sub'.got) = Len(sub.got) + 1
        /\ \A k \in 1..Len(sub.got) : sub'.got[k] = sub.got[k]
        /\ sub'.got[Len(sub.got) + 1] = s
    BY <1>1, <1>2, <1>3, <1>8, Appended
  <2>2. \A m \in Nat : Passed(m) => m < s
    BY <1>1, <1>2, <1>8 DEF Passed
  <2>3. \E k \in 1..sub'.next - 1 : sent'[k] = s
    BY <1>0, <1>4 DEF s
  <2>4. \A m : (Got(m) => Got(m)') /\ (m = s => Got(m)')
    <3>1. /\ \A n \in 1..Len(sub.got) : n \in 1..Len(sub'.got)
          /\ Len(sub.got) + 1 \in 1..Len(sub'.got)
      BY <1>1, <2>1
    <3>2. ASSUME NEW m, Got(m) PROVE Got(m)'
      BY <2>1, <3>1, <3>2, Zenon DEF Got
    <3>3. ASSUME NEW m, m = s PROVE Got(m)'
      BY <2>1, <3>1, <3>3, Zenon DEF Got
    <3>4. QED
      BY <3>2, <3>3
  <2>5. ASSUME NEW n \in 1..Len(sub'.got)
        PROVE  /\ sub'.got[n] \in 1..last /\ sub'.got[n] > sub.base
               /\ Passed(sub.got[n])'
               /\ n \in 1..Len(sub.got) \/ n = Len(sub.got) + 1
    <3>1. n \in 1..Len(sub.got) \/ n = Len(sub.got) + 1
      BY <1>1, <2>1
    <3>2. CASE n \in 1..Len(sub.got)
      <4>1. sub.got[n] \in 1..last /\ sub.got[n] > sub.base /\ Passed(sub.got[n])
        BY <1>0, <3>2 DEF LiveOK
      <4>2. QED
        BY <1>5, <2>1, <3>1, <3>2, <4>1 DEF Passed
    <3>3. CASE n = Len(sub.got) + 1
      <4>1. s > sub.base
        BY <1>0, <1>1, <1>2, <2>2 DEF LiveOK
      <4>2. QED
        BY <1>2, <2>1, <2>3, <3>1, <3>3, <4>1 DEF Passed
    <3>4. QED
      BY <3>1, <3>2, <3>3
  <2>6. ASSUME NEW m \in 1..Len(sub'.got), NEW n \in 1..Len(sub'.got), m < n
        PROVE  sub'.got[m] < sub'.got[n]
    <3>1. m \in 1..Len(sub.got)
      BY <1>1, <2>1, <2>6
    <3>2. sub.got[m] \in Nat /\ Passed(sub.got[m])
      BY <1>0, <3>1 DEF LiveOK
    <3>3. CASE n = Len(sub.got) + 1
      BY <2>1, <2>2, <3>1, <3>2, <3>3
    <3>4. CASE n \in 1..Len(sub.got)
      BY <1>0, <2>1, <2>6, <3>1, <3>4 DEF LiveOK
    <3>5. QED
      BY <2>5, <3>3, <3>4
  <2>7. ASSUME NEW m \in sub.base + 1..last
        PROVE  IF m <= sub.watermark THEN Got(m)' \/ m \in Deleted' \cup unannounced'
                                     ELSE Got(m)' \/ Ahead(m)'
    <3>1. IF m <= sub.watermark THEN Got(m) \/ m \in Deleted \cup unannounced
                                ELSE Got(m) \/ Ahead(m)
      BY <1>0 DEF LiveOK
    <3>2. QED
      BY <1>6, <1>7, <2>4, <3>1
  <2>8. LiveOK'
    <3>1. Passed(sub.base)'
      BY <1>0, <1>3, <1>5 DEF LiveOK, Passed
    <3>2. sub'.watermark <= last'
      BY <1>0, <1>3 DEF LiveOK
    <3>3. QED
      BY <1>0, <1>3, <2>5, <2>6, <2>7, <3>1, <3>2 DEF LiveOK
  <2>9. QED
    BY <1>0, <1>3, <1>4, <2>8, LiveClient
<1>9. CASE ~(s > sub.watermark)
  <2>1. sub'.got = sub.got
    BY <1>3, <1>9
  <2>2. \A m : Got(m) => Got(m)'
    BY <2>1 DEF Got
  <2>3. ASSUME NEW m \in sub.base + 1..last
        PROVE  IF m <= sub.watermark THEN Got(m)' \/ m \in Deleted' \cup unannounced'
                                     ELSE Got(m)' \/ Ahead(m)'
    <3>1. m = s => m <= sub.watermark
      BY <1>1, <1>2, <1>9
    <3>2. IF m <= sub.watermark THEN Got(m) \/ m \in Deleted \cup unannounced
                                ELSE Got(m) \/ Ahead(m)
      BY <1>0 DEF LiveOK
    <3>3. QED
      BY <1>6, <1>7, <2>2, <3>1, <3>2
  <2>4. \A n \in 1..Len(sub'.got) :
          sub'.got[n] \in 1..last' /\ sub'.got[n] > sub'.base /\ Passed(sub.got[n])'
    <3> SUFFICES ASSUME NEW n \in 1..Len(sub.got)
                 PROVE  /\ sub.got[n] \in 1..last /\ sub.got[n] > sub.base
                        /\ Passed(sub.got[n])'
      BY <1>0, <1>3, <2>1
    <3>1. sub.got[n] \in 1..last /\ sub.got[n] > sub.base /\ Passed(sub.got[n])
      BY <1>0 DEF LiveOK
    <3>2. QED
      BY <1>5, <2>1, <3>1 DEF Passed
  <2>5. LiveOK'
    <3>1. Passed(sub.base)'
      BY <1>0, <1>3, <1>5 DEF LiveOK, Passed
    <3>2. \A m, n \in 1..Len(sub'.got) : m < n => sub'.got[m] < sub'.got[n]
      BY <1>0, <2>1 DEF LiveOK
    <3>3. sub'.watermark <= last'
      BY <1>0, <1>3 DEF LiveOK
    <3>4. QED
      BY <1>0, <1>3, <2>3, <2>4, <3>1, <3>2, <3>3 DEF LiveOK
  <2>6. QED
    BY <1>0, <1>3, <1>4, <2>5, LiveClient
<1>10. QED
  BY <1>8, <1>9

\* Largest: a set of numbers with a largest element has it as its Max.
LEMMA Largest ==
  ASSUME NEW S, S \subseteq Nat, NEW x \in S, \A y \in S : y <= x
  PROVE  Max(S) \in S /\ \A y \in S : y <= Max(S)
<1>1. \E z \in S : \A y \in S : z >= y
  BY SMT
<1>2. Max(S) \in S /\ \A y \in S : Max(S) >= y
  BY <1>1, Zenon DEF Max
<1>3. QED
  BY <1>2

\* What the channel has overwritten is not later than what a client knows after the
\* reset; the largest of what it knows is the last event it has or one of two others.
LEMMA LagKeeps ==
  ASSUME StreamInv, ClientLagged
  PROVE  StreamInv'
<1> DEFINE oldest == Len(sent) - ChannelCapacity + 1
           known == {sub.base, sent[oldest - 1]} \cup ToSet(sub.got)
           top == Max(known)
<1>0. /\ ChannelInv' /\ sub \in SubRecord /\ sub.next \in 1..Len(sent) + 1 /\ Len(sent) \in Nat
      /\ last \in Nat \ {0} /\ sub.at = "live" /\ LiveOK
      /\ UNCHANGED <<last, pruned, writeGate, outbox, sent, unannounced>>
      /\ sub.next < oldest
  BY ChannelKept DEF ClientLagged, StreamInv, ClientInv
<1>1. sub' = [sub EXCEPT !.next = oldest, !.base = top, !.got = <<>>]
  BY DEF ClientLagged
<1>2. /\ sub.base \in Nat /\ sub.watermark \in Nat /\ sub.got \in Seq(Nat)
      /\ Len(sub.got) \in Nat /\ DOMAIN sub.got = 1..Len(sub.got)
  BY <1>0 DEF SubRecord
<1>3. /\ oldest \in 1..Len(sent) + 1 /\ oldest - 1 \in 1..Len(sent)
      /\ sub.next <= oldest - 1
  BY <1>0, StreamAssumption
<1> HIDE DEF oldest
<1>4. ToSet(sub.got) = {sub.got[n] : n \in 1..Len(sub.got)}
  BY <1>2 DEF ToSet
<1>5. /\ known \subseteq Nat /\ sub.base \in known /\ sent[oldest - 1] \in known
      /\ \A n \in 1..Len(sub.got) : sub.got[n] \in known
  <2>1. sent[oldest - 1] \in Nat
    BY <1>0, <1>3 DEF StreamInv, ChannelInv
  <2>2. \A n \in 1..Len(sub.got) : sub.got[n] \in Nat
    BY <1>2
  <2>3. ToSet(sub.got) \subseteq Nat
    BY <1>4, <2>2, Zenon
  <2>4. \A n \in 1..Len(sub.got) : sub.got[n] \in ToSet(sub.got)
    BY <1>4, Zenon
  <2>5. QED
    BY <1>2, <2>1, <2>3, <2>4, Zenon
<1>6. \A y \in known : \/ y \in {sub.base, sent[oldest - 1]}
                       \/ \E n \in 1..Len(sub.got) : y = sub.got[n]
  BY <1>4
<1> HIDE DEF known
<1>7. \E x \in known : \A y \in known : y <= x
  <2>1. PICK low \in known : low \in Nat /\ sub.base <= low /\ sent[oldest - 1] <= low
    <3>1. \A a, b \in Nat : (a <= a) /\ (a <= b \/ b <= a)
      OBVIOUS
    <3>2. sub.base \in Nat /\ sent[oldest - 1] \in Nat
      BY <1>5, Zenon
    <3>3. QED
      BY <1>5, <3>1, <3>2, Zenon
  <2>2. CASE Len(sub.got) = 0
    <3>1. \A n \in 1..Len(sub.got) : FALSE
      BY <2>2
    <3>2. \A y \in known : y <= low
      BY <1>6, <2>1, <3>1
    <3>3. QED
      BY <2>1, <3>2
  <2>3. CASE Len(sub.got) # 0
    <3> DEFINE end == sub.got[Len(sub.got)]
    <3>1. /\ Len(sub.got) \in 1..Len(sub.got)
          /\ \A n \in 1..Len(sub.got) : n = Len(sub.got) \/ n < Len(sub.got)
      BY <1>2, <2>3
    <3>2. end \in known /\ end \in Nat
      BY <1>2, <1>5, <3>1
    <3>3. \A n \in 1..Len(sub.got) : sub.got[n] <= end
      <4> SUFFICES ASSUME NEW n \in 1..Len(sub.got) PROVE sub.got[n] <= end
        OBVIOUS
      <4>1. sub.got[n] \in Nat
        BY <1>2
      <4>2. \A j, k \in 1..Len(sub.got) : j < k => sub.got[j] < sub.got[k]
        BY <1>0 DEF LiveOK
      <4>3. QED
        BY <3>1, <3>2, <4>1, <4>2
    <3> HIDE DEF end
    <3>4. CASE low <= end
      <4>1. \A y \in known : y <= end
        BY <1>2, <1>5, <1>6, <2>1, <3>2, <3>3, <3>4
      <4>2. QED
        BY <3>2, <4>1
    <3>5. CASE ~(low <= end)
      <4>1. \A n \in 1..Len(sub.got) : sub.got[n] <= low
        BY <1>2, <2>1, <3>2, <3>3, <3>5
      <4>2. \A y \in known : y <= low
        BY <1>6, <2>1, <4>1
      <4>3. QED
        BY <2>1, <4>2
    <3>6. QED
      BY <3>4, <3>5
  <2>4. QED
    BY <2>2, <2>3
<1>8. top \in known /\ \A y \in known : y <= top
  BY <1>5, <1>7, Largest
<1> HIDE DEF top
<1>9. /\ sub' \in SubRecord /\ sub'.at = "live" /\ sub'.next = oldest /\ sub'.base = top
      /\ sub'.watermark = sub.watermark /\ sub'.got = <<>>
      /\ sub'.after = sub.after /\ sub'.minimum = sub.minimum
  <2>1. top \in Nat /\ oldest \in Nat
    BY <1>0, <1>3, <1>5, <1>8
  <2> DEFINE e == <<>>
  <2>2. e \in Seq(Nat)
    OBVIOUS
  <2> HIDE DEF e
  <2>3. sub' = [sub EXCEPT !.next = oldest, !.base = top, !.got = e]
    BY <1>1 DEF e
  <2>4. sub' \in SubRecord
    BY <1>0, <2>1, <2>2, <2>3 DEF SubRecord
  <2>5. sub'.got = <<>>
    BY <1>0, <2>3 DEF SubRecord, e
  <2>6. QED
    BY <1>0, <2>3, <2>4, <2>5 DEF SubRecord
<1>10. Passed(sub.base)'
  <2>1. ASSUME NEW m, Passed(m)
        PROVE  m <= sub.watermark \/ \E k \in 1..oldest - 1 : sent[k] = m
    <3>1. \A k \in 1..sub.next - 1 : k \in 1..oldest - 1
      BY <1>0, <1>3
    <3>2. QED
      BY <2>1, <3>1 DEF Passed
  <2>2. top <= sub.watermark \/ \E k \in 1..oldest - 1 : sent[k] = top
    <3>1. CASE top = sub.base
      BY <1>0, <2>1, <3>1 DEF LiveOK
    <3>2. CASE top = sent[oldest - 1]
      <4>1. oldest - 1 \in 1..oldest - 1
        BY <1>3
      <4>2. QED
        BY <3>2, <4>1
    <3>3. ASSUME NEW n \in 1..Len(sub.got), top = sub.got[n]
          PROVE  top <= sub.watermark \/ \E k \in 1..oldest - 1 : sent[k] = top
      BY <1>0, <2>1, <3>3 DEF LiveOK
    <3>4. QED
      BY <1>6, <1>8, <3>1, <3>2, <3>3
  <2>3. QED
    BY <1>0, <1>9, <2>2 DEF Passed
<1>11. ASSUME NEW m \in top + 1..last
       PROVE  IF m <= sub.watermark THEN m \in Deleted' \cup unannounced' ELSE Ahead(m)'
  <2>1. m \in sub.base + 1..last /\ m \notin known
    BY <1>0, <1>2, <1>5, <1>8
  <2>2. ~Got(m)
    BY <1>5, <2>1 DEF Got
  <2>3. IF m <= sub.watermark THEN m \in Deleted \cup unannounced ELSE Ahead(m)
    BY <1>0, <2>1, <2>2 DEF LiveOK
  <2>4. Deleted' = Deleted
    BY <1>0, <1>9 DEF Deleted
  <2>5. ASSUME NEW k \in sub.next..Len(sent), sent[k] = m
        PROVE  k \in oldest..Len(sent)
    <3> SUFFICES ASSUME k <= oldest - 1 PROVE FALSE
      BY <1>0, <1>3
    <3>1. k \in 1..Len(sent) /\ (k = oldest - 1 \/ k < oldest - 1)
      BY <1>0, <1>3
    <3>2. sent[k] = sent[oldest - 1] \/ sent[k] < sent[oldest - 1]
      BY <1>3, <3>1 DEF StreamInv, ChannelInv
    <3>3. QED
      <4>1. sent[oldest - 1] \in Nat /\ top \in Nat /\ sent[oldest - 1] <= top
        BY <1>5, <1>8
      <4>2. sent[k] \in Nat
        BY <3>1 DEF StreamInv, ChannelInv
      <4>3. m > top
        BY <1>0, <4>1
      <4>4. QED
        BY <2>5, <3>2, <4>1, <4>2, <4>3
  <2>6. Ahead(m) => Ahead(m)'
    BY <1>0, <1>9, <2>5 DEF Ahead
  <2>7. QED
    BY <1>0, <2>3, <2>4, <2>6
<1>12. LiveOK'
  BY <1>0, <1>9, <1>10, <1>11 DEF LiveOK
<1>13. QED
  BY <1>0, <1>3, <1>9, <1>12, LiveClient

\* Every step of GET /v1/events.
LEMMA ClientKeeps ==
  ASSUME StreamInv, ClientStep
  PROVE  StreamInv'
  BY SubscribeKeeps, BoundsKeep, ReplayKeeps, LiveKeeps, LagKeeps DEF ClientStep

\* The client of a stream that satisfies StreamInv receives in order; what it has been
\* passed over was deleted in time or never announced: the last event it has is
\* behind the receiver, so nothing before it is ahead.
LEMMA StreamPromises ==
  ASSUME StreamInv
  PROVE  StreamInOrder /\ NoSilentGap
<1>0. /\ sub \in SubRecord /\ sub.got \in Seq(Nat) /\ Len(sub.got) \in Nat
      /\ sub.base \in Nat /\ sub.watermark \in Nat /\ sub.next \in Nat
      /\ DOMAIN sub.got = 1..Len(sub.got) /\ last \in Nat /\ Len(sent) \in Nat
      /\ sub.next \in 1..Len(sent) + 1
  <2>1. sub \in SubRecord /\ sub.next \in 1..Len(sent) + 1 /\ last \in Nat /\ sent \in Seq(Nat)
    BY DEF StreamInv, ClientInv, ChannelInv
  <2>2. QED
    BY <2>1 DEF SubRecord
<1>1. CASE sub.at # "live"
  <2>1. sub.got = <<>>
    BY <1>1 DEF StreamInv, ClientInv
  <2>2. \A n \in 1..Len(sub.got) : FALSE
    BY <2>1
  <2>3. Missed = {}
    BY <2>1 DEF Missed
  <2>4. QED
    BY <2>2, <2>3 DEF StreamInOrder, NoSilentGap
<1>2. CASE sub.at = "live"
  <2>1. LiveOK
    BY <1>2 DEF StreamInv, ClientInv
  <2>2. StreamInOrder
    BY <2>1 DEF LiveOK, StreamInOrder
  <2>3. NoSilentGap
    <3> SUFFICES ASSUME NEW m \in Missed
                 PROVE  m \in Deleted \cup unannounced
      BY DEF NoSilentGap, Deleted
    <3> DEFINE end == Last(sub.got)
    <3>1. sub.got # <<>> /\ m \in sub.base + 1..end /\ m \notin ToSet(sub.got)
      BY DEF Missed
    <3>2. Len(sub.got) \in 1..Len(sub.got) /\ end = sub.got[Len(sub.got)]
      BY <1>0, <3>1 DEF Last
    <3>3. end \in 1..last /\ Passed(end) /\ Got(end)
      BY <2>1, <3>2 DEF LiveOK, Got
    <3> HIDE DEF end
    <3>4. ~Got(m) /\ m # end
      BY <1>0, <3>1, <3>3 DEF ToSet, Got
    <3>5. m \in sub.base + 1..last /\ m < end
      BY <1>0, <3>1, <3>3, <3>4
    <3>6. CASE m <= sub.watermark
      BY <2>1, <3>4, <3>5, <3>6 DEF LiveOK
    <3>7. CASE ~(m <= sub.watermark)
      <4>1. Ahead(m)
        BY <2>1, <3>4, <3>5, <3>7 DEF LiveOK
      <4>2. m \notin outbox
        <5>1. outbox \subseteq {last}
          BY DEF StreamInv, ChannelInv
        <5>2. m # last
          BY <1>0, <3>3, <3>5
        <5>3. QED
          BY <5>1, <5>2
      <4>3. ASSUME NEW k \in sub.next..Len(sent), sent[k] = m PROVE FALSE
        <5>1. ~(end <= sub.watermark)
          BY <1>0, <3>3, <3>5, <3>7
        <5>2. PICK j \in 1..sub.next - 1 : sent[j] = end
          BY <3>3, <5>1 DEF Passed
        <5>3. j \in 1..Len(sent) /\ k \in 1..Len(sent) /\ j < k
          BY <1>0
        <5>4. end < m
          BY <4>3, <5>2, <5>3 DEF StreamInv, ChannelInv
        <5>5. QED
          BY <1>0, <3>3, <3>5, <5>4
      <4>4. QED
        BY <4>1, <4>2, <4>3 DEF Ahead
    <3>8. QED
      BY <3>6, <3>7
  <2>4. QED
    BY <2>2, <2>3
<1>3. QED
  BY <1>1, <1>2
-----------------------------------------------------------------------------
(* Idempotency keys: a key names at most one operation.                    *)

USE OperationsAssumption

\* The rows of the operations and those of the keys name each other.
KeysNameEffects ==
  /\ DOMAIN ask \subseteq Requests
  /\ keys \in [{ask[r].key : r \in DOMAIN ask} -> Requests \cup {None}]
  /\ effects \subseteq DOMAIN ask
  /\ \A r \in effects : keys[Key(r)] = r
  /\ \A k \in DOMAIN keys : keys[k] # None => keys[k] \in effects /\ Key(keys[k]) = k

\* Where a request can be.
Places == {"new", "gate", "lookup", "reserve", "commit", "fetch", "done"}

\* A request that goes on to spawn its backup has committed it.
Progress ==
  /\ at \in [Requests -> Places]
  /\ reply \in [Requests -> Requests \cup Errors \cup {None}]
  /\ \A r \in Requests : at[r] = "fetch" => r \in effects

OperationsInv == KeysNameEffects /\ Progress /\ ReplayIsExact

\* InitKeys: no key is in use and no request is answered at the start.
LEMMA InitKeys == OperationsInit => OperationsInv
<1> SUFFICES ASSUME OperationsInit PROVE OperationsInv
  OBVIOUS
<1>1. DOMAIN ask \subseteq Requests
  BY DEF OperationsInit
<1>2. effects = {} /\ \A k \in DOMAIN keys : keys[k] = None
  BY DEF OperationsInit
<1>3. keys \in [{ask[r].key : r \in DOMAIN ask} -> Requests \cup {None}]
  BY DEF OperationsInit
<1>4. KeysNameEffects
  BY <1>1, <1>2, <1>3 DEF KeysNameEffects
<1>5. Progress /\ ReplayIsExact
  BY DEF OperationsInit, Progress, ReplayIsExact, Places
<1>6. QED
  BY <1>4, <1>5 DEF OperationsInv

\* QuietStep: a step that neither commits an operation nor answers a request.
LEMMA QuietStep ==
  ASSUME OperationsInv, UNCHANGED <<ask, keys, effects, reply, at>>
  PROVE  OperationsInv'
  BY DEF OperationsInv, KeysNameEffects, Progress, ReplayIsExact, Key, SameRequest

\* AnswerKeeps: a request may be answered with an error, or with a committed
\* operation that was asked for with its key and its canonical request.
LEMMA AnswerKeeps ==
  ASSUME OperationsInv, NEW r \in DOMAIN ask, NEW a, Answer(r, a),
         \/ a \in Errors
         \/ a \in effects /\ Key(a) = Key(r) /\ SameRequest(a, r),
         UNCHANGED <<ask, keys, effects>>
  PROVE  OperationsInv'
<1>1. r \in Requests /\ a \in Requests \cup Errors
  BY DEF OperationsInv, KeysNameEffects
<1>2. KeysNameEffects'
  BY DEF OperationsInv, KeysNameEffects, Key
<1>3. Progress'
  BY <1>1 DEF OperationsInv, Progress, Answer, Places
<1>4. ReplayIsExact'
  BY <1>1 DEF OperationsInv, Progress, ReplayIsExact, Answer, Key, SameRequest
<1>5. QED
  BY <1>2, <1>3, <1>4 DEF OperationsInv

\* MoveKeeps: a request that only goes on keeps the invariant.
LEMMA MoveKeeps ==
  ASSUME OperationsInv, NEW r \in DOMAIN ask, NEW l \in Places, l # "fetch",
         at' = [at EXCEPT ![r] = l], UNCHANGED <<ask, keys, effects, reply>>
  PROVE  OperationsInv'
  BY DEF OperationsInv, KeysNameEffects, Progress, ReplayIsExact, Key, SameRequest

\* ReplayedIsExact: what a key names answers only an equal request.
LEMMA ReplayedIsExact ==
  ASSUME OperationsInv, NEW r \in DOMAIN ask, NEW s, s = keys[Key(r)], s # None
  PROVE  \/ Replayed(r, s) \in Errors
         \/ /\ Replayed(r, s) \in effects
            /\ Key(Replayed(r, s)) = Key(r) /\ SameRequest(Replayed(r, s), r)
<1>1. Key(r) \in DOMAIN keys
  BY DEF OperationsInv, KeysNameEffects, Key
<1>2. s \in effects /\ Key(s) = Key(r)
  BY <1>1 DEF OperationsInv, KeysNameEffects
<1>3. QED
  BY <1>2 DEF Replayed, Errors, SameRequest

\* RowsInserted: the transaction adds one operation under a key that was not in
\* use.
LEMMA RowsInserted ==
  ASSUME OperationsInv, NEW r \in DOMAIN ask, InsertRows(r), UNCHANGED ask
  PROVE  KeysNameEffects' /\ effects \subseteq effects' /\ r \in effects'
<1>1. Key(r) \in DOMAIN keys /\ r \in Requests
  BY DEF OperationsInv, KeysNameEffects, Key
<1>2. \A s \in effects : Key(s) # Key(r)
  BY DEF InsertRows, OperationsInv, KeysNameEffects
<1>3. \A s \in effects' : keys'[Key(s)] = s /\ Key(s) \in DOMAIN keys
  BY <1>1, <1>2 DEF InsertRows, OperationsInv, KeysNameEffects, Key
<1>4. \A k \in DOMAIN keys' : keys'[k] # None => keys'[k] \in effects' /\ Key(keys'[k]) = k
  BY <1>1 DEF InsertRows, OperationsInv, KeysNameEffects, Key
<1>5. QED
  BY <1>1, <1>3, <1>4 DEF InsertRows, OperationsInv, KeysNameEffects, Key

\* CommitKeeps: the commit of an operation, whether the request goes on, is
\* answered or is dropped.
LEMMA CommitKeeps ==
  ASSUME OperationsInv, NEW r \in DOMAIN ask, InsertRows(r), UNCHANGED ask,
         \/ at' = [at EXCEPT ![r] = "fetch"] /\ UNCHANGED reply
         \/ \E a \in {r} \cup Errors : Answer(r, a)
  PROVE  OperationsInv'
<1>1. KeysNameEffects' /\ effects \subseteq effects' /\ r \in effects' /\ r \in Requests
  BY RowsInserted DEF OperationsInv, KeysNameEffects
<1>2. Progress'
  BY <1>1 DEF OperationsInv, Progress, Answer, Places
<1>3. ReplayIsExact'
  BY <1>1 DEF OperationsInv, Progress, ReplayIsExact, Answer, Key, SameRequest
<1>4. QED
  BY <1>1, <1>2, <1>3 DEF OperationsInv

\* RequestKeeps: every step of a request.
LEMMA RequestKeeps ==
  ASSUME OperationsInv, NEW r \in DOMAIN ask, RequestStep(r)
  PROVE  OperationsInv'
<1>1. CASE Arrive(r)
  <2>1. PICK l \in {"gate", "lookup"} : at' = [at EXCEPT ![r] = l]
    BY <1>1 DEF Arrive
  <2>2. QED
    BY <1>1, <2>1, MoveKeeps DEF Arrive, Places
<1>2. CASE LockGate(r)
  BY <1>2, MoveKeeps DEF LockGate, Places
<1>3. CASE replay_operation(r)
  <2>1. CASE StoredFor(r) # None
    <3>1. StoredFor(r) = keys[Key(r)] /\ Answer(r, Replayed(r, keys[Key(r)]))
      BY <1>3, <2>1 DEF replay_operation, StoredFor
    <3>2. QED
      BY <1>3, <2>1, <3>1, ReplayedIsExact, AnswerKeeps DEF replay_operation
  <2>2. CASE StoredFor(r) = None
    BY <1>3, <2>2, MoveKeeps DEF replay_operation, Places
  <2>3. QED
    BY <2>1, <2>2
<1>4. CASE Reserve(r)
  BY <1>4, MoveKeeps, AnswerKeeps DEF Reserve, Errors, Places
<1>5. CASE CommitOperation(r)
  BY <1>5, CommitKeeps DEF CommitOperation
<1>6. CASE RollBackOperation(r)
  BY <1>6, ReplayedIsExact, AnswerKeeps DEF RollBackOperation, Errors
<1>7. CASE SpawnBackup(r)
  <2>1. r \in effects
    BY <1>7 DEF SpawnBackup, OperationsInv, Progress, KeysNameEffects
  <2>2. QED
    BY <1>7, <2>1, AnswerKeeps DEF SpawnBackup, SameRequest
<1>8. CASE DropRequest(r)
  <2>1. Answer(r, "dropped") /\ "dropped" \in Errors /\ UNCHANGED ask
    BY <1>8 DEF DropRequest, Errors
  <2>2. CASE UNCHANGED <<keys, effects>>
    BY <2>1, <2>2, AnswerKeeps
  <2>3. CASE InsertRows(r)
    BY <2>1, <2>3, CommitKeeps
  <2>4. QED
    BY <1>8, <2>2, <2>3 DEF DropRequest
<1>9. QED
  BY <1>1, <1>2, <1>3, <1>4, <1>5, <1>6, <1>7, <1>8 DEF RequestStep

\* TaskKeeps: what the spawned tasks do leaves keys and answers alone.
LEMMA TaskKeeps ==
  ASSUME OperationsInv, NEW r \in DOMAIN ask, EndTask(r) \/ BackupStep(r)
  PROVE  OperationsInv'
<1>1. UNCHANGED <<ask, keys, effects, reply, at>>
  BY DEF EndTask, BackupStep, VacuumInto, WriteManifest, PublishBackup, BackupError,
         FailBackup, reqVars
<1>2. QED
  BY <1>1, QuietStep

\* RestartKeeps: a restart drops the requests that were not answered.
LEMMA RestartKeeps == OperationsInv /\ Restart => OperationsInv'
<1> SUFFICES ASSUME OperationsInv, Restart PROVE OperationsInv'
  OBVIOUS
<1>1. KeysNameEffects'
  BY DEF OperationsInv, KeysNameEffects, Restart, Key
<1>2. Progress'
  BY DEF OperationsInv, Progress, Restart, Errors, Places
<1>3. ReplayIsExact'
  BY DEF OperationsInv, Progress, ReplayIsExact, Restart, Key, SameRequest, Errors
<1>4. QED
  BY <1>1, <1>2, <1>3 DEF OperationsInv

\* StepKeeps: every step of the specification.
LEMMA StepKeeps == OperationsInv /\ [OperationsNext]_operationsVars => OperationsInv'
<1> SUFFICES ASSUME OperationsInv, [OperationsNext]_operationsVars PROVE OperationsInv'
  OBVIOUS
<1>1. CASE \E r \in DOMAIN ask : RequestStep(r)
  BY <1>1, RequestKeeps
<1>2. CASE \E r \in DOMAIN ask : EndTask(r) \/ BackupStep(r)
  BY <1>2, TaskKeeps
<1>3. CASE Restart
  BY <1>3, RestartKeeps
<1>4. CASE UNCHANGED opVars
  BY <1>4, QuietStep DEF opVars, reqVars
<1>5. QED
  BY <1>1, <1>2, <1>3, <1>4 DEF OperationsNext, OtherEvent, Prune, operationsVars

\* EffectsAreUnique: at most one operation is committed for an idempotency key.
THEOREM EffectsAreUnique == OperationsSpec => []OneEffectPerKey
<1>1. OperationsInv => OneEffectPerKey
  BY DEF OperationsInv, KeysNameEffects, OneEffectPerKey
<1>2. QED
  BY <1>1, InitKeys, StepKeeps, PTL DEF OperationsSpec

\* RepliesAreExact: a request is only answered with a committed operation that
\* was asked for with the same key and the same canonical request.
THEOREM RepliesAreExact == OperationsSpec => []ReplayIsExact
<1>1. OperationsInv => ReplayIsExact
  BY DEF OperationsInv
<1>2. QED
  BY <1>1, InitKeys, StepKeeps, PTL DEF OperationsSpec

-----------------------------------------------------------------------------
(* Retention and backups: what is deleted from the journal is in a         *)
(* complete backup.                                                        *)

USE StreamAssumption

\* The types of what retention and backups read and write.
BackupTypes ==
  /\ last \in Nat /\ pruned \in Nat
  /\ file \in [Requests -> SUBSET Nat]
  /\ manifest \in [Requests -> Nat]
  /\ backup \in [Requests -> {"ABSENT", "RUNNING", "COMPLETE", "FAILED"}]
  /\ stage \in [Requests -> {"idle", "vacuum", "copied", "publish", "failed"}]

\* A backup has a row that is RUNNING for as long as its task is at work, and the
\* request that started it is answered by then.
BackupLife ==
  \A r \in Requests :
    /\ backup[r] # "ABSENT" => r \in effects
    /\ stage[r] # "idle" => at[r] = "done" /\ backup[r] = "RUNNING"
    /\ at[r] = "fetch" => backup[r] = "RUNNING"

\* From the copy to the publication the gate is held, so that the copy has every
\* event that the journal has.
CopyIsCurrent ==
  \A r \in Requests : stage[r] \in {"copied", "publish"} =>
    /\ writeGate = r
    /\ \A n \in Nat : pruned < n /\ n <= last => n \in file[r]
    /\ stage[r] = "publish" => manifest[r] = last

\* Event n is in the file of a complete backup.
Covered(n) == \E r \in Requests : backup[r] = "COMPLETE" /\ n \in file[r]

\* What a manifest claims is in its file or in that of an earlier backup.
ManifestIsTrue ==
  LiveMode => \A r \in Requests : backup[r] = "COMPLETE" =>
    \A n \in 1..manifest[r] : Covered(n)

\* What retention has deleted is in a complete backup.
PrunedIsCovered == LiveMode => \A n \in 1..pruned : Covered(n)

\* BackupInv: a manifest is true because its copy was current when it was published,
\* and retention deletes only up to a manifest.
BackupInv ==
  /\ OperationsInv /\ BackupTypes /\ BackupLife /\ CopyIsCurrent
  /\ ManifestIsTrue /\ PrunedIsCovered

\* NotAGate: while no backup holds write_gate no copy is under way.
LEMMA NotAGate ==
  ASSUME CopyIsCurrent, writeGate \in {"free", "sending"}, NEW r \in Requests
  PROVE  stage[r] \notin {"copied", "publish"}
<1>1. "free" \notin Requests /\ "sending" \notin Requests
  OBVIOUS
<1>2. QED
  BY <1>1 DEF CopyIsCurrent

\* InitBackups: there is no backup at the start.
LEMMA InitBackups == OperationsInit => BackupInv
<1> SUFFICES ASSUME OperationsInit PROVE BackupInv
  OBVIOUS
<1>1. BackupTypes /\ BackupLife /\ CopyIsCurrent
  BY DEF OperationsInit, StreamInit, BackupTypes, BackupLife, CopyIsCurrent
<1>2. ManifestIsTrue /\ PrunedIsCovered
  BY DEF OperationsInit, StreamInit, ManifestIsTrue, PrunedIsCovered
<1>3. QED
  BY <1>1, <1>2, InitKeys DEF BackupInv

\* RowsStay: complete backups that stay as they are cover what they covered.
LEMMA RowsStay ==
  ASSUME BackupInv,
         \A r \in Requests : backup[r] = "COMPLETE" =>
           backup'[r] = "COMPLETE" /\ file'[r] = file[r],
         \A r \in Requests : backup'[r] = "COMPLETE" =>
           backup[r] = "COMPLETE" /\ manifest'[r] = manifest[r],
         pruned' = pruned
  PROVE  ManifestIsTrue' /\ PrunedIsCovered'
<1>1. \A n : Covered(n) => Covered(n)'
  BY DEF Covered
<1>2. QED
  BY <1>1 DEF BackupInv, ManifestIsTrue, PrunedIsCovered

\* StepOfRequest: a request that goes on, is answered or is dropped without a
\* commit.
LEMMA StepOfRequest ==
  ASSUME BackupInv, NEW r \in Requests, NEW l, l # "fetch", at[r] # "done",
         at' = [at EXCEPT ![r] = l],
         UNCHANGED <<streamVars, backupVars, effects>>, OperationsInv'
  PROVE  BackupInv'
<1> USE DEF streamVars, backupVars
<1>1. BackupTypes' /\ CopyIsCurrent'
  BY DEF BackupInv, BackupTypes, CopyIsCurrent
<1>2. BackupLife'
  BY DEF BackupInv, BackupLife, OperationsInv, Progress
<1>3. ManifestIsTrue' /\ PrunedIsCovered'
  BY RowsStay
<1>4. QED
  BY <1>1, <1>2, <1>3 DEF BackupInv

\* StepOfCommit: the transaction of an operation finds write_gate free, so no
\* copy is under way, and a backup that it creates is new.
LEMMA StepOfCommit ==
  ASSUME BackupInv, NEW r \in DOMAIN ask, InsertRows(r), at[r] = "commit",
         writeGate = "free", last' = last + 1, NEW l, at' = [at EXCEPT ![r] = l],
         l = "fetch" => ask[r].op = "backup",
         UNCHANGED <<pruned, file, manifest, stage>>, OperationsInv'
  PROVE  BackupInv'
<1>1. r \in Requests /\ r \notin effects
  <2>1. \A s \in effects : keys[Key(s)] = s /\ s # None
    BY DEF BackupInv, OperationsInv, KeysNameEffects
  <2>2. r \in Requests /\ keys[Key(r)] = None
    BY DEF InsertRows, BackupInv, OperationsInv, KeysNameEffects
  <2>3. QED
    BY <2>1, <2>2
<1>2. /\ effects' = effects \cup {r}
      /\ backup' = IF ask[r].op = "backup" THEN [backup EXCEPT ![r] = "RUNNING"] ELSE backup
  BY DEF InsertRows
<1>3. backup[r] = "ABSENT" /\ stage[r] = "idle"
  BY <1>1 DEF BackupInv, BackupLife
<1>4. BackupTypes'
  BY <1>1, <1>2 DEF BackupInv, BackupTypes
<1>5. BackupLife'
  BY <1>1, <1>2, <1>3 DEF BackupInv, BackupLife, BackupTypes, OperationsInv, Progress
<1>6. CopyIsCurrent'
  BY NotAGate DEF BackupInv, CopyIsCurrent
<1>7. ManifestIsTrue' /\ PrunedIsCovered'
  BY <1>1, <1>2, <1>3, RowsStay DEF BackupInv, BackupTypes
<1>8. QED
  BY <1>4, <1>5, <1>6, <1>7 DEF BackupInv

\* StepOfStream: any other write of the journal, the broadcast and the client.
LEMMA StepOfStream ==
  ASSUME BackupInv, UNCHANGED <<opVars, pruned>>,
         \/ UNCHANGED last /\ (writeGate' = writeGate \/ writeGate = "sending")
         \/ last' = last + 1 /\ writeGate = "free"
  PROVE  BackupInv'
<1> USE DEF opVars, reqVars, backupVars
<1>1. OperationsInv'
  BY QuietStep DEF BackupInv
<1>2. BackupTypes' /\ BackupLife'
  BY DEF BackupInv, BackupTypes, BackupLife
<1>3. CopyIsCurrent'
  BY NotAGate DEF BackupInv, CopyIsCurrent
<1>4. ManifestIsTrue' /\ PrunedIsCovered'
  BY RowsStay
<1>5. QED
  BY <1>1, <1>2, <1>3, <1>4 DEF BackupInv

\* StepOfPrune: pruning deletes no more than the manifest of some backup claims.
LEMMA StepOfPrune == BackupInv /\ Prune => BackupInv'
<1> SUFFICES ASSUME BackupInv, Prune PROVE BackupInv'
  OBVIOUS
<1> USE DEF opVars, reqVars, backupVars
<1>1. OperationsInv'
  BY QuietStep DEF BackupInv, Prune, prune_events
<1>2. BackupTypes' /\ BackupLife' /\ writeGate = "free" /\ EventRetention \in Nat
  BY DEF BackupInv, BackupTypes, BackupLife, Prune, prune_events
<1>3. CopyIsCurrent'
  BY <1>2, NotAGate DEF BackupInv, CopyIsCurrent, Prune
<1>4. \A n : Covered(n) => Covered(n)'
  BY DEF Covered, Prune
<1>5. ManifestIsTrue'
  BY <1>4 DEF BackupInv, ManifestIsTrue, Prune
<1>6. ASSUME LiveMode PROVE \A n \in 1..pruned' : Covered(n)
  <2>1. PICK r \in Requests : backup[r] = "COMPLETE" /\ manifest[r] >= pruned'
    BY <1>6 DEF Prune, prune_events, BackedUpThrough
  <2>2. \A n \in 1..manifest[r] : Covered(n)
    BY <1>6, <2>1 DEF BackupInv, ManifestIsTrue
  <2>3. QED
    BY <2>1, <2>2, <1>2 DEF BackupInv, BackupTypes
<1>7. PrunedIsCovered'
  BY <1>4, <1>6 DEF PrunedIsCovered
<1>8. QED
  BY <1>1, <1>2, <1>3, <1>5, <1>7 DEF BackupInv

\* StepOfBackup: the copy, the manifest, the publication and the errors.
LEMMA StepOfBackup ==
  ASSUME BackupInv, NEW r \in DOMAIN ask, BackupStep(r)
  PROVE  BackupInv'
<1> r \in Requests
  BY DEF BackupInv, OperationsInv, KeysNameEffects
<1> USE DEF reqVars, streamVars, Stage
<1>1. OperationsInv'
  BY TaskKeeps DEF BackupInv
<1>2. CASE VacuumInto(r)
  <2>1. stage[r] = "vacuum" /\ backup[r] = "RUNNING" /\ writeGate = "free"
    BY <1>2 DEF VacuumInto, BackupInv, BackupLife
  <2>2. BackupTypes'
    BY <1>2 DEF VacuumInto, BackupInv, BackupTypes
  <2>3. BackupLife'
    BY <1>2, <2>1 DEF VacuumInto, BackupInv, BackupLife, BackupTypes
  <2>4. CopyIsCurrent'
    BY <1>2, <2>1, NotAGate DEF VacuumInto, BackupInv, BackupTypes, CopyIsCurrent
  <2>5. ManifestIsTrue' /\ PrunedIsCovered'
    BY <1>2, <2>1, RowsStay DEF VacuumInto, BackupInv, BackupTypes
  <2>6. QED
    BY <1>1, <2>2, <2>3, <2>4, <2>5 DEF BackupInv
<1>3. CASE WriteManifest(r)
  <2>1. backup[r] = "RUNNING"
    BY <1>3 DEF WriteManifest, BackupInv, BackupLife
  <2>2. BackupTypes' /\ BackupLife'
    BY <1>3, <2>1 DEF WriteManifest, BackupInv, BackupTypes, BackupLife
  <2>3. CopyIsCurrent'
    BY <1>3 DEF WriteManifest, BackupInv, BackupTypes, CopyIsCurrent
  <2>4. ManifestIsTrue' /\ PrunedIsCovered'
    BY <1>3, <2>1, RowsStay DEF WriteManifest, BackupInv, BackupTypes
  <2>5. QED
    BY <1>1, <2>2, <2>3, <2>4 DEF BackupInv
<1>4. CASE PublishBackup(r)
  <2>1. /\ backup[r] = "RUNNING" /\ writeGate = r /\ manifest[r] = last
        /\ \A n \in Nat : pruned < n /\ n <= last => n \in file[r]
    BY <1>4 DEF PublishBackup, BackupInv, BackupLife, CopyIsCurrent
  <2>2. BackupTypes' /\ BackupLife'
    BY <1>4, <2>1 DEF PublishBackup, BackupInv, BackupTypes, BackupLife
  <2>3. CopyIsCurrent'
    BY <1>4, <2>1 DEF PublishBackup, BackupInv, BackupTypes, CopyIsCurrent
  <2>4. /\ backup'[r] = "COMPLETE"
        /\ \A s \in Requests \ {r} : backup'[s] = backup[s]
        /\ file' = file /\ manifest' = manifest /\ pruned' = pruned
    BY <1>4 DEF PublishBackup, BackupInv, BackupTypes
  <2>5. \A n : Covered(n) => Covered(n)'
    BY <2>4 DEF Covered
  <2>6. PrunedIsCovered'
    BY <2>4, <2>5 DEF BackupInv, PrunedIsCovered
  <2>7. ASSUME LiveMode PROVE \A n \in 1..manifest[r] : Covered(n)'
    <3>1. \A n \in 1..last : n <= pruned => Covered(n)'
      BY <2>5, <2>7 DEF BackupInv, PrunedIsCovered, BackupTypes
    <3>2. \A n \in 1..last : pruned < n => Covered(n)'
      BY <2>1, <2>4 DEF Covered, BackupInv, BackupTypes
    <3>3. QED
      BY <2>1, <3>1, <3>2 DEF BackupInv, BackupTypes
  <2>8. ManifestIsTrue'
    BY <2>4, <2>5, <2>7 DEF BackupInv, ManifestIsTrue
  <2>9. QED
    BY <1>1, <2>2, <2>3, <2>6, <2>8 DEF BackupInv
<1>5. CASE BackupError(r)
  <2>1. BackupTypes' /\ BackupLife'
    BY <1>5 DEF BackupError, BackupInv, BackupTypes, BackupLife
  <2>2. CopyIsCurrent'
    BY <1>5 DEF BackupError, BackupInv, BackupTypes, CopyIsCurrent
  <2>3. ManifestIsTrue' /\ PrunedIsCovered'
    BY <1>5, RowsStay DEF BackupError
  <2>4. QED
    BY <1>1, <2>1, <2>2, <2>3 DEF BackupInv
<1>6. CASE FailBackup(r)
  <2>1. backup[r] = "RUNNING" /\ writeGate = "free" /\ last' = last + 1
    BY <1>6 DEF FailBackup, append_event, BackupInv, BackupLife
  <2>2. BackupTypes' /\ BackupLife'
    BY <1>6, <2>1 DEF FailBackup, BackupInv, BackupTypes, BackupLife
  <2>3. CopyIsCurrent'
    BY <1>6, <2>1, NotAGate DEF FailBackup, BackupInv, BackupTypes, CopyIsCurrent
  <2>4. ManifestIsTrue' /\ PrunedIsCovered'
    BY <1>6, <2>1, RowsStay DEF FailBackup, BackupInv, BackupTypes
  <2>5. QED
    BY <1>1, <2>2, <2>3, <2>4 DEF BackupInv
<1>7. QED
  BY <1>2, <1>3, <1>4, <1>5, <1>6 DEF BackupStep

\* StepOfRestart: a restart ends the tasks and fails their backups.
LEMMA StepOfRestart == BackupInv /\ Restart => BackupInv'
<1> SUFFICES ASSUME BackupInv, Restart PROVE BackupInv'
  OBVIOUS
<1>1. OperationsInv'
  BY RestartKeeps DEF BackupInv
<1>2. BackupTypes'
  <2>1. Cardinality(Running) \in Nat
    BY FS_Subset, FS_CardinalityType DEF Running
  <2>2. QED
    BY <2>1 DEF Restart, Running, BackupInv, BackupTypes
<1>3. BackupLife' /\ CopyIsCurrent'
  BY DEF Restart, Running, BackupInv, BackupTypes, BackupLife, CopyIsCurrent, OperationsInv,
         Progress
<1>4. ManifestIsTrue' /\ PrunedIsCovered'
  BY RowsStay DEF Restart, Running, BackupInv, BackupTypes
<1>5. QED
  BY <1>1, <1>2, <1>3, <1>4 DEF BackupInv

\* StepOfSpawn: the task of a backup starts.
LEMMA StepOfSpawn ==
  ASSUME BackupInv, NEW r \in DOMAIN ask, SpawnBackup(r), OperationsInv'
  PROVE  BackupInv'
<1> USE DEF streamVars
<1>1. r \in Requests /\ at[r] = "fetch" /\ backup[r] = "RUNNING" /\ stage[r] = "idle"
  BY DEF SpawnBackup, BackupInv, BackupLife, OperationsInv, KeysNameEffects
<1>2. BackupTypes' /\ BackupLife'
  BY <1>1 DEF SpawnBackup, Answer, BackupInv, BackupTypes, BackupLife, OperationsInv, Progress
<1>3. CopyIsCurrent'
  BY <1>1 DEF SpawnBackup, BackupInv, BackupTypes, CopyIsCurrent
<1>4. ManifestIsTrue' /\ PrunedIsCovered'
  BY RowsStay DEF SpawnBackup
<1>5. QED
  BY <1>2, <1>3, <1>4 DEF BackupInv

\* AnyRequest: every step of a request.
LEMMA AnyRequest ==
  ASSUME BackupInv, NEW r \in DOMAIN ask, RequestStep(r)
  PROVE  BackupInv'
<1> r \in Requests
  BY DEF BackupInv, OperationsInv, KeysNameEffects
<1>1. OperationsInv'
  BY RequestKeeps DEF BackupInv
<1>2. CASE Arrive(r) \/ LockGate(r) \/ replay_operation(r) \/ Reserve(r) \/ RollBackOperation(r)
  <2>1. /\ at[r] # "done" /\ UNCHANGED <<streamVars, backupVars, effects>>
        /\ \E l \in Places \ {"fetch"} : at' = [at EXCEPT ![r] = l]
    BY <1>2 DEF Arrive, LockGate, replay_operation, Reserve, RollBackOperation, Answer, Places
  <2>2. QED
    BY <1>1, <2>1, StepOfRequest
<1>3. CASE CommitOperation(r)
  <2>1. /\ InsertRows(r) /\ at[r] = "commit" /\ writeGate = "free" /\ last' = last + 1
        /\ UNCHANGED <<pruned, file, manifest, stage>>
        /\ \E l : at' = [at EXCEPT ![r] = l] /\ (l = "fetch" => ask[r].op = "backup")
    BY <1>3 DEF CommitOperation, append_event, Answer
  <2>2. QED
    BY <1>1, <2>1, StepOfCommit
<1>4. CASE SpawnBackup(r)
  BY <1>1, <1>4, StepOfSpawn
<1>5. CASE DropRequest(r)
  <2>1. at[r] # "done" /\ at' = [at EXCEPT ![r] = "done"] /\ UNCHANGED <<file, manifest, stage>>
    BY <1>5 DEF DropRequest, Answer
  <2>2. CASE UNCHANGED <<streamVars, keys, effects, backup>>
    BY <1>1, <2>1, <2>2, StepOfRequest DEF backupVars
  <2>3. CASE at[r] = "commit" /\ InsertRows(r) /\ AppendUnannounced /\ UNCHANGED <<pruned, sent, sub>>
    BY <1>1, <2>1, <2>3, StepOfCommit DEF AppendUnannounced
  <2>4. QED
    BY <1>5, <2>2, <2>3 DEF DropRequest
<1>6. QED
  BY <1>2, <1>3, <1>4, <1>5 DEF RequestStep

\* AnyStep: every step of the specification.
LEMMA AnyStep == BackupInv /\ [OperationsNext]_operationsVars => BackupInv'
<1> SUFFICES ASSUME BackupInv, [OperationsNext]_operationsVars PROVE BackupInv'
  OBVIOUS
<1>1. CASE \E r \in DOMAIN ask : RequestStep(r)
  BY <1>1, AnyRequest
<1>2. ASSUME NEW r \in DOMAIN ask, EndTask(r) PROVE BackupInv'
  <2>1. OperationsInv'
    BY <1>2, TaskKeeps DEF BackupInv
  <2>2. UNCHANGED <<streamVars, backupVars, effects, at>>
    BY <1>2 DEF EndTask
  <2>3. ManifestIsTrue' /\ PrunedIsCovered'
    BY <2>2, RowsStay DEF streamVars, backupVars
  <2>4. QED
    BY <2>1, <2>2, <2>3 DEF BackupInv, BackupTypes, BackupLife, CopyIsCurrent, streamVars,
                            backupVars
<1>3. CASE \E r \in DOMAIN ask : BackupStep(r)
  BY <1>3, StepOfBackup
<1>4. CASE OtherEvent
  BY <1>4, StepOfStream DEF OtherEvent, append_event
<1>5. CASE Prune
  BY <1>5, StepOfPrune
<1>6. CASE Broadcast /\ UNCHANGED opVars
  BY <1>6, StepOfStream DEF Broadcast
<1>7. CASE ClientStep /\ UNCHANGED opVars
  BY <1>7, StepOfStream DEF ClientStep, subscribe, event_sequence_bounds, replay_events,
                            DeliverLive, ClientLagged, Disconnect
<1>8. CASE Restart
  BY <1>8, StepOfRestart
<1>9. CASE UNCHANGED operationsVars
  BY <1>9, StepOfStream DEF operationsVars, streamVars
<1>10. QED
  BY <1>1, <1>2, <1>3, <1>4, <1>5, <1>6, <1>7, <1>8, <1>9 DEF OperationsNext

\* RetentionIsBackedUp: an audit event that live retention has deleted is in the
\* file of a complete backup, whatever backups fail or are interrupted and
\* whatever is written meanwhile.
THEOREM RetentionIsBackedUp == OperationsSpec => []PrunedIsInABackup
<1>1. BackupInv => PrunedIsInABackup
  BY DEF BackupInv, PrunedIsCovered, Covered, PrunedIsInABackup
<1>2. QED
  BY <1>1, InitBackups, AnyStep, PTL DEF OperationsSpec

-----------------------------------------------------------------------------
(* The event stream under the writers, backups and restarts of Operations  *)

\* StreamStart: nothing is broadcast and nobody listens at the start.
LEMMA StreamStart == OperationsInit => StreamInv
<1> SUFFICES ASSUME OperationsInit PROVE StreamInv
  OBVIOUS
<1>1. /\ last = 1 /\ pruned = 0 /\ outbox = {} /\ sent = <<>> /\ unannounced = {}
      /\ sub = Disconnected
  BY DEF OperationsInit, StreamInit
<1>2. ChannelInv
  BY <1>1 DEF ChannelInv
<1>3. ClientInv
  BY <1>1, Gone DEF ClientInv
<1>4. QED
  BY <1>2, <1>3 DEF StreamInv

\* GateMoves: a step that changes at most who has the gate, while nobody broadcasts.
LEMMA GateMoves ==
  ASSUME StreamInv, UNCHANGED <<last, pruned, outbox, sent, unannounced, sub>>,
         outbox = {} \/ writeGate' = writeGate
  PROVE  StreamInv'
<1>1. ChannelInv'
  BY DEF StreamInv, ChannelInv
<1>2. /\ \A m : (Ahead(m) <=> Ahead(m)') /\ (Got(m) <=> Got(m)')
      /\ Deleted' = Deleted
  BY DEF Ahead, Got, Deleted
<1>3. sub.at = "replay" => ReplayOK'
  BY <1>2 DEF StreamInv, ClientInv, ReplayOK
<1>4. sub.at = "live" => LiveOK'
  BY <1>2 DEF StreamInv, ClientInv, LiveOK, Passed
<1>5. QED
  BY <1>1, <1>3, <1>4 DEF StreamInv, ClientInv

\* Only a writer that has yet to broadcast leaves an event in its outbox.
LEMMA NothingToSend ==
  ASSUME StreamInv, writeGate # "sending"
  PROVE  outbox = {}
  BY DEF StreamInv, ChannelInv

\* A backup that publishes its event has had the gate since its copy.
LEMMA StreamOfBackup ==
  ASSUME BackupInv, StreamInv, NEW r \in DOMAIN ask, BackupStep(r)
  PROVE  StreamInv'
<1>0. r \in Requests /\ r # "sending"
  BY DEF BackupInv, OperationsInv, KeysNameEffects
<1>1. CASE VacuumInto(r)
  <2>1. outbox = {}
    BY <1>1, NothingToSend DEF VacuumInto
  <2>2. QED
    BY <1>1, <2>1, GateMoves DEF VacuumInto
<1>2. CASE WriteManifest(r)
  BY <1>2, GateMoves DEF WriteManifest, streamVars
<1>3. CASE PublishBackup(r)
  <2>1. writeGate = r
    BY <1>0, <1>3 DEF PublishBackup, BackupInv, CopyIsCurrent
  <2>2. outbox = {}
    BY <1>0, <2>1, NothingToSend
  <2>3. QED
    BY <1>3, <2>2, AppendKeeps DEF PublishBackup, StreamAppends
<1>4. CASE BackupError(r)
  <2>1. outbox = {} \/ writeGate' = writeGate
    BY <1>0, <1>4, NothingToSend DEF BackupError
  <2>2. QED
    BY <1>4, <2>1, GateMoves DEF BackupError
<1>5. CASE FailBackup(r)
  <2>1. outbox = {}
    BY <1>5, NothingToSend DEF FailBackup, append_event
  <2>2. QED
    BY <1>5, <2>1, AppendKeeps DEF FailBackup, append_event, StreamAppends
<1>6. QED
  BY <1>1, <1>2, <1>3, <1>4, <1>5 DEF BackupStep

\* A request writes one event, announced or not, or none.
LEMMA StreamOfRequest ==
  ASSUME StreamInv, NEW r, RequestStep(r)
  PROVE  StreamInv'
<1>1. CASE UNCHANGED streamVars
  BY <1>1, GateMoves DEF streamVars
<1>2. CASE CommitOperation(r)
  <2>1. outbox = {}
    BY <1>2, NothingToSend DEF CommitOperation, append_event
  <2>2. QED
    BY <1>2, <2>1, AppendKeeps DEF CommitOperation, append_event, StreamAppends
<1>3. CASE AppendUnannounced /\ UNCHANGED <<pruned, sent, sub>>
  <2>1. outbox = {}
    BY <1>3, NothingToSend DEF AppendUnannounced
  <2>2. QED
    BY <1>3, <2>1, AppendKeeps DEF AppendUnannounced, StreamAppends
<1>4. QED
  BY <1>1, <1>2, <1>3 DEF RequestStep, Arrive, LockGate, replay_operation, Reserve,
                          RollBackOperation, SpawnBackup, DropRequest

\* A restart ends the channel and every client; the numbers go on.
LEMMA StreamRestarts ==
  ASSUME BackupInv, StreamInv, Restart
  PROVE  StreamInv'
<1>1. Cardinality(Running) \in Nat
  <2>1. IsFiniteSet(Running)
    BY FS_Subset DEF Running
  <2>2. QED
    BY <2>1, FS_CardinalityType
<1>2. /\ last' = last + Cardinality(Running) /\ outbox' = {} /\ sent' = <<>>
      /\ sub' = Disconnected /\ UNCHANGED <<pruned, unannounced>>
  BY DEF Restart
<1>3. /\ last \in Nat \ {0} /\ pruned \in 0..last /\ unannounced \subseteq 1..last
  BY DEF StreamInv, ChannelInv
<1>4. last' \in Nat \ {0} /\ pruned' \in 0..last'
  BY <1>1, <1>2, <1>3
<1>5. unannounced' \subseteq 1..last'
  <2>1. \A m \in 1..last : m \in 1..last'
    BY <1>1, <1>2, <1>3
  <2>2. QED
    BY <1>2, <1>3, <2>1
<1>6. ChannelInv'
  BY <1>2, <1>4, <1>5 DEF ChannelInv
<1>7. ClientInv'
  BY <1>2, Gone DEF ClientInv
<1>8. QED
  BY <1>6, <1>7 DEF StreamInv

\* StreamStep: every step of the specification keeps the stream in order.
LEMMA StreamStep ==
  ASSUME BackupInv, StreamInv, [OperationsNext]_operationsVars
  PROVE  StreamInv'
<1>1. CASE \E r \in DOMAIN ask : RequestStep(r)
  BY <1>1, StreamOfRequest
<1>2. CASE \E r \in DOMAIN ask : BackupStep(r)
  BY <1>2, StreamOfBackup
<1>3. CASE OtherEvent
  <2>1. outbox = {}
    BY <1>3, NothingToSend DEF OtherEvent, append_event
  <2>2. QED
    BY <1>3, <2>1, AppendKeeps DEF OtherEvent, append_event, StreamAppends
<1>4. CASE Prune
  BY <1>4, PruneKeeps DEF Prune
<1>5. CASE Broadcast
  BY <1>5, BroadcastKeeps
<1>6. CASE ClientStep
  BY <1>6, ClientKeeps
<1>7. CASE Restart
  BY <1>7, StreamRestarts
<1>8. CASE (\E r \in DOMAIN ask : EndTask(r)) \/ UNCHANGED operationsVars
  BY <1>8, GateMoves DEF EndTask, operationsVars, streamVars
<1>9. QED
  BY <1>1, <1>2, <1>3, <1>4, <1>5, <1>6, <1>7, <1>8 DEF OperationsNext

\* StreamInvariant: where every event is that the client has not had, whatever
\* requests, backups, retention, lags and restarts there are.
THEOREM StreamInvariant == OperationsSpec => [](BackupInv /\ StreamInv)
<1>1. OperationsInit => BackupInv /\ StreamInv
  BY InitBackups, StreamStart
<1>2. BackupInv /\ StreamInv /\ [OperationsNext]_operationsVars => BackupInv' /\ StreamInv'
  BY AnyStep, StreamStep
<1>3. QED
  BY <1>1, <1>2, PTL DEF OperationsSpec

\* StreamIsOrdered: between two resets a client of the event stream receives strictly
\* increasing sequences, however replay, live flow and writers interleave.
THEOREM StreamIsOrdered == OperationsSpec => []StreamInOrder
<1>1. StreamInv => StreamInOrder
  BY StreamPromises
<1>2. QED
  BY <1>1, StreamInvariant, PTL

\* StreamHasNoSilentGap: a client that was not told to start over has every event up to
\* the last one it has, except what was deleted between its two queries or is never
\* announced.
THEOREM StreamHasNoSilentGap == OperationsSpec => []NoSilentGap
<1>1. StreamInv => NoSilentGap
  BY StreamPromises
<1>2. QED
  BY <1>1, StreamInvariant, PTL

-----------------------------------------------------------------------------
(* The types, the permits and the room of the journal                      *)

\* A permit is held from its reservation until its operation ends; a request that
\* reads its row back is one for a backup.
SlotsOK ==
  /\ tasks \subseteq Requests
  /\ mutation \in Requests \cup {None} /\ emergency \in Requests \cup {None}
  /\ \A r \in Requests : at[r] = "fetch" => ask[r].op = "backup"
  /\ Cardinality(SlotsInUse) <= OperationSlots

\* The room that is kept for the backups that are running.
RoomOK == last + Cardinality(Running) <= MaxSequence

\* BoundsInv: what is limited stays within its limit.
BoundsInv == SlotsOK /\ RoomOK

\* Counted: a smaller finite set has no more elements, and one more element adds at
\* most one.
LEMMA Counted ==
  ASSUME NEW S, IsFiniteSet(S), NEW T, NEW x
  PROVE  /\ Cardinality(S) \in Nat
         /\ T \subseteq S => Cardinality(T) \in Nat /\ Cardinality(T) <= Cardinality(S)
         /\ T \subseteq S \cup {x} =>
              Cardinality(T) \in Nat /\ Cardinality(T) <= Cardinality(S) + 1
<1>1. Cardinality(S) \in Nat
  BY FS_CardinalityType
<1>2. \A U, V : IsFiniteSet(U) /\ V \subseteq U =>
                  /\ Cardinality(V) \in Nat /\ Cardinality(U) \in Nat
                  /\ Cardinality(V) <= Cardinality(U)
  <2> SUFFICES ASSUME NEW U, NEW V, IsFiniteSet(U), V \in SUBSET U
               PROVE  /\ Cardinality(V) \in Nat /\ Cardinality(U) \in Nat
                      /\ Cardinality(V) <= Cardinality(U)
    BY Zenon
  <2>1. IsFiniteSet(V) /\ Cardinality(V) <= Cardinality(U)
    BY FS_Subset
  <2>2. QED
    BY <2>1, FS_CardinalityType
<1>3. IsFiniteSet(S \cup {x}) /\ Cardinality(S \cup {x}) <= Cardinality(S) + 1
  <2>1. /\ IsFiniteSet(S \cup {x})
        /\ Cardinality(S \cup {x}) \in {Cardinality(S), Cardinality(S) + 1}
    BY FS_AddElement, Zenon
  <2>2. QED
    BY <1>1, <2>1
<1>4. T \subseteq S => Cardinality(T) \in Nat /\ Cardinality(T) <= Cardinality(S)
  BY <1>2, Zenon
<1>5. T \subseteq S \cup {x} =>
        Cardinality(T) \in Nat /\ Cardinality(T) <= Cardinality(S) + 1
  <2> SUFFICES ASSUME T \subseteq S \cup {x}
               PROVE  Cardinality(T) \in Nat /\ Cardinality(T) <= Cardinality(S) + 1
    OBVIOUS
  <2>1. /\ Cardinality(T) \in Nat /\ Cardinality(S \cup {x}) \in Nat
        /\ Cardinality(T) <= Cardinality(S \cup {x})
    BY <1>2, <1>3, Zenon
  <2>2. QED
    BY <1>1, <1>3, <2>1
<1>6. QED
  BY <1>1, <1>4, <1>5, Zenon

\* There are finitely many requests.
LEMMA FiniteParts ==
  ASSUME NEW T, T \subseteq Requests
  PROVE  IsFiniteSet(T)
<1>1. T \in SUBSET Requests /\ IsFiniteSet(Requests)
  OBVIOUS
<1>2. QED
  BY <1>1, FS_Subset, Zenon

\* FewerSlots: a step that takes no permit.
LEMMA FewerSlots ==
  ASSUME Cardinality(SlotsInUse) <= OperationSlots, SlotsInUse' \subseteq SlotsInUse,
         tasks \subseteq Requests
  PROVE  Cardinality(SlotsInUse') <= OperationSlots
<1>1. IsFiniteSet(SlotsInUse)
  BY FiniteParts DEF SlotsInUse
<1>2. /\ Cardinality(SlotsInUse) \in Nat /\ Cardinality(SlotsInUse') \in Nat
      /\ Cardinality(SlotsInUse') <= Cardinality(SlotsInUse)
  BY <1>1, Counted
<1>3. QED
  BY <1>2

\* A step of a request: it takes a permit only in Reserve, if there is one.
LEMMA SlotsOfRequest ==
  ASSUME BackupInv, SlotsOK, NEW r \in DOMAIN ask, RequestStep(r)
  PROVE  SlotsOK'
<1>0. /\ r \in Requests /\ at \in [Requests -> Places] /\ tasks \subseteq Requests
      /\ ask' = ask
  BY DEF BackupInv, OperationsInv, KeysNameEffects, Progress, SlotsOK, RequestStep, Arrive,
         LockGate, replay_operation, Reserve, CommitOperation, RollBackOperation, SpawnBackup,
         DropRequest
<1>1. /\ mutation' \in Requests \cup {None} /\ emergency' \in Requests \cup {None}
  BY <1>0 DEF SlotsOK, RequestStep, Arrive, LockGate, replay_operation, Reserve,
         CommitOperation, RollBackOperation, SpawnBackup, DropRequest, Answer
<1>2. PICK l \in Places : at' = [at EXCEPT ![r] = l]
  BY DEF RequestStep, Arrive, LockGate, replay_operation, Reserve,
         CommitOperation, RollBackOperation, SpawnBackup, DropRequest, Answer, Places
<1>3. /\ \A q \in Requests : at'[q] = IF q = r THEN l ELSE at[q]
  BY <1>0, <1>2
<1>4. CASE l \notin {"commit", "fetch"} /\ UNCHANGED tasks
  <2>1. SlotsInUse' \subseteq SlotsInUse
    BY <1>0, <1>3, <1>4 DEF SlotsInUse, Spawns
  <2>2. QED
    BY <1>0, <1>1, <1>3, <1>4, <2>1, FewerSlots DEF SlotsOK
<1>5. CASE l = "commit" /\ Reserve(r)
  <2>1. UNCHANGED tasks /\ (Spawns(r) => Cardinality(SlotsInUse) < OperationSlots)
    BY <1>0, <1>2, <1>5 DEF Reserve, Answer
  <2>2. /\ Spawns(r) => SlotsInUse' \subseteq SlotsInUse \cup {r}
        /\ ~Spawns(r) => SlotsInUse' \subseteq SlotsInUse
    BY <1>0, <1>3, <2>1 DEF SlotsInUse, Spawns
  <2>3. CASE Spawns(r)
    <3>1. IsFiniteSet(SlotsInUse)
      BY <1>0, FiniteParts DEF SlotsInUse
    <3>2. SlotsInUse' \subseteq SlotsInUse \cup {r}
      BY <2>2, <2>3
    <3>3. /\ Cardinality(SlotsInUse) \in Nat /\ Cardinality(SlotsInUse') \in Nat
          /\ Cardinality(SlotsInUse') <= Cardinality(SlotsInUse) + 1
      BY <3>1, <3>2, Counted, Zenon
    <3>4. Cardinality(SlotsInUse') <= OperationSlots
      BY <2>1, <2>3, <3>3
    <3>5. QED
      BY <1>0, <1>1, <1>3, <1>5, <2>1, <3>4 DEF SlotsOK
  <2>4. CASE ~Spawns(r)
    BY <1>0, <1>1, <1>3, <1>5, <2>1, <2>2, <2>4, FewerSlots DEF SlotsOK
  <2>5. QED
    BY <2>3, <2>4
<1>6. CASE CommitOperation(r)
  <2>1. /\ at[r] = "commit"
        /\ \/ ask[r].op = "backup" /\ l = "fetch" /\ UNCHANGED tasks
           \/ l = "done" /\ tasks' = IF Spawns(r) THEN tasks \cup {r} ELSE tasks
    BY <1>0, <1>2, <1>6 DEF CommitOperation, Answer
  <2>2. SlotsInUse' \subseteq SlotsInUse /\ tasks' \subseteq Requests
    BY <1>0, <1>3, <2>1 DEF SlotsInUse, Spawns
  <2>3. QED
    BY <1>0, <1>1, <1>3, <2>1, <2>2, FewerSlots DEF SlotsOK
<1>7. CASE SpawnBackup(r)
  <2>1. at[r] = "fetch" /\ ask[r].op = "backup" /\ l = "done" /\ tasks' = tasks \cup {r}
    BY <1>0, <1>2, <1>7 DEF SpawnBackup, Answer, SlotsOK
  <2>2. SlotsInUse' \subseteq SlotsInUse /\ tasks' \subseteq Requests
    BY <1>0, <1>3, <2>1 DEF SlotsInUse, Spawns
  <2>3. QED
    BY <1>0, <1>1, <1>3, <2>1, <2>2, FewerSlots DEF SlotsOK
<1>8. QED
  <2>1. \/ l \notin {"commit", "fetch"} /\ UNCHANGED tasks
        \/ l = "commit" /\ Reserve(r)
        \/ CommitOperation(r) \/ SpawnBackup(r)
    BY <1>0, <1>2, <1>3 DEF RequestStep, Arrive, LockGate, replay_operation, Reserve,
         CommitOperation, RollBackOperation, SpawnBackup, DropRequest, Answer
  <2>2. QED
    BY <1>4, <1>5, <1>6, <1>7, <2>1

\* The other steps only give permits back.
LEMMA SlotsKept ==
  ASSUME SlotsOK, at' = at \/ (\A r \in Requests : at'[r] \in {"new", "done"}),
         ask' = ask, tasks' \subseteq tasks,
         mutation' \in {mutation, None}, emergency' \in {emergency, None}
  PROVE  SlotsOK'
<1>1. SlotsInUse' \subseteq SlotsInUse
  BY DEF SlotsInUse, Spawns
<1>2. QED
  BY <1>1, FewerSlots DEF SlotsOK

\* SlotsStep: permits under every step.
LEMMA SlotsStep ==
  ASSUME BackupInv, SlotsOK, [OperationsNext]_operationsVars
  PROVE  SlotsOK'
<1> USE DEF opVars, reqVars
<1>1. CASE \E r \in DOMAIN ask : RequestStep(r)
  BY <1>1, SlotsOfRequest
<1>2. ASSUME NEW r \in DOMAIN ask, EndTask(r) \/ BackupStep(r) PROVE SlotsOK'
  <2>1. UNCHANGED <<at, ask, mutation, emergency>> /\ tasks' \subseteq tasks
    BY <1>2 DEF EndTask, BackupStep, VacuumInto, WriteManifest, PublishBackup, BackupError,
                FailBackup
  <2>2. QED
    BY <2>1, SlotsKept
<1>3. CASE UNCHANGED opVars
  BY <1>3, SlotsKept
<1>4. CASE Restart
  <2>1. \A r \in Requests : at'[r] \in {"new", "done"}
    BY <1>4 DEF Restart
  <2>2. ask' = ask /\ tasks' = {} /\ mutation' = None /\ emergency' = None
    BY <1>4 DEF Restart
  <2>3. QED
    BY <2>1, <2>2, SlotsKept
<1>5. QED
  BY <1>1, <1>2, <1>3, <1>4 DEF OperationsNext, OtherEvent, Prune, operationsVars

\* RoomLeft: a step that writes no more events than Room has made sure of, or than
\* backups that end have left.
LEMMA RoomLeft ==
  ASSUME BackupTypes, RoomOK,
         \/ last' = last /\ Running' = Running
         \/ last' = last + 1 /\ Running' = Running /\ Room(1)
         \/ last' = last + 1 /\ Room(2) /\ \E r : Running' \subseteq Running \cup {r}
         \/ last' = last + 1 /\ \E r \in Running : Running' = Running \ {r}
         \/ last' = last + Cardinality(Running) /\ Running' = {}
  PROVE  RoomOK'
<1>0. /\ IsFiniteSet(Running) /\ Cardinality(Running) \in Nat /\ last \in Nat
      /\ MaxSequence \in Nat /\ last + Cardinality(Running) <= MaxSequence
  BY FiniteParts, Counted DEF Running, RoomOK, BackupTypes
<1> SUFFICES last' + Cardinality(Running') <= MaxSequence
  BY DEF RoomOK
<1>1. CASE last' = last /\ Running' = Running
  BY <1>0, <1>1
<1>2. CASE last' = last + 1 /\ Running' = Running /\ Room(1)
  BY <1>0, <1>2 DEF Room
<1>3. ASSUME NEW r, last' = last + 1, Room(2), Running' \subseteq Running \cup {r}
      PROVE  last' + Cardinality(Running') <= MaxSequence
  <2>1. /\ Cardinality(Running') \in Nat
        /\ Cardinality(Running') <= Cardinality(Running) + 1
    BY <1>0, <1>3, Counted, Zenon
  <2>2. QED
    BY <1>0, <1>3, <2>1 DEF Room
<1>4. ASSUME NEW r \in Running, last' = last + 1, Running' = Running \ {r}
      PROVE  last' + Cardinality(Running') <= MaxSequence
  <2>1. Cardinality(Running') = Cardinality(Running) - 1
    BY <1>0, <1>4, FS_RemoveElement
  <2>2. QED
    BY <1>0, <1>4, <2>1
<1>5. CASE last' = last + Cardinality(Running) /\ Running' = {}
  BY <1>0, <1>5, FS_EmptySet
<1>6. QED
  BY <1>1, <1>2, <1>3, <1>4, <1>5

\* The rows of an operation add at most one backup that is running.
LEMMA RoomOfRows ==
  ASSUME BackupInv, RoomOK, NEW r \in Requests, InsertRows(r), last' = last + 1
  PROVE  RoomOK'
<1>0. BackupTypes
  BY DEF BackupInv
<1>1. CASE ask[r].op = "backup"
  <2>1. Running' \subseteq Running \cup {r} /\ Room(2)
    BY <1>0, <1>1 DEF InsertRows, Running, BackupTypes
  <2>2. QED
    BY <1>0, <2>1, RoomLeft
<1>2. CASE ask[r].op # "backup"
  BY <1>0, <1>2, RoomLeft DEF InsertRows, Running
<1>3. QED
  BY <1>1, <1>2

\* A backup that ends was running.
LEMMA RoomOfBackup ==
  ASSUME BackupInv, RoomOK, NEW r \in DOMAIN ask, BackupStep(r)
  PROVE  RoomOK'
<1>0. r \in Requests /\ BackupTypes
  BY DEF BackupInv, OperationsInv, KeysNameEffects
<1>1. CASE UNCHANGED <<last, backup>>
  BY <1>0, <1>1, RoomLeft DEF Running
<1>2. CASE PublishBackup(r) \/ FailBackup(r)
  <2>1. backup[r] = "RUNNING" /\ last' = last + 1
    BY <1>0, <1>2 DEF PublishBackup, FailBackup, append_event, BackupInv, BackupLife
  <2>2. backup' = [backup EXCEPT ![r] = "COMPLETE"] \/ backup' = [backup EXCEPT ![r] = "FAILED"]
    BY <1>2 DEF PublishBackup, FailBackup
  <2>3. r \in Running /\ Running' = Running \ {r}
    BY <1>0, <2>1, <2>2 DEF Running, BackupTypes
  <2>4. QED
    BY <1>0, <2>1, <2>3, RoomLeft
<1>3. QED
  BY <1>1, <1>2 DEF BackupStep, VacuumInto, WriteManifest, BackupError, streamVars

\* RoomStep: room under every step.
LEMMA RoomStep ==
  ASSUME BackupInv, RoomOK, [OperationsNext]_operationsVars
  PROVE  RoomOK'
<1> USE DEF streamVars, opVars, backupVars
<1>0. BackupTypes /\ DOMAIN ask \subseteq Requests
  BY DEF BackupInv, OperationsInv, KeysNameEffects
<1>1. CASE UNCHANGED <<last, backup>>
  BY <1>0, <1>1, RoomLeft DEF Running
<1>2. ASSUME NEW r \in DOMAIN ask, RequestStep(r) PROVE RoomOK'
  <2>1. CASE CommitOperation(r)
    BY <1>0, <2>1, RoomOfRows DEF CommitOperation, append_event
  <2>2. CASE InsertRows(r) /\ AppendUnannounced
    BY <1>0, <2>2, RoomOfRows DEF AppendUnannounced
  <2>3. QED
    BY <1>1, <1>2, <2>1, <2>2 DEF RequestStep, Arrive, LockGate, replay_operation, Reserve,
                                  RollBackOperation, SpawnBackup, DropRequest
<1>3. ASSUME NEW r \in DOMAIN ask, BackupStep(r) PROVE RoomOK'
  BY <1>3, RoomOfBackup
<1>4. CASE OtherEvent
  BY <1>0, <1>4, RoomLeft DEF OtherEvent, append_event, Running
<1>5. CASE Restart
  <2>1. Running' = {} /\ last' = last + Cardinality(Running)
    BY <1>5 DEF Restart, Running
  <2>2. QED
    BY <1>0, <2>1, RoomLeft
<1>6. CASE ClientStep /\ UNCHANGED opVars
  BY <1>1, <1>6 DEF ClientStep, subscribe, event_sequence_bounds, replay_events, DeliverLive,
                    ClientLagged, Disconnect
<1>7. CASE \/ (\E r \in DOMAIN ask : EndTask(r)) \/ Prune \/ (Broadcast /\ UNCHANGED opVars)
           \/ UNCHANGED operationsVars
  BY <1>1, <1>7 DEF EndTask, Prune, prune_events, Broadcast, operationsVars
<1>8. QED
  BY <1>2, <1>3, <1>4, <1>5, <1>6, <1>7 DEF OperationsNext

\* At the start no permit is taken and no backup is running.
LEMMA BoundsStart == OperationsInit => BoundsInv
<1> SUFFICES ASSUME OperationsInit PROVE BoundsInv
  OBVIOUS
<1>1. SlotsInUse = {} /\ Running = {}
  BY DEF OperationsInit, SlotsInUse, Running
<1>2. Cardinality({}) = 0
  BY FS_EmptySet
<1>3. SlotsOK
  BY <1>1, <1>2 DEF OperationsInit, SlotsOK
<1>4. RoomOK
  BY <1>1, <1>2 DEF OperationsInit, StreamInit, RoomOK
<1>5. QED
  BY <1>3, <1>4 DEF BoundsInv

\* Narrowed: a sequence of numbers with elements in S is a sequence over S.
LEMMA Narrowed ==
  ASSUME NEW q \in Seq(Nat), NEW S, \A k \in 1..Len(q) : q[k] \in S
  PROVE  q \in Seq(S)
<1>1. Len(q) \in Nat /\ q \in [1..Len(q) -> Nat]
  OBVIOUS
<1>2. q \in [1..Len(q) -> S]
  BY <1>1
<1>3. QED
  BY <1>1, <1>2

\* TypesHold: the three invariants give the types.
LEMMA TypesHold ==
  ASSUME BackupInv, StreamInv, BoundsInv
  PROVE  OperationsTypeOK
<1>1. last \in 1..MaxSequence
  <2>1. Cardinality(Running) \in Nat /\ last \in Nat \ {0}
    BY FiniteParts, Counted DEF Running, StreamInv, ChannelInv
  <2>2. QED
    BY <2>1 DEF BoundsInv, RoomOK
<1>2. sent \in Seq(1..last)
  BY Narrowed DEF StreamInv, ChannelInv
<1>3. sub.at \in {"off", "bounds", "replay", "live"} /\ sub.got \in Seq(1..last)
  <2>1. sub \in SubRecord /\ sub.got \in Seq(Nat)
    BY DEF StreamInv, ClientInv, SubRecord
  <2>2. CASE sub.at = "live"
    <3>1. \A n \in 1..Len(sub.got) : sub.got[n] \in 1..last
      BY <2>2 DEF StreamInv, ClientInv, LiveOK
    <3>2. QED
      BY <2>1, <3>1, Narrowed DEF SubRecord
  <2>3. CASE sub.at # "live"
    <3>1. sub.got = <<>>
      BY <2>3 DEF StreamInv, ClientInv
    <3>2. QED
      BY <2>1, <3>1 DEF SubRecord
  <2>4. QED
    BY <2>2, <2>3
<1>4. StreamTypeOK
  <2>1. /\ pruned \in 0..last /\ outbox \subseteq 1..last /\ unannounced \subseteq 1..last
    BY <1>1 DEF StreamInv, ChannelInv
  <2>2. QED
    BY <1>1, <1>2, <1>3, <2>1 DEF StreamTypeOK
<1>5. Cardinality(tasks) <= OperationSlots
  <2>1. IsFiniteSet(SlotsInUse) /\ tasks \subseteq SlotsInUse
    BY FiniteParts DEF BoundsInv, SlotsOK, SlotsInUse
  <2>2. /\ Cardinality(SlotsInUse) \in Nat /\ Cardinality(tasks) \in Nat
        /\ Cardinality(tasks) <= Cardinality(SlotsInUse)
    BY <2>1, Counted, Zenon
  <2>3. QED
    BY <2>2 DEF BoundsInv, SlotsOK
<1>6. /\ {mutation, emergency} \subseteq Requests \cup {None} /\ tasks \subseteq Requests
  BY DEF BoundsInv, SlotsOK
<1>7. /\ at \in [Requests -> {"new", "gate", "lookup", "reserve", "commit", "fetch", "done"}]
      /\ reply \in [Requests -> Requests \cup Errors \cup {None}]
      /\ \A k \in DOMAIN keys : keys[k] \in Requests \cup {None}
      /\ effects \subseteq Requests
  BY DEF BackupInv, OperationsInv, Progress, KeysNameEffects, Places
<1>8. QED
  BY <1>4, <1>5, <1>6, <1>7 DEF OperationsTypeOK, BackupInv, BackupTypes

\* OperationsTypeCorrect: every variable keeps its type, at most OperationSlots spawned
\* operations run, and the events that running backups will write have room.
THEOREM OperationsTypeCorrect == OperationsSpec => []OperationsTypeOK
<1>1. BackupInv /\ BoundsInv /\ [OperationsNext]_operationsVars => BoundsInv'
  BY SlotsStep, RoomStep DEF BoundsInv
<1>2. BackupInv /\ StreamInv /\ BoundsInv => OperationsTypeOK
  BY TypesHold
<1>3. QED
  BY <1>1, <1>2, BoundsStart, StreamInvariant, PTL DEF OperationsSpec
=============================================================================
