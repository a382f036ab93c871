----------------------------- MODULE VenueProofs -----------------------------
(***************************************************************************)
(* The journal against the venue: the coordinator keeps the venue's        *)
(* contract, books no fill the venue has not matched, and never closes an  *)
(* order locally that the venue has open or may still receive.             *)
(***************************************************************************)
EXTENDS GateProofs

USE QtyAssumption, MaxRevisionAssumption, NoIntentAssumption

\* The venue will not match the order any more.
ClosedAtVenue(i) == venue[i] \in {"FILLED", "CANCELLED"}

\* What a step does to the order of an intent at the venue, a submission included.
VenueGrows(i) ==
  /\ matched'[i] >= matched[i]
  /\ ClosedAtVenue(i) => ClosedAtVenue(i)'
  /\ venue[i] = "none" => \/ venue'[i] = "none"
                          \/ SendToVenue /\ i = work.intent

\* SendMoves: what a submission does at the venue, and what its reply says of it.
LEMMA SendMoves ==
  ASSUME CoordInv, SendToVenue
  PROVE  LET w == work.intent IN
         /\ w \in Intents /\ venue[w] = "none" /\ matched[w] = 0
         /\ work'.intent = w
         /\ venue' \in [Intents -> VenueState] /\ matched' \in [Intents -> 0..Qty]
         /\ \A j \in Intents \ {w} : venue'[j] = venue[j] /\ matched'[j] = matched[j]
         /\ \/ /\ venue'[w] \in Accepted
               /\ venue'[w] = "FILLED" => matched'[w] = Qty
               /\ venue'[w] # "FILLED" => matched'[w] < Qty
               /\ \/ work'.reply = venue'[w] /\ work'.filled = matched'[w]
                  \/ work'.reply = "malformed" /\ work'.filled = 0
            \/ /\ venue'[w] = "none" /\ matched'[w] = 0
               /\ work'.reply = "rejected" /\ work'.filled = 0
            \/ /\ venue'[w] = "inflight" /\ matched'[w] = 0
               /\ work'.reply = "ambiguous" /\ work'.filled = 0
<1> DEFINE w == work.intent
<1>1. pc["worker"] = "send"
  BY DEF SendToVenue, WorkerAt, At
<1>2. w \in Intents /\ sends[w] = 0
  BY <1>1 DEF CoordInv, LocalsOK, VenueOK
<1>3. /\ venue[w] = "none" /\ matched[w] = 0
      /\ venue \in [Intents -> VenueState] /\ matched \in [Intents -> 0..Qty]
      /\ work \in [intent : Intents \cup {NoIntent}, reply : ReplyKind, filled : 0..Qty]
  BY <1>2 DEF CoordInv, VenueOK, VenueState, LocalsOK
<1>4. CASE \E m \in 0..Qty, s \in Accepted :
             /\ (s = "FILLED") = (m = Qty)
             /\ venue' = [venue EXCEPT ![w] = s]
             /\ matched' = [matched EXCEPT ![w] = m]
             /\ \/ work' = [work EXCEPT !.reply = s, !.filled = m]
                \/ work' = [work EXCEPT !.reply = "malformed", !.filled = 0]
  <2>1. PICK m \in 0..Qty, s \in Accepted :
             /\ (s = "FILLED") = (m = Qty)
             /\ venue' = [venue EXCEPT ![w] = s]
             /\ matched' = [matched EXCEPT ![w] = m]
             /\ \/ work' = [work EXCEPT !.reply = s, !.filled = m]
                \/ work' = [work EXCEPT !.reply = "malformed", !.filled = 0]
    BY <1>4
  <2>2. (s = "FILLED" => m = Qty) /\ (s # "FILLED" => m < Qty) /\ s \in VenueState
    BY <2>1 DEF Accepted, VenueState
  <2> HIDE DEF w
  <2>3. /\ venue'[w] = s /\ matched'[w] = m
        /\ venue' \in [Intents -> VenueState] /\ matched' \in [Intents -> 0..Qty]
        /\ \A j \in Intents \ {w} : venue'[j] = venue[j] /\ matched'[j] = matched[j]
    BY <1>2, <1>3, <2>1, <2>2
  <2>4. /\ work'.intent = work.intent
        /\ \/ work'.reply = s /\ work'.filled = m
           \/ work'.reply = "malformed" /\ work'.filled = 0
    BY <1>3, <2>1
  <2>5. QED
    BY <1>2, <1>3, <2>2, <2>3, <2>4 DEF w
<1>5. CASE /\ UNCHANGED <<venue, matched>>
           /\ work' = [work EXCEPT !.reply = "rejected", !.filled = 0]
  BY <1>2, <1>3, <1>5
<1>6. CASE /\ venue' = [venue EXCEPT ![w] = "inflight"] /\ UNCHANGED matched
           /\ work' = [work EXCEPT !.reply = "ambiguous", !.filled = 0]
  BY <1>2, <1>3, <1>6 DEF VenueState
<1>7. QED
  BY <1>4, <1>5, <1>6 DEF SendToVenue, venueVars

\* VenueOnlyGrows: matched lots are never taken back, a closed order stays closed, and
\* an order the venue has never heard of only comes from a submission.
LEMMA VenueOnlyGrows ==
  ASSUME CoordInv, [Next]_vars, NEW i \in Intents
  PROVE  VenueGrows(i)
<1>1. venue \in [Intents -> VenueState] /\ matched \in [Intents -> 0..Qty]
  BY DEF CoordInv, VenueOK, VenueState
<1>2. CASE SendToVenue
  BY <1>1, <1>2, SendMoves DEF VenueGrows, ClosedAtVenue
<1>3. CASE ~SendToVenue
  BY <1>1, <1>3, VenueMoves DEF VenueMove, VenueGrows, ClosedAtVenue
<1>4. QED
  BY <1>2, <1>3

\* ContractStep: every step moves every order along the life of the contract.
LEMMA ContractStep == CoordInv /\ [Next]_vars => [Contract!ContractNext]_<<venue, matched>>
<1> SUFFICES ASSUME CoordInv, [Next]_vars PROVE Contract!ContractNext
  OBVIOUS
<1>1. /\ venue \in [Intents -> VenueState] /\ matched \in [Intents -> 0..Qty]
      /\ \A i \in Intents : venue[i] = "LIVE" => matched[i] < Qty
  BY DEF CoordInv, VenueOK, VenueState
<1>2. CASE SendToVenue
  <2>1. DOMAIN venue' = Intents /\ DOMAIN matched' = Intents
    BY <1>1, <1>2, SendMoves
  <2>2. ASSUME NEW o \in Intents, o # work.intent
        PROVE  Contract!Stays(o)
    BY <1>1, <1>2, <2>2, SendMoves DEF Contract!Stays
  <2>3. Contract!Arrives(work.intent) \/ Contract!InTransit(work.intent)
    BY <1>1, <1>2, SendMoves DEF Contract!Arrives, Contract!InTransit, Accepted
  <2>4. QED
    BY <2>1, <2>2, <2>3 DEF Contract!ContractNext
<1>3. CASE ~SendToVenue
  <2>1. /\ venue' \in [Intents -> VenueState] /\ matched' \in [Intents -> Nat]
        /\ \A o \in Intents : VenueMove(o)
    BY <1>3, VenueMoves
  <2>2. /\ DOMAIN venue' = Intents /\ DOMAIN matched' = Intents
    BY <2>1
  <2>3. ASSUME NEW o \in Intents
        PROVE  \/ Contract!InTransit(o) \/ Contract!Arrives(o) \/ Contract!Matches(o)
               \/ Contract!Cancels(o) \/ Contract!Stays(o)
    <3>1. CASE venue'[o] = venue[o] /\ matched'[o] = matched[o]
      BY <3>1 DEF Contract!Stays
    <3>2. CASE /\ venue[o] = "inflight" /\ venue'[o] \in {"LIVE", "none"}
               /\ matched'[o] = matched[o]
      <4>1. matched[o] = 0
        BY <3>2 DEF CoordInv, VenueOK
      <4>2. QED
        BY <3>2, <4>1 DEF Contract!InTransit, Contract!Arrives
    <3>3. CASE /\ venue[o] = "LIVE" /\ matched'[o] = matched[o] + 1
               /\ venue'[o] = IF matched'[o] = Qty THEN "FILLED" ELSE "LIVE"
      <4>1. matched'[o] \in (matched[o] + 1)..Qty
        BY <1>1, <3>3
      <4>2. QED
        BY <3>3, <4>1 DEF Contract!Matches
    <3>4. CASE /\ venue[o] = "LIVE" /\ venue'[o] = "CANCELLED"
               /\ matched'[o] = matched[o]
      BY <3>4 DEF Contract!Cancels
    <3>5. QED
      BY <2>1, <3>1, <3>2, <3>3, <3>4 DEF VenueMove
  <2>4. QED
    BY <2>2, <2>3 DEF Contract!ContractNext
<1>4. QED
  BY <1>2, <1>3

\* ContractKept: what the coordinator does at the venue is what VenueContract allows
\* (CoordinatorKeepsContract), for any intents, quantity, restarts and lost replies.
THEOREM ContractKept == Spec => CoordinatorKeepsContract
<1>1. Init => Contract!ContractInit
  BY DEF Init, Contract!ContractInit
<1>2. QED
  BY <1>1, ContractStep, CoordinatorInvariant, PTL
  DEF Spec, CoordinatorKeepsContract, Contract!ContractSpec, Contract!venueContractVars

-----------------------------------------------------------------------------
(* How a step changes the local state of an order and the lots booked for  *)
(* it, by the evidence it uses.                                            *)

\* What a step of the journal may do to the state of an order, and the evidence
\* from the venue that it needs.
OrderMove(i) ==
  \/ order'[i] = order[i]
  \/ order[i] = "ABSENT" /\ order'[i] = "PREPARED" /\ intent[i] = "PREPARING"
  \/ order[i] = "PREPARED" /\ order'[i] \in {"SUBMITTING", "CANCELLED"}
  \/ /\ order[i] = "SUBMITTING" /\ pc["worker"] = "finish" /\ i = work.intent
     /\ pc'["worker"] # "send"
     /\ \/ work.reply \in Accepted /\ order'[i] = work.reply
        \/ work.reply = "rejected" /\ order'[i] = "REJECTED"
        \/ order'[i] = "UNKNOWN"
  \/ /\ order[i] = "SUBMITTING" /\ order'[i] = "UNKNOWN"
     /\ pc["main"] = "s_interrupted"
  \/ /\ order[i] = "UNKNOWN"
     /\ \E p \in Procs : /\ recon[p].at = "resolve" /\ recon[p].cur = i
                         /\ order'[i] = recon[p].found.state
                         /\ order'[i] \in SettledOrderState
  \/ /\ order[i] \in SettledOrderState
     /\ \E p \in Procs : recon[p].at = "project" /\ i \in recon[p].todo
     /\ order'[i] \in {"LIVE", "CANCEL_PENDING"} \/ order'[i] = venue[i]
     /\ order'[i] \in SettledOrderState
  \/ order[i] \in {"LIVE", "PARTIALLY_FILLED"} /\ order'[i] = "CANCEL_PENDING"
  \/ /\ order[i] \in {"CANCEL_PENDING", "UNKNOWN"} /\ order'[i] = "CANCELLED"
     /\ \E p \in Procs : canc[p].at = "commit" /\ canc[p].cur = i

\* What a step of the journal may do to the fills of an order: it books no more
\* than the venue has matched.
FillMove(i) ==
  \/ booked'[i] = booked[i]
  \/ pc["worker"] = "finish" /\ i = work.intent /\ booked'[i] <= work.filled
  \/ \E p \in Procs : /\ recon[p].at = "resolve" /\ recon[p].cur = i
                      /\ booked'[i] <= recon[p].found.filled
  \/ \E p \in Procs : i \in DOMAIN recon[p].open /\ booked'[i] <= recon[p].open[i]
  \/ booked'[i] <= matched[i]

\* Every order moves with the evidence it needs.
JournalMove == \A i \in Intents : OrderMove(i) /\ FillMove(i)

\* AppliedFill: what apply_matched_fill adds to the booked lots.
LEMMA AppliedFill ==
  ASSUME StoreInv, NEW i \in Intents, NEW delta \in Int, NEW key,
         apply_matched_fill(i, delta, key)
  PROVE  /\ \A j \in Intents \ {i} : booked'[j] = booked[j]
         /\ booked'[i] = booked[i] \/ booked'[i] = booked[i] + delta
  BY DEF apply_matched_fill, StoreInv, StoreTypeOK

\* UnchangedMoves: a step that leaves orders and trades alone is a move of the journal.
LEMMA UnchangedMoves == UNCHANGED <<order, booked>> => JournalMove
  BY DEF JournalMove, OrderMove, FillMove

\* UnknownOrders: the intent of an order with an unknown outcome is unknown too, so
\* nothing is booked for it.
LEMMA UnknownOrders ==
  ASSUME StoreInv, NEW i \in Intents, order[i] = "UNKNOWN"
  PROVE  intent[i] = "UNKNOWN" /\ booked[i] = 0 /\ remaining[i] = Qty
  BY DEF StoreInv, StoreTypeOK, JournalsAgree, RowsAgree, FillsFollowOutcome,
         IntentState, ReconciledOrderState, TerminalOrderState

\* The resolution of an unknown submission writes what the lookup found.
LEMMA ResolveMoves ==
  ASSUME CoordInv, NEW p \in Procs, ResolveUnknown(p)
  PROVE  JournalMove
<1> DEFINE i == recon[p].cur
           e == recon[p].found
<1>1. /\ recon[p].at = "resolve" /\ i \in Intents /\ e \in VenueEvidence
      /\ resolve_unknown_submission(i, e) \/ UNCHANGED storeVars
  BY DEF ResolveUnknown, InRecon, CoordInv, ReconOK
<1>2. CASE UNCHANGED storeVars
  BY <1>2, UnchangedMoves DEF storeVars
<1>3. CASE resolve_unknown_submission(i, e)
  <2> HIDE DEF i, e
  <2>1. /\ order[i] = "UNKNOWN" /\ order' = [order EXCEPT ![i] = e.state]
        /\ apply_matched_fill(i, e.filled, e.ids)
        /\ e.state # "UNKNOWN" /\ validate_venue_order_evidence(e)
    BY <1>3 DEF resolve_unknown_submission
  <2>2. e.filled \in 0..Qty /\ e.state \in SettledOrderState
    BY <1>1, <2>1
    DEF VenueEvidence, validate_venue_order_evidence, OrderState, SettledOrderState,
        ReconciledOrderState, TerminalOrderState
  <2>3. StoreInv /\ order \in [Intents -> OrderState \cup {"ABSENT"}]
    BY DEF CoordInv, StoreInv, StoreTypeOK
  <2>4. /\ booked[i] = 0
        /\ \A j \in Intents \ {i} : booked'[j] = booked[j]
        /\ booked'[i] = booked[i] \/ booked'[i] = booked[i] + e.filled
    BY <1>1, <2>1, <2>2, <2>3, UnknownOrders, AppliedFill
  <2>5. \A j \in Intents \ {i} : OrderMove(j) /\ FillMove(j)
    BY <1>1, <2>1, <2>3, <2>4 DEF OrderMove, FillMove
  <2>6. OrderMove(i)
    BY <1>1, <2>1, <2>2, <2>3 DEF OrderMove, i, e
  <2>7. FillMove(i)
    <3>1. booked'[i] = booked[i] \/ booked'[i] <= e.filled
      BY <2>2, <2>4
    <3>2. QED
      BY <1>1, <3>1 DEF FillMove, i, e
  <2>8. QED
    BY <2>5, <2>6, <2>7 DEF JournalMove
<1>4. QED
  BY <1>1, <1>2, <1>3

\* A projection writes what the listing of the same reconciliation, or the lookup of
\* an order that it does not list, shows.
LEMMA ProjectMoves ==
  ASSUME CoordInv, NEW p \in Procs, ProjectOrder(p)
  PROVE  JournalMove
<1> DEFINE open == recon[p].open
<1>0. /\ recon[p] \in ReconFrame /\ open \in OpenSnapshot /\ VenueOK
      /\ recon[p].at = "project"
  BY DEF CoordInv, ReconOK, ReconFrame, ProjectOrder, InRecon
<1>1. PICK i \in recon[p].todo :
        LET e == IF i \in DOMAIN open THEN Evidence("LIVE", open[i]) ELSE find_order(i)
        IN UNCHANGED storeVars \/ (e # NoEvidence /\ reconcile_order_projection(i, e))
  BY DEF ProjectOrder
<1>2. i \in Intents /\ order[i] \in SettledOrderState
  BY <1>0 DEF CoordInv, ReconOK, ReconFrame
<1> DEFINE e == IF i \in DOMAIN open THEN Evidence("LIVE", open[i]) ELSE find_order(i)
<1>3. CASE UNCHANGED storeVars
  BY <1>3, UnchangedMoves DEF storeVars
<1>4. CASE e # NoEvidence /\ reconcile_order_projection(i, e)
  <2>1. /\ e.filled \in 0..Qty
        /\ e.state = "LIVE" \/ (e.state = venue[i] /\ venue[i] \in Accepted)
        /\ i \in DOMAIN open => e.filled = open[i]
        /\ i \notin DOMAIN open => e.filled = matched[i]
    <3>1. CASE i \in DOMAIN open
      <4>1. open[i] \in 0..Qty
        BY <1>0, <3>1, OpenSnapshotType
      <4>2. QED
        BY <3>1, <4>1 DEF Evidence
    <3>2. CASE i \notin DOMAIN open
      <4>1. venue[i] \in Accepted /\ e = Evidence(venue[i], matched[i])
        BY <1>4, <3>2 DEF find_order, Accepted
      <4>2. matched[i] \in 0..Qty
        BY <1>0, <1>2 DEF VenueOK
      <4>3. QED
        BY <3>2, <4>1, <4>2 DEF Evidence
    <3>3. QED
      BY <3>1, <3>2
  <2> HIDE DEF e
  <2>2. /\ apply_matched_fill(i, e.filled - LocalFilled(i), e.ids)
        /\ order' = [order EXCEPT ![i] =
             IF @ = "CANCEL_PENDING" /\ e.state \in {"LIVE", "PARTIALLY_FILLED"}
               THEN "CANCEL_PENDING" ELSE e.state]
    BY <1>4 DEF reconcile_order_projection
  <2>3. /\ StoreInv /\ order \in [Intents -> OrderState \cup {"ABSENT"}]
        /\ booked[i] \in 0..Qty /\ remaining[i] \in 0..Qty
        /\ booked[i] + remaining[i] <= Qty
    BY <1>2 DEF CoordInv, StoreInv, StoreTypeOK, BookedWithinOrder
  <2>4. /\ \A j \in Intents \ {i} : booked'[j] = booked[j]
        /\ booked'[i] = booked[i] \/ booked'[i] = booked[i] + (e.filled - LocalFilled(i))
    <3>1. e.filled - LocalFilled(i) \in Int
      BY <2>1, <2>3 DEF LocalFilled
    <3>2. QED
      BY <1>2, <2>2, <2>3, <3>1, AppliedFill
  <2>5. booked'[i] = booked[i] \/ booked'[i] <= e.filled
    BY <2>1, <2>3, <2>4 DEF LocalFilled
  <2>6. \A j \in Intents \ {i} : OrderMove(j) /\ FillMove(j)
    BY <1>2, <2>2, <2>3, <2>4 DEF OrderMove, FillMove
  <2>7. FillMove(i)
    BY <2>1, <2>5 DEF FillMove
  <2>8. OrderMove(i)
    <3>1. /\ order'[i] \in {"LIVE", "CANCEL_PENDING"} \/ order'[i] = venue[i]
          /\ order'[i] \in SettledOrderState
      BY <1>2, <2>1, <2>2, <2>3
      DEF Accepted, SettledOrderState, ReconciledOrderState, TerminalOrderState
    <3>2. QED
      BY <1>0, <1>2, <3>1 DEF OrderMove
  <2>9. QED
    BY <2>6, <2>7, <2>8 DEF JournalMove
<1>5. QED
  BY <1>1, <1>3, <1>4

\* A cancellation closes an order only after the venue answered that it is closed.
LEMMA CancelMoves ==
  ASSUME CoordInv, NEW p \in Procs, CancelStep(p)
  PROVE  JournalMove
<1> DEFINE i == canc[p].cur
<1>0. order \in [Intents -> OrderState \cup {"ABSENT"}]
  BY DEF CoordInv, StoreInv, StoreTypeOK
<1>1. CASE MarkTarget(p)
  <2>1. /\ i \in Intents
        /\ \/ cancel_prepared_order(i) \/ transition_order(i, "CANCEL_PENDING")
           \/ UNCHANGED storeVars
    BY <1>1 DEF MarkTarget, CancelError, InCancel, CoordInv, CancelOK
  <2> HIDE DEF i
  <2>2. CASE UNCHANGED storeVars
    BY <2>2, UnchangedMoves DEF storeVars
  <2>3. CASE cancel_prepared_order(i)
    BY <1>0, <2>1, <2>3
    DEF cancel_prepared_order, JournalMove, OrderMove, FillMove, fillVars
  <2>4. CASE transition_order(i, "CANCEL_PENDING")
    BY <1>0, <2>1, <2>4
    DEF transition_order, valid_order_transition, JournalMove, OrderMove, FillMove,
        fillVars
  <2>5. QED
    BY <2>1, <2>2, <2>3, <2>4
<1>2. CASE CommitCancelled(p)
  <2>1. /\ i \in Intents /\ canc[p].at = "commit"
        /\ transition_order(i, "CANCELLED") \/ UNCHANGED storeVars
    BY <1>2 DEF CommitCancelled, CancelError, InCancel, CoordInv, CancelOK
  <2>2. CASE UNCHANGED storeVars
    BY <2>2, UnchangedMoves DEF storeVars
  <2>3. CASE transition_order(i, "CANCELLED")
    <3>1. /\ \/ order'[i] = order[i]
             \/ order[i] \in {"CANCEL_PENDING", "UNKNOWN"} /\ order'[i] = "CANCELLED"
          /\ \A j \in Intents \ {i} : order'[j] = order[j]
          /\ UNCHANGED booked
      BY <1>0, <2>1, <2>3 DEF transition_order, valid_order_transition, fillVars
    <3>2. QED
      BY <2>1, <3>1 DEF JournalMove, OrderMove, FillMove
  <2>4. QED
    BY <2>1, <2>2, <2>3
<1>3. CASE ~MarkTarget(p) /\ ~CommitCancelled(p)
  <2>1. UNCHANGED storeVars
    BY <1>3 DEF CancelStep, CreateCancellation, ReadTarget, CancelAtVenue,
                finish_cancellation
  <2>2. QED
    BY <2>1, UnchangedMoves DEF storeVars
<1>4. QED
  BY <1>1, <1>2, <1>3

\* finish_submission writes the outcome that the venue replied with.
LEMMA FinishMoves ==
  ASSUME CoordInv, FinishSubmission
  PROVE  JournalMove
<1> DEFINE i == work.intent
<1>0. /\ StoreInv /\ order \in [Intents -> OrderState \cup {"ABSENT"}]
      /\ pc["worker"] = "finish" /\ i \in Intents /\ work.filled \in 0..Qty
      /\ pc'["worker"] # "send"
  <2>1. pc["worker"] = "finish"
    BY DEF FinishSubmission, WorkerAt, At
  <2>2. \E l \in {"release", "halt"} : pc' = [pc EXCEPT !["worker"] = l]
    BY DEF FinishSubmission, WorkerGoto, AfterVenueError, Goto
  <2>3. QED
    BY <2>1, <2>2
    DEF CoordInv, LocalsOK, StoreInv, StoreTypeOK, LabelsOK, Procs
<1>1. CASE UNCHANGED storeVars
  BY <1>1, UnchangedMoves DEF storeVars
<1>2. ASSUME NEW next, NEW state, NEW filled \in {0, work.filled},
             finish_submission(i, next, state, filled, filled),
             \/ state = "UNKNOWN"
             \/ work.reply \in Accepted /\ state = work.reply
             \/ work.reply = "rejected" /\ state = "REJECTED"
      PROVE  JournalMove
  <2>1. /\ order[i] = "SUBMITTING" /\ intent[i] = "SUBMITTING"
        /\ order' = [order EXCEPT ![i] = state]
        /\ apply_matched_fill(i, filled, filled) \/ UNCHANGED booked
    BY <1>2 DEF finish_submission
  <2>2. booked[i] = 0
    BY <1>0, <2>1 DEF StoreInv, FillsFollowOutcome
  <2>3. /\ \A j \in Intents \ {i} : booked'[j] = booked[j]
        /\ booked'[i] = booked[i] \/ booked'[i] <= work.filled
    <3>1. filled \in Int /\ filled <= work.filled
      BY <1>0, <1>2
    <3>2. CASE apply_matched_fill(i, filled, filled)
      <4>1. /\ \A j \in Intents \ {i} : booked'[j] = booked[j]
            /\ booked'[i] = booked[i] \/ booked'[i] = booked[i] + filled
        BY <1>0, <3>1, <3>2, AppliedFill
      <4>2. QED
        BY <2>2, <3>1, <4>1
    <3>3. QED
      BY <2>1, <3>2
  <2>4. \A j \in Intents \ {i} : OrderMove(j) /\ FillMove(j)
    BY <1>0, <2>1, <2>3 DEF OrderMove, FillMove
  <2>5. FillMove(i)
    BY <1>0, <2>3 DEF FillMove
  <2>6. OrderMove(i)
    <3>1. order'[i] = state
      BY <1>0, <2>1
    <3>2. QED
      BY <1>0, <1>2, <2>1, <3>1 DEF OrderMove
  <2>7. QED
    BY <2>4, <2>5, <2>6 DEF JournalMove
<1>3. \/ UNCHANGED storeVars
      \/ /\ work.reply \in Accepted
         /\ finish_submission(i, "SUBMITTED", work.reply, work.filled, work.filled)
      \/ work.reply = "rejected" /\ finish_submission(i, "SUBMITTED", "REJECTED", 0, 0)
      \/ finish_submission(i, "UNKNOWN", "UNKNOWN", 0, 0)
  BY DEF FinishSubmission
<1>4. QED
  BY <1>1, <1>2, <1>3

\* JournalMoves: every step changes orders and books lots only so.
LEMMA JournalMoves ==
  ASSUME CoordInv, [Next]_vars
  PROVE  JournalMove
<1>0. order \in [Intents -> OrderState \cup {"ABSENT"}]
  BY DEF CoordInv, StoreInv, StoreTypeOK
<1>1. ASSUME NEW p \in Procs, ReconcileStep(p) PROVE JournalMove
  <2>1. CASE ProjectOrder(p) \/ ResolveUnknown(p)
    BY <2>1, ProjectMoves, ResolveMoves
  <2>2. CASE ~ProjectOrder(p) /\ ~ResolveUnknown(p)
    <3>1. UNCHANGED <<order, booked>>
      BY <1>1, <2>2
      DEF ReconcileStep, FetchOrders, ReadLocalOrders, ReadUnknowns, LookupUnknown,
          FinishReconcile, ReconcileHalt, FailReconcile, VenueFailureHalt,
          ReconcileError, set_service_state, storeVars, journalVars, fillVars
    <3>2. QED
      BY <3>1, UnchangedMoves
  <2>3. QED
    BY <2>1, <2>2
<1>2. ASSUME NEW p \in Procs, CancelStep(p) PROVE JournalMove
  BY <1>2, CancelMoves
<1>3. CASE WorkerStep
  <2>1. CASE FinishSubmission
    BY <2>1, FinishMoves
  <2>2. CASE PrepareOrder \/ BeginSubmission
    <3>1. work.intent \in Intents
      BY <2>2 DEF PrepareOrder, BeginSubmission, WorkerAt, At, CoordInv, LocalsOK
    <3>2. \/ UNCHANGED <<order, booked>>
          \/ create_prepared_order(work.intent) \/ begin_submission(work.intent)
      BY <2>2
      DEF PrepareOrder, BeginSubmission, reject_preparation, storeVars, fillVars
    <3>3. CASE create_prepared_order(work.intent)
      <4>1. order[work.intent] = "ABSENT"
        BY <3>1, <3>3
        DEF create_prepared_order, CoordInv, StoreInv, JournalsAgree, RowsAgree
      <4>2. QED
        BY <1>0, <3>1, <3>3, <4>1
        DEF create_prepared_order, JournalMove, OrderMove, FillMove, fillVars
    <3>4. CASE begin_submission(work.intent)
      BY <1>0, <3>1, <3>4
      DEF begin_submission, JournalMove, OrderMove, FillMove, fillVars
    <3>5. QED
      BY <3>2, <3>3, <3>4, UnchangedMoves
  <2>3. CASE ~FinishSubmission /\ ~PrepareOrder /\ ~BeginSubmission
    <3>1. UNCHANGED <<order, booked>>
      BY <1>3, <2>3
      DEF WorkerStep, ReceiveIntent, LockSafety, LockLifecycle, PreIntentReconcile,
          CheckHealth, reject_received, BeginValidation, ValidateMarket,
          validate_freshness_and_increments, EvaluateRisk, BeginPreparation,
          SendToVenue, WorkerHalt, ReleaseWorker, halt_inner, set_service_state,
          transition_intent, evaluate_and_reserve_risk, approve_risk, storeVars,
          journalVars, fillVars
    <3>2. QED
      BY <3>1, UnchangedMoves
  <2>4. QED
    BY <2>1, <2>2, <2>3
<1>4. CASE ControlJob
  <2>1. UNCHANGED <<order, booked>>
    BY <1>4
    DEF ControlJob, StartReconcileJob, HeartbeatHalt, StartHaltJob, StartResume,
        CheckResume, CommitResume, Enqueue, EndJob, AbandonResume, set_service_state,
        set_service_state_if_unchanged, storeVars, journalVars, fillVars
  <2>2. QED
    BY <2>1, UnchangedMoves
<1>5. CASE StartupStep \/ ShutdownStep
  <2>1. CASE RecoverInterrupted
    <3>1. /\ pc["main"] = "s_interrupted" /\ UNCHANGED booked
          /\ \A i \in Intents : order'[i] = IF i \in Interrupted THEN "UNKNOWN" ELSE order[i]
      BY <2>1 DEF RecoverInterrupted, MainAt, At, recover_interrupted_submissions
    <3>2. \A i \in Interrupted : i \in Intents /\ order[i] = "SUBMITTING"
      BY DEF Interrupted, CoordInv, StoreInv, JournalsAgree, RowsAgree
    <3>3. QED
      BY <3>1, <3>2 DEF JournalMove, OrderMove, FillMove
  <2>2. CASE ~RecoverInterrupted
    <3>1. UNCHANGED <<order, booked>>
      BY <1>5, <2>2
      DEF StartupStep, ReadPriorState, MarkStartup, fail_interrupted_reconciliations,
          HaltInterrupted, RecoverWork, RecoverCancellations, StartupReconcile,
          StartupHeartbeat, ReadStartupState, BecomeReady, Enqueue, EndStartup,
          ShutdownStep, BeginShutdown, ShutdownCancel, ShutdownReconcile, EndShutdown,
          halt_inner, set_service_state, recover_pre_submission_work, storeVars,
          journalVars, fillVars
    <3>2. QED
      BY <3>1, UnchangedMoves
  <2>3. QED
    BY <2>1, <2>2
<1>6. CASE \/ StartCancellation \/ EndCancellation \/ CancelRequest \/ Restart
           \/ UNCHANGED vars \/ halt_idempotent
           \/ \E i \in Intents : VenueStep(i) \/ SubmitIntent(i)
  <2>1. UNCHANGED <<order, booked>>
    BY <1>6
    DEF StartCancellation, EndCancellation, CancelRequest, Restart, vars, VenueStep,
        halt_idempotent, SubmitIntent, admit_intent, set_service_state, storeVars,
        journalVars, fillVars
  <2>2. QED
    BY <2>1, UnchangedMoves
<1>7. QED
  BY <1>1, <1>2, <1>3, <1>4, <1>5, <1>6 DEF Next

-----------------------------------------------------------------------------
(* The evidence a task holds may be old, but never says more than what the *)
(* venue has done.                                                         *)

\* What a reconciliation has read of the venue stays a lower bound of what the
\* venue has matched.
SnapshotsOld ==
  \A p \in Procs : \A i \in DOMAIN recon[p].open : recon[p].open[i] <= matched[i]

\* What a lookup found is still true, or the order has advanced since.
LookupsOld ==
  \A p \in Procs : recon[p].at = "resolve" =>
    /\ recon[p].found.filled <= matched[recon[p].cur]
    /\ recon[p].found.state \in {"FILLED", "CANCELLED"} => ClosedAtVenue(recon[p].cur)
    /\ recon[p].found.state \in Accepted

\* What the venue replied to a submission is still true, or the order has advanced
\* since.
ReplyOld ==
  pc["worker"] = "finish" =>
    /\ work.filled <= matched[work.intent]
    /\ work.reply \in {"FILLED", "CANCELLED"} => ClosedAtVenue(work.intent)
    /\ work.reply = "rejected" => venue[work.intent] = "none"

\* The order whose cancellation is to be recorded is closed at the venue.
CancelsDone == \A p \in Procs : canc[p].at = "commit" => ClosedAtVenue(canc[p].cur)

\* The worker sends what begin_submission has recorded.
SendsBegun == pc["worker"] = "send" => order[work.intent] = "SUBMITTING"

\* VenueInv: the two properties with the age of every answer that a task still
\* holds. Neither property is inductive alone, since the answer is written steps
\* after it was given.
VenueInv ==
  /\ SnapshotsOld /\ LookupsOld /\ ReplyOld /\ CancelsDone /\ SendsBegun
  /\ NoPhantomFill /\ NoForgottenOrder

\* FrameEvidence: a reconciliation takes its evidence from the venue as it is.
LEMMA FrameEvidence ==
  ASSUME CoordInv, NEW p \in Procs, ReconcileStep(p)
  PROVE  \E f \in ReconFrame :
           /\ recon' = [recon EXCEPT ![p] = f]
           /\ f.open \in {recon[p].open, OpenAtVenue, IdleRecon.open}
           /\ f.at = "resolve" =>
                /\ f.cur \in Intents /\ f.found = find_order(f.cur)
                /\ f.found # NoEvidence
                /\ UNCHANGED <<venue, matched>>
<1> DEFINE G(f) == /\ recon' = [recon EXCEPT ![p] = f]
                   /\ f.open \in {recon[p].open, OpenAtVenue, IdleRecon.open}
                   /\ f.at = "resolve" =>
                        /\ f.cur \in Intents /\ f.found = find_order(f.cur)
                        /\ f.found # NoEvidence
                        /\ UNCHANGED <<venue, matched>>
<1>0. recon[p] \in ReconFrame /\ VenueOK
  BY DEF CoordInv, ReconOK
<1>1. CASE FetchOrders(p)
  <2>1. PICK f : /\ recon' = [recon EXCEPT ![p] = f]
                 /\ \/ f = [recon[p] EXCEPT !.at = "fail"]
                    \/ \E bad \in BOOLEAN :
                         f = [recon[p] EXCEPT !.at = "read", !.open = OpenAtVenue,
                                              !.bad = bad]
    BY <1>1 DEF FetchOrders, SetRecon, VenueFindings
  <2>2. f \in ReconFrame /\ f.at # "resolve" /\ f.open \in {recon[p].open, OpenAtVenue}
    BY <1>0, <2>1, OpenAtVenueType DEF ReconFrame, ReconLabel
  <2>3. QED
    BY <2>1, <2>2
<1>2. CASE ReadLocalOrders(p)
  <2> DEFINE bad == recon[p].bad
                    \/ {i \in DOMAIN recon[p].open : ~venueOrderId[i]} # {}
             f == [recon[p] EXCEPT !.at = "project", !.trades = TradesAtVenue,
                                   !.todo = reconciliation_orders, !.bad = bad]
  <2>1. recon' = [recon EXCEPT ![p] = f]
    BY <1>2, <1>0 DEF ReadLocalOrders, SetRecon, ReconFrame
  <2>2. TradesAtVenue \in [Intents -> 0..Qty] /\ bad \in BOOLEAN
    BY <1>0 DEF TradesAtVenue, VenueOK, ReconFrame
  <2>3. reconciliation_orders \in SUBSET Intents
    BY DEF reconciliation_orders
  <2> HIDE DEF bad
  <2>4. f \in ReconFrame /\ f.at = "project" /\ f.open = recon[p].open
    BY <1>0, <2>2, <2>3 DEF ReconFrame, ReconLabel
  <2>5. QED
    BY <2>1, <2>4
<1>3. CASE ProjectOrder(p)
  <2>1. PICK i \in recon[p].todo :
          /\ recon[p].at = "project"
          /\ LET rest == [recon[p] EXCEPT !.todo = @ \ {i}] IN
             \/ recon' = [recon EXCEPT ![p] = rest]
             \/ recon' = [recon EXCEPT ![p] = [rest EXCEPT !.bad = TRUE]]
             \/ recon' = [recon EXCEPT ![p] = [rest EXCEPT !.at = "error", !.todo = {}]]
    BY <1>3 DEF ProjectOrder, SetRecon, InRecon
  <2> DEFINE rest == [recon[p] EXCEPT !.todo = @ \ {i}]
  <2>2. ASSUME NEW f \in {rest, [rest EXCEPT !.bad = TRUE],
                          [rest EXCEPT !.at = "error", !.todo = {}]}
        PROVE  f \in ReconFrame /\ f.open = recon[p].open /\ f.at # "resolve"
    BY <1>0, <2>1 DEF ReconFrame, ReconLabel
  <2> HIDE DEF rest
  <2>3. QED
    BY <2>1, <2>2 DEF rest
<1>7. CASE ReadUnknowns(p)
  <2> DEFINE f == [recon[p] EXCEPT !.at = "lookup",
                                   !.todo = {i \in Intents : order[i] = "UNKNOWN"}]
  <2>1. recon' = [recon EXCEPT ![p] = f]
    BY <1>7 DEF ReadUnknowns, SetRecon
  <2>2. f \in ReconFrame /\ f.open = recon[p].open /\ f.at # "resolve"
    BY <1>0 DEF ReconFrame, ReconLabel
  <2>3. QED
    BY <2>1, <2>2
<1>8. CASE ResolveUnknown(p)
  <2> DEFINE idle == [recon[p] EXCEPT !.cur = NoIntent, !.found = NoEvidence]
  <2>1. \/ recon' = [recon EXCEPT ![p] = [idle EXCEPT !.at = "lookup"]]
        \/ recon' = [recon EXCEPT ![p] = [idle EXCEPT !.at = "error", !.todo = {}]]
    BY <1>8 DEF ResolveUnknown, SetRecon
  <2>2. ASSUME NEW f \in {[idle EXCEPT !.at = "lookup"],
                          [idle EXCEPT !.at = "error", !.todo = {}]}
        PROVE  f \in ReconFrame /\ f.open = recon[p].open /\ f.at # "resolve"
    BY <1>0 DEF ReconFrame, ReconLabel
  <2> HIDE DEF idle
  <2>3. QED
    BY <2>1, <2>2
<1>4. CASE LookupUnknown(p)
  <2>1. PICK i \in recon[p].todo :
          LET rest == [recon[p] EXCEPT !.todo = @ \ {i}] IN
          /\ recon[p].at = "lookup"
          /\ \/ /\ find_order(i) # NoEvidence
                /\ recon' = [recon EXCEPT ![p] =
                     [rest EXCEPT !.at = "resolve", !.cur = i, !.found = find_order(i)]]
             \/ recon' = [recon EXCEPT ![p] = [rest EXCEPT !.bad = TRUE]]
             \/ recon' = [recon EXCEPT ![p] = [rest EXCEPT !.at = "error", !.todo = {}]]
    BY <1>4 DEF LookupUnknown, SetRecon, InRecon
  <2> DEFINE rest == [recon[p] EXCEPT !.todo = @ \ {i}]
  <2>2. i \in Intents /\ UNCHANGED <<venue, matched>>
    BY <1>0, <1>4, <2>1 DEF ReconFrame, LookupUnknown, venueVars
  <2>3. CASE find_order(i) # NoEvidence /\ recon' = [recon EXCEPT ![p] =
               [rest EXCEPT !.at = "resolve", !.cur = i, !.found = find_order(i)]]
    <3> DEFINE e == find_order(i)
               f == [rest EXCEPT !.at = "resolve", !.cur = i, !.found = e]
    <3>1. e \in VenueEvidence
      BY <1>0, <2>2, <2>3, FindOrderType
    <3> HIDE DEF e
    <3>2. f \in ReconFrame /\ f.cur = i /\ f.found = e /\ f.open = recon[p].open
      BY <1>0, <2>2, <3>1 DEF ReconFrame, ReconLabel
    <3>3. recon' = [recon EXCEPT ![p] = f] /\ e # NoEvidence
      BY <2>3 DEF e
    <3> HIDE DEF f
    <3>4. G(f)
      BY <2>2, <3>2, <3>3 DEF e
    <3>5. QED
      BY <3>2, <3>4
  <2>4. CASE recon' = [recon EXCEPT ![p] = [rest EXCEPT !.bad = TRUE]]
    <3> DEFINE f == [rest EXCEPT !.bad = TRUE]
    <3>1. f \in ReconFrame /\ f.at # "resolve" /\ f.open = recon[p].open
      BY <1>0, <2>1 DEF ReconFrame, ReconLabel
    <3>2. QED
      BY <2>4, <3>1
  <2>5. CASE recon' = [recon EXCEPT ![p] = [rest EXCEPT !.at = "error", !.todo = {}]]
    <3> DEFINE f == [rest EXCEPT !.at = "error", !.todo = {}]
    <3>1. f \in ReconFrame /\ f.at # "resolve" /\ f.open = recon[p].open
      BY <1>0, <2>1 DEF ReconFrame, ReconLabel
    <3>2. QED
      BY <2>5, <3>1
  <2>6. QED
    BY <2>1, <2>3, <2>4, <2>5
<1>5. CASE \/ FinishReconcile(p) \/ ReconcileHalt(p) \/ FailReconcile(p)
           \/ VenueFailureHalt(p) \/ ReconcileError(p)
  <2>1. \/ recon' = [recon EXCEPT ![p] = IdleRecon]
        \/ \E l \in {"halt", "failHalt", "errorHalt"} :
             recon' = [recon EXCEPT ![p] = [IdleRecon EXCEPT !.at = l]]
    BY <1>5
    DEF FinishReconcile, ReconcileHalt, FailReconcile, VenueFailureHalt,
        ReconcileError, ReconcileReturn, SetRecon
  <2>2. {"halt", "failHalt", "errorHalt"} \subseteq ReconLabel
    BY DEF ReconLabel
  <2>3. \A l \in ReconLabel : [IdleRecon EXCEPT !.at = l].open = IdleRecon.open
    BY DEF IdleRecon
  <2>4. QED
    BY <2>1, <2>2, <2>3, IdleReconFrame
<1>6. QED
  BY <1>1, <1>2, <1>3, <1>4, <1>5, <1>7, <1>8 DEF ReconcileStep

\* EvidenceStep: snapshots and lookups stay below what the venue has done.
LEMMA EvidenceStep ==
  ASSUME CoordInv, SnapshotsOld, LookupsOld, [Next]_vars
  PROVE  SnapshotsOld' /\ LookupsOld'
<1>0. /\ recon \in [Procs -> ReconFrame]
      /\ \A i \in Intents : VenueGrows(i)
      /\ \A p \in Procs : recon[p].at = "resolve" =>
           recon[p].cur \in Intents /\ recon[p].found \in VenueEvidence
      /\ \A p \in Procs : \A i \in DOMAIN recon[p].open :
           i \in Intents /\ recon[p].open[i] \in 0..Qty
      /\ matched \in [Intents -> 0..Qty] /\ matched' \in [Intents -> Nat]
  <2>1. recon \in [Procs -> ReconFrame]
    BY DEF CoordInv, ReconOK
  <2>2. \A p \in Procs : recon[p].open \in OpenSnapshot
    BY <2>1 DEF ReconFrame
  <2>3. matched' \in [Intents -> Nat]
    BY VenueMoves, SendMoves
  <2>4. matched \in [Intents -> 0..Qty]
    BY DEF CoordInv, VenueOK
  <2>5. QED
    BY <2>1, <2>2, <2>3, <2>4, VenueOnlyGrows, OpenSnapshotType DEF CoordInv, ReconOK
<1>1. \A p \in Procs : \A i \in DOMAIN recon[p].open : recon[p].open[i] <= matched'[i]
  BY <1>0 DEF SnapshotsOld, VenueGrows
<1>2. \A p \in Procs : recon[p].at = "resolve" =>
        /\ recon[p].found.filled <= matched'[recon[p].cur]
        /\ recon[p].found.state \in {"FILLED", "CANCELLED"} => ClosedAtVenue(recon[p].cur)'
        /\ recon[p].found.state \in Accepted
  <2> SUFFICES ASSUME NEW p \in Procs, recon[p].at = "resolve"
               PROVE  /\ recon[p].found.filled <= matched'[recon[p].cur]
                      /\ recon[p].found.state \in {"FILLED", "CANCELLED"} =>
                           ClosedAtVenue(recon[p].cur)'
                      /\ recon[p].found.state \in Accepted
    OBVIOUS
  <2>1. /\ recon[p].cur \in Intents /\ recon[p].found.filled \in 0..Qty
        /\ VenueGrows(recon[p].cur)
    BY <1>0 DEF VenueEvidence
  <2>2. ASSUME NEW c \in Intents, c = recon[p].cur, ClosedAtVenue(c)
        PROVE  ClosedAtVenue(recon[p].cur)'
    BY <2>1, <2>2 DEF VenueGrows, ClosedAtVenue
  <2>3. QED
    BY <1>0, <2>1 DEF LookupsOld, VenueGrows, ClosedAtVenue
<1>3. CASE UNCHANGED recon
  BY <1>1, <1>2, <1>3 DEF SnapshotsOld, LookupsOld, ClosedAtVenue
<1>4. ASSUME NEW p \in Procs, NEW f \in ReconFrame,
             recon' = [recon EXCEPT ![p] = f],
             \A i \in DOMAIN f.open : f.open[i] <= matched'[i],
             f.at = "resolve" =>
               /\ f.found.filled <= matched'[f.cur]
               /\ f.found.state \in {"FILLED", "CANCELLED"} =>
                    venue'[f.cur] \in {"FILLED", "CANCELLED"}
               /\ f.found.state \in Accepted
      PROVE  SnapshotsOld' /\ LookupsOld'
  <2>1. \A q \in Procs : recon'[q] = IF q = p THEN f ELSE recon[q]
    BY <1>0, <1>4
  <2>2. QED
    BY <1>1, <1>2, <1>4, <2>1 DEF SnapshotsOld, LookupsOld, ClosedAtVenue
<1>5. /\ DOMAIN IdleRecon.open = {}
      /\ [IdleRecon EXCEPT !.at = "orders"] \in ReconFrame
      /\ [IdleRecon EXCEPT !.at = "orders"].at = "orders"
      /\ DOMAIN [IdleRecon EXCEPT !.at = "orders"].open = {}
  <2>1. "orders" \in ReconLabel
    BY DEF ReconLabel
  <2>2. QED
    BY <2>1, IdleReconFrame DEF IdleRecon
<1>6. ASSUME NEW p \in Procs, CallReconcile(p) PROVE SnapshotsOld' /\ LookupsOld'
  BY <1>4, <1>5, <1>6 DEF CallReconcile
<1>7. ASSUME NEW p \in Procs, recon' = [recon EXCEPT ![p] = IdleRecon]
      PROVE  SnapshotsOld' /\ LookupsOld'
  BY <1>4, <1>5, <1>7, IdleReconFrame
<1>8. ASSUME NEW p \in Procs, ReconcileStep(p) PROVE SnapshotsOld' /\ LookupsOld'
  <2>1. PICK f \in ReconFrame :
           /\ recon' = [recon EXCEPT ![p] = f]
           /\ f.open \in {recon[p].open, OpenAtVenue, IdleRecon.open}
           /\ f.at = "resolve" =>
                /\ f.cur \in Intents /\ f.found = find_order(f.cur)
                /\ f.found # NoEvidence
                /\ UNCHANGED <<venue, matched>>
    BY <1>8, FrameEvidence
  <2>2. \A i \in DOMAIN OpenAtVenue : i \in Intents /\ OpenAtVenue[i] = matched[i]
    BY DEF OpenAtVenue
  <2>3. \A i \in DOMAIN f.open : f.open[i] <= matched'[i]
    BY <1>0, <1>1, <1>5, <2>1, <2>2 DEF VenueGrows
  <2>4. ASSUME f.at = "resolve"
        PROVE  /\ f.found.filled <= matched'[f.cur]
               /\ f.found.state \in {"FILLED", "CANCELLED"} =>
                    venue'[f.cur] \in {"FILLED", "CANCELLED"}
               /\ f.found.state \in Accepted
    <3>1. f.cur \in Intents /\ venue' = venue /\ matched' = matched
      BY <2>1, <2>4
    <3>2. venue[f.cur] \in Accepted /\ f.found = Evidence(venue[f.cur], matched[f.cur])
      BY <2>1, <2>4 DEF find_order, Accepted
    <3>3. f.found.state = venue[f.cur] /\ f.found.filled = matched[f.cur]
      BY <3>2 DEF Evidence
    <3>4. QED
      BY <1>0, <3>1, <3>2, <3>3
  <2>5. QED
    BY <1>4, <2>1, <2>3, <2>4
<1>9. CASE Restart
  <2>1. \A p \in Procs : recon'[p] = IdleRecon
    BY <1>9 DEF Restart, FreshProcess
  <2>2. QED
    BY <1>5, <2>1, IdleReconFrame DEF SnapshotsOld, LookupsOld
<1>10. QED
  BY <1>3, <1>6, <1>7, <1>8, <1>9, ReconCallers

\* ReplyStep: so does the reply the worker holds.
LEMMA ReplyStep ==
  ASSUME CoordInv, ReplyOld, [Next]_vars
  PROVE  ReplyOld'
<1>0. /\ LabelsOK /\ LocalsOK /\ VenueOK
  BY DEF CoordInv
<1>1. CASE SendToVenue
  <2>1. work'.intent = work.intent
    BY <1>1, SendMoves
  <2>2. QED
    BY <1>1, <2>1, SendMoves DEF ReplyOld, ClosedAtVenue, Accepted
<1>2. CASE WorkerStep /\ ~SendToVenue
  <2>1. pc'["worker"] # "finish"
    <3>1. \E l \in WorkerLabel \ {"finish"} : pc' = [pc EXCEPT !["worker"] = l]
      BY <1>2
      DEF WorkerStep, ReceiveIntent, LockSafety, LockLifecycle, PreIntentReconcile,
          CheckHealth, reject_received, BeginValidation, ValidateMarket,
          validate_freshness_and_increments, EvaluateRisk, BeginPreparation,
          PrepareOrder, BeginSubmission, FinishSubmission, WorkerHalt,
          ReleaseWorker, WorkerGoto, AfterVenueError, Goto, WorkerLabel
    <3>2. QED
      BY <1>0, <3>1 DEF LabelsOK, Procs
  <2>2. QED
    BY <2>1 DEF ReplyOld
<1>3. CASE Restart
  BY <1>3 DEF Restart, FreshProcess, ReplyOld, Procs
<1>4. CASE ~WorkerStep /\ ~Restart
  <2>1. pc'["worker"] = pc["worker"] /\ work' = work
    BY <1>0, <1>4, OnlyWorkerWorks
  <2> SUFFICES ASSUME pc["worker"] = "finish"
               PROVE  /\ work.filled <= matched'[work.intent]
                      /\ work.reply \in {"FILLED", "CANCELLED"} =>
                           venue'[work.intent] \in {"FILLED", "CANCELLED"}
                      /\ work.reply = "rejected" => venue'[work.intent] = "none"
    BY <2>1 DEF ReplyOld, ClosedAtVenue
  <2>2. /\ work.intent \in Intents /\ work.filled \in 0..Qty
        /\ VenueGrows(work.intent) /\ ~SendToVenue
    BY <1>0, <1>4, VenueOnlyGrows DEF LocalsOK, WorkerStep
  <2>3. matched[work.intent] \in Nat /\ matched'[work.intent] \in Nat
    BY <1>0, <2>2, VenueMoves DEF VenueOK
  <2>4. work.filled <= matched'[work.intent]
    <3>1. work.filled <= matched[work.intent] /\ matched[work.intent] <= matched'[work.intent]
      BY <2>2 DEF ReplyOld, VenueGrows
    <3>2. QED
      BY <2>2, <2>3, <3>1
  <2>5. work.reply \in {"FILLED", "CANCELLED"} =>
          venue'[work.intent] \in {"FILLED", "CANCELLED"}
    <3>1. (venue[work.intent] \in {"FILLED", "CANCELLED"}) =>
            (venue'[work.intent] \in {"FILLED", "CANCELLED"})
      <4>1. ClosedAtVenue(work.intent) => ClosedAtVenue(work.intent)'
        BY <2>2 DEF VenueGrows
      <4>2. QED
        BY <2>1, <4>1 DEF ClosedAtVenue
    <3>2. QED
      BY <3>1 DEF ReplyOld, ClosedAtVenue
  <2>6. work.reply = "rejected" => venue'[work.intent] = "none"
    BY <2>2 DEF ReplyOld, VenueGrows
  <2>7. QED
    BY <2>4, <2>5, <2>6
<1>5. QED
  BY <1>1, <1>2, <1>3, <1>4

\* CancelsDoneStep: a cancellation is committed only after the venue acknowledged it.
LEMMA CancelsDoneStep ==
  ASSUME CoordInv, CancelsDone, [Next]_vars
  PROVE  CancelsDone'
<1>0. /\ canc \in [Procs -> CancelFrame] /\ CancelOK /\ LocalsOK /\ SchedOK
      /\ venue \in [Intents -> VenueState]
      /\ \A p \in Procs : canc[p].at = "commit" => canc[p].cur \in Intents
  BY DEF CoordInv, CancelOK, VenueOK, VenueState
<1>1. \A p \in Procs : canc[p].at = "commit" =>
        venue'[canc[p].cur] \in {"FILLED", "CANCELLED"}
  BY <1>0, VenueOnlyGrows DEF CancelsDone, VenueGrows, ClosedAtVenue
<1>2. CASE UNCHANGED canc
  BY <1>1, <1>2 DEF CancelsDone, ClosedAtVenue
<1>3. ASSUME NEW p \in Procs, NEW f, canc' = [canc EXCEPT ![p] = f],
             f.at = "commit" => venue'[f.cur] \in {"FILLED", "CANCELLED"}
      PROVE  CancelsDone'
  <2>1. \A q \in Procs : canc'[q] = IF q = p THEN f ELSE canc[q]
    BY <1>0, <1>3
  <2>2. QED
    BY <1>1, <1>3, <2>1 DEF CancelsDone, ClosedAtVenue
<1>4. ASSUME NEW p \in Procs,
             canc' = [canc EXCEPT ![p] = [IdleCancel EXCEPT !.at = "create"]]
      PROVE  CancelsDone'
  BY <1>3, <1>4, IdleCancelFrame
<1>5. ASSUME NEW p \in Procs, NEW t \in SUBSET Intents,
             canc' = [canc EXCEPT ![p] =
               [IdleCancel EXCEPT !.at = "next", !.targets = t, !.todo = t]]
      PROVE  CancelsDone'
  BY <1>3, <1>5, CancelTargetsFrame
<1>6. CASE Restart
  BY <1>6, IdleCancelFrame DEF Restart, FreshProcess, CancelsDone
<1>7. ASSUME NEW p \in Procs, CancelStep(p) PROVE CancelsDone'
  <2>0. canc[p] \in CancelFrame
    BY <1>0
  <2>1. CASE CancelAtVenue(p)
    <3>1. CASE /\ venue[canc[p].cur] = "LIVE"
               /\ venue' = [venue EXCEPT ![canc[p].cur] = "CANCELLED"]
               /\ canc' = [canc EXCEPT ![p] = [canc[p] EXCEPT !.at = "commit"]]
      <4>1. canc[p].cur \in Intents
        BY <2>1 DEF CancelAtVenue, InCancel, CoordInv, CancelOK
      <4>2. /\ [canc[p] EXCEPT !.at = "commit"].cur = canc[p].cur
            /\ venue'[canc[p].cur] = "CANCELLED"
        BY <1>0, <2>0, <3>1, <4>1 DEF CancelFrame
      <4>3. QED
        BY <1>3, <3>1, <4>2
    <3>2. CASE canc' = [canc EXCEPT ![p] = NextTarget(p)]
      BY <1>0, <1>3, <3>2, NextTargetFrame
    <3>3. QED
      BY <2>1, <3>1, <3>2 DEF CancelAtVenue, SetCancel
  <2>2. CASE ~CancelAtVenue(p)
    <3>1. \E f : canc' = [canc EXCEPT ![p] = f] /\ f.at # "commit"
      <4>1. CASE CreateCancellation(p)
        <5> DEFINE f == [canc[p] EXCEPT !.at = "next", !.targets = OpenOrders,
                                        !.todo = OpenOrders]
        <5>1. canc' = [canc EXCEPT ![p] = f] /\ f.at # "commit"
          BY <2>0, <4>1 DEF CreateCancellation, SetCancel, CancelFrame
        <5>2. QED
          BY <5>1
      <4>2. CASE ReadTarget(p)
        <5>1. canc[p].at = "next"
          BY <4>2 DEF ReadTarget, InCancel
        <5>2. PICK i \in canc[p].todo :
          canc' = [canc EXCEPT ![p] =
            IF order[i] \in TerminalOrderState THEN [canc[p] EXCEPT !.todo = @ \ {i}]
            ELSE [[canc[p] EXCEPT !.todo = @ \ {i}]
                  EXCEPT !.at = IF order[i] = "UNKNOWN" THEN "venue" ELSE "act",
                         !.cur = i, !.seen = order[i]]]
          BY <4>2 DEF ReadTarget, SetCancel
        <5> DEFINE f == IF order[i] \in TerminalOrderState
                          THEN [canc[p] EXCEPT !.todo = @ \ {i}]
                          ELSE [[canc[p] EXCEPT !.todo = @ \ {i}]
                  EXCEPT !.at = IF order[i] = "UNKNOWN" THEN "venue" ELSE "act",
                         !.cur = i, !.seen = order[i]]
        <5>3. f.at # "commit"
          BY <2>0, <5>1 DEF CancelFrame
        <5>4. canc' = [canc EXCEPT ![p] = f]
          BY <5>2
        <5> HIDE DEF f
        <5>5. QED
          BY <5>3, <5>4
      <4>3. CASE MarkTarget(p) \/ CommitCancelled(p)
        <5>1. \/ canc' = [canc EXCEPT ![p] = NextTarget(p)]
              \/ canc' = [canc EXCEPT ![p] = IdleCancel]
              \/ canc' = [canc EXCEPT ![p] = [canc[p] EXCEPT !.at = "venue"]]
          BY <4>3 DEF MarkTarget, CommitCancelled, SetCancel, CancelError
        <5>2. [canc[p] EXCEPT !.at = "venue"].at = "venue"
          BY <2>0 DEF CancelFrame
        <5>3. QED
          BY <1>0, <5>1, <5>2, NextTargetFrame, IdleCancelFrame
      <4>4. CASE finish_cancellation(p)
        BY <4>4, IdleCancelFrame DEF finish_cancellation, SetCancel
      <4>5. QED
        BY <1>7, <2>2, <4>1, <4>2, <4>3, <4>4 DEF CancelStep
    <3>2. QED
      BY <1>3, <3>1
  <2>3. QED
    BY <2>1, <2>2
<1>8. QED
  BY <1>0, <1>2, <1>4, <1>5, <1>6, <1>7, CancelCallers

\* SendsBegunStep: while the worker is about to send, nobody else moves its order:
\* recovery, the only other writer of a SUBMITTING order, holds safety_gate.
LEMMA SendsBegunStep ==
  ASSUME CoordInv, GateInv, SendsBegun, [Next]_vars
  PROVE  SendsBegun'
<1> SUFFICES ASSUME pc'["worker"] = "send" PROVE order'[work'.intent] = "SUBMITTING"
  BY DEF SendsBegun
<1>0. LabelsOK /\ LocalsOK /\ order \in [Intents -> OrderState \cup {"ABSENT"}]
  BY DEF CoordInv, StoreInv, StoreTypeOK
<1>1. CASE pc["worker"] # "send"
  <2>1. BeginSubmission /\ begin_submission(work.intent) /\ work' = work
    BY <1>1, SendFollowsBegin
  <2>2. work.intent \in Intents
    BY <1>0, <2>1 DEF BeginSubmission, WorkerAt, At, LocalsOK
  <2>3. QED
    BY <1>0, <2>1, <2>2 DEF begin_submission
<1>2. CASE pc["worker"] = "send"
  <2>1. work.intent \in Intents /\ order[work.intent] = "SUBMITTING"
    BY <1>0, <1>2 DEF LocalsOK, SendsBegun
  <2>2. pc["main"] # "s_interrupted"
    BY <1>2 DEF GateInv, HoldsSafety, StartupLabel
  <2>3. order'[work.intent] = "SUBMITTING"
    BY <1>2, <2>1, <2>2, JournalMoves
    DEF JournalMove, OrderMove, SettledOrderState, ReconciledOrderState,
        TerminalOrderState
  <2>4. ~Restart
    BY DEF Restart, FreshProcess, Procs
  <2>5. ~WorkerStep
    <3>1. SendToVenue => pc'["worker"] = "finish"
      BY <1>0 DEF SendToVenue, WorkerGoto, Goto, LabelsOK, Procs
    <3>2. WorkerStep => SendToVenue
      BY <1>2
      DEF WorkerStep, ReceiveIntent, LockSafety, LockLifecycle, PreIntentReconcile,
          CheckHealth, reject_received, BeginValidation, ValidateMarket,
          validate_freshness_and_increments, EvaluateRisk, BeginPreparation,
          PrepareOrder, BeginSubmission, FinishSubmission, WorkerHalt,
          ReleaseWorker, WorkerAt, At
    <3>3. QED
      BY <3>1, <3>2
  <2>6. work' = work
    BY <1>0, <2>4, <2>5, OnlyWorkerWorks
  <2>7. QED
    BY <2>3, <2>6
<1>3. QED
  BY <1>1, <1>2

\* PhantomStep: nothing is booked beyond the evidence.
LEMMA PhantomStep ==
  ASSUME CoordInv, VenueInv, [Next]_vars
  PROVE  NoPhantomFill'
<1> SUFFICES ASSUME NEW i \in Intents PROVE booked'[i] <= matched'[i]
  BY DEF NoPhantomFill
<1>1. /\ matched[i] \in Nat /\ matched'[i] \in Nat /\ matched[i] <= matched'[i]
      /\ booked[i] \in Nat /\ booked'[i] \in Nat
  <2>1. StoreInv'
    BY CoordStep DEF CoordInv
  <2>2. matched' \in [Intents -> Nat]
    BY VenueMoves, SendMoves
  <2>3. QED
    BY <2>1, <2>2, VenueOnlyGrows DEF VenueGrows, CoordInv, VenueOK, StoreInv, StoreTypeOK
<1>2. FillMove(i)
  BY JournalMoves DEF JournalMove
<1>3. booked'[i] <= matched[i]
  <2>1. CASE booked'[i] = booked[i]
    BY <2>1 DEF VenueInv, NoPhantomFill
  <2>2. CASE pc["worker"] = "finish" /\ i = work.intent /\ booked'[i] <= work.filled
    <3>1. work.filled \in Nat /\ work.filled <= matched[i]
      BY <2>2 DEF CoordInv, LocalsOK, VenueInv, ReplyOld
    <3>2. QED
      BY <1>1, <2>2, <3>1
  <2>3. ASSUME NEW p \in Procs, recon[p].at = "resolve", recon[p].cur = i,
               booked'[i] <= recon[p].found.filled
        PROVE  booked'[i] <= matched[i]
    <3>1. recon[p].found.filled \in Nat /\ recon[p].found.filled <= matched[i]
      BY <2>3 DEF CoordInv, ReconOK, VenueEvidence, VenueInv, LookupsOld
    <3>2. QED
      BY <1>1, <2>3, <3>1
  <2>4. ASSUME NEW p \in Procs, i \in DOMAIN recon[p].open, booked'[i] <= recon[p].open[i]
        PROVE  booked'[i] <= matched[i]
    <3>1. recon[p].open \in OpenSnapshot
      BY DEF CoordInv, ReconOK, ReconFrame
    <3>2. recon[p].open[i] \in Nat
      BY <2>4, <3>1, OpenSnapshotType
    <3>3. recon[p].open[i] <= matched[i]
      BY <2>4 DEF VenueInv, SnapshotsOld
    <3>4. QED
      BY <1>1, <2>4, <3>2, <3>3
  <2>5. QED
    BY <1>2, <2>1, <2>2, <2>3, <2>4 DEF FillMove
<1>4. QED
  BY <1>1, <1>3

\* ForgottenStep: an order is closed locally only on evidence that the venue closed it
\* or never had it.
LEMMA ForgottenStep ==
  ASSUME CoordInv, VenueInv, [Next]_vars
  PROVE  NoForgottenOrder'
<1> DEFINE Tracked == {"SUBMITTING", "LIVE", "CANCEL_PENDING", "UNKNOWN"}
<1> SUFFICES ASSUME NEW i \in Intents, venue'[i] \in {"inflight", "LIVE"}
             PROVE  order'[i] \in Tracked
  BY DEF NoForgottenOrder
<1>1. CASE SendToVenue /\ i = work.intent
  <2>1. pc["worker"] = "send" /\ UNCHANGED order
    BY <1>1 DEF SendToVenue, WorkerAt, At, storeVars
  <2>2. QED
    BY <1>1, <2>1 DEF VenueInv, SendsBegun
<1>2. CASE ~(SendToVenue /\ i = work.intent)
  <2>1. venue[i] \in {"inflight", "LIVE"}
    <3>1. venue[i] \in VenueState
      BY DEF CoordInv, VenueOK, VenueState
    <3>2. QED
      BY <1>2, <3>1, VenueOnlyGrows DEF VenueGrows, ClosedAtVenue, VenueState
  <2>2. order[i] \in Tracked
    BY <2>1 DEF VenueInv, NoForgottenOrder
  <2>3. ~ClosedAtVenue(i) /\ venue[i] # "none"
    BY <2>1 DEF ClosedAtVenue
  <2>4. OrderMove(i)
    BY JournalMoves DEF JournalMove
  <2>5. CASE /\ order[i] = "SUBMITTING" /\ pc["worker"] = "finish" /\ i = work.intent
             /\ \/ work.reply \in Accepted /\ order'[i] = work.reply
                \/ work.reply = "rejected" /\ order'[i] = "REJECTED"
                \/ order'[i] = "UNKNOWN"
    BY <2>3, <2>5 DEF VenueInv, ReplyOld, Accepted
  <2>6. ASSUME NEW p \in Procs, recon[p].at = "resolve", recon[p].cur = i,
               order'[i] = recon[p].found.state
        PROVE  order'[i] \in Tracked
    BY <2>3, <2>6 DEF VenueInv, LookupsOld, Accepted
  <2>7. CASE /\ order'[i] \in {"LIVE", "CANCEL_PENDING"} \/ order'[i] = venue[i]
             /\ order'[i] \in SettledOrderState
    BY <2>1, <2>7 DEF SettledOrderState, ReconciledOrderState, TerminalOrderState
  <2>8. ASSUME NEW p \in Procs, canc[p].at = "commit", canc[p].cur = i
        PROVE  FALSE
    BY <2>3, <2>8 DEF VenueInv, CancelsDone
  <2>9. QED
    BY <2>2, <2>4, <2>5, <2>6, <2>7, <2>8 DEF OrderMove
<1>3. QED
  BY <1>1, <1>2

\* A process starts with an empty journal and an empty venue.
LEMMA VenueInit == Init => VenueInv
<1> SUFFICES ASSUME Init PROVE VenueInv
  OBVIOUS
<1>1. SnapshotsOld /\ LookupsOld
  BY DEF Init, SnapshotsOld, LookupsOld, IdleRecon
<1>2. ReplyOld /\ CancelsDone /\ SendsBegun
  BY IdleCancelFrame DEF Init, ReplyOld, CancelsDone, SendsBegun, Procs
<1>3. NoPhantomFill /\ NoForgottenOrder
  BY DEF Init, StoreInit, NoPhantomFill, NoForgottenOrder
<1>4. QED
  BY <1>1, <1>2, <1>3 DEF VenueInv

\* VenueInvariant: evidence is never ahead of the venue, and the journal is never
\* ahead of the evidence.
THEOREM VenueInvariant == Spec => []VenueInv
<1>1. CoordInv /\ GateInv /\ VenueInv /\ [Next]_vars => VenueInv'
  BY EvidenceStep, ReplyStep, CancelsDoneStep, SendsBegunStep, PhantomStep, ForgottenStep
  DEF VenueInv
<1>2. QED
  BY <1>1, VenueInit, GateInvariant, PTL DEF Spec

\* FillsAreReal: the trades booked for an order never exceed what the venue has matched
\* (NoPhantomFill), however often and from how many sources a fill is reported.
THEOREM FillsAreReal == Spec => []NoPhantomFill
<1>1. VenueInv => NoPhantomFill
  BY DEF VenueInv
<1>2. QED
  BY <1>1, VenueInvariant, PTL

\* OrdersAreRemembered: an order that the venue has open or may still receive is in a
\* local state that reconciliation or recovery acts on (NoForgottenOrder).
THEOREM OrdersAreRemembered == Spec => []NoForgottenOrder
<1>1. VenueInv => NoForgottenOrder
  BY DEF VenueInv
<1>2. QED
  BY <1>1, VenueInvariant, PTL
=============================================================================
