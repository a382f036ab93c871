---------------------------- MODULE PaperTrading ----------------------------
(***************************************************************************)
(* Paper trading: the ledger of the paper venue, the order journal and the *)
(* tasks that connect them.  The worker submits one order at a time, a     *)
(* reconciliation compares the ledger with the journal, a cancellation     *)
(* closes an order, and the market streams apply trades whenever they      *)
(* arrive: they take neither safety_gate nor order_lifecycle_gate.  The    *)
(* worker holds both gates, a reconciliation the first and a cancellation  *)
(* the second, so only the last two and the streams interleave freely.     *)
(*                                                                         *)
(* Intents start out PREPARED and the service stays READY: halts and       *)
(* resumes (module Coordinator) only keep a submission from beginning.     *)
(***************************************************************************)
EXTENDS PaperLedger

CONSTANT NoIntent  \* "no intent", e.g. of an idle worker

ASSUME PaperNoIntentAssumption == NoIntent \notin Intents

VARIABLES
  position,  \* positions.shares of each token
  sub,       \* worker: step, intent and reply of PaperVenue::submit
  run,       \* reconciliation: step, snapshot of orders and of positions
  cancel,    \* cancellation: step, order and the state the venue answered
  critical   \* some critical reconciliation finding is unresolved

taskVars == <<sub, run, cancel>>
rigid == <<request, trades, config>>
paperVars == <<storeVars, rigid, ledgerVars, position, taskVars, critical>>

IdleSub == [at |-> "idle", intent |-> NoIntent, reply |-> "none", row |-> NoRow]
IdleRun == [at |-> "idle", snap |-> <<>>, inv |-> <<>>, todo |-> {},
            cur |-> NoIntent, bad |-> FALSE]
IdleCancel == [at |-> "idle", intent |-> NoIntent, answer |-> "none"]

Prepared(s) == [i \in Intents |-> IF i \in DOMAIN request THEN s ELSE "ABSENT"]

PaperInit ==
  /\ LedgerInit
  /\ control = "READY" /\ revision = 0
  /\ intent = Prepared("PREPARED")
  /\ reservation = Prepared("CONSUMED")
  /\ order = Prepared("PREPARED")
  /\ venueOrderId = [i \in Intents |-> FALSE]
  /\ remaining = [i \in Intents |-> Qty]
  /\ attempt = Prepared("PREPARED")
  /\ tradeIds = [i \in Intents |-> {}] /\ booked = [i \in Intents |-> 0]
  /\ position = [t \in Tokens |-> 0]
  /\ sub = IdleSub /\ run = IdleRun /\ cancel = IdleCancel /\ critical = FALSE

\* apply_matched_fill moves the position by what it books, in its transaction.
PositionFollows ==
  position' = [t \in Tokens |-> position[t] +
    MapThenSumSet(LAMBDA i : IF IsBuy(i) THEN booked'[i] - booked[i]
                                         ELSE booked[i] - booked'[i],
                  {i \in DOMAIN request : request[i].token = t})]

\* PaperVenue::new at the first start of the process.
OpenAccount ==
  /\ initialize_paper_account
  /\ position' = config.shares
  /\ UNCHANGED <<storeVars, rigid, taskVars, critical>>

-----------------------------------------------------------------------------
(* Worker: submit_prepared with PaperVenue::submit                         *)

BeginSubmit(i) ==
  /\ opened
  /\ sub.at = "idle" /\ run.at = "idle" /\ cancel.at = "idle"
  /\ begin_submission(i)
  /\ sub' = [IdleSub EXCEPT !.at = "send", !.intent = i]
  /\ UNCHANGED <<rigid, ledgerVars, position, run, cancel, critical>>

\* ensure_trade_subscription: the tokens whose trades the process listens to.
trade_subscriptions ==
  {request[i].token : i \in {j \in Intents : paper[j] # NoRow /\ request[j].tif = "GTC"}}

\* The market data is fetched, a resting order subscribes to its trades, and the
\* order is committed; every error is a rejection, except the deadline, which
\* may strike before or after the commit.
Submit ==
  LET i == sub.intent
      Reply(kind, row) == sub' = [at |-> "finish", intent |-> i, reply |-> kind, row |-> row]
  IN /\ sub.at = "send"
     /\ \/ \E row \in PaperRows(request[i]) :
             /\ commit_paper_order(i, row)
             /\ Reply("accepted", row) \/ Reply("ambiguous", NoRow)
        \/ /\ Reply("rejected", NoRow) \/ Reply("ambiguous", NoRow)
           /\ UNCHANGED ledgerVars
     /\ UNCHANGED <<storeVars, rigid, position, run, cancel, critical>>

\* Mutant: a submission whose deadline passed is taken for rejected.
FinishAmbiguousAsRejected ==
  LET i == sub.intent IN
  /\ sub.at = "finish"
  /\ IF sub.reply = "accepted"
       THEN finish_submission(i, "SUBMITTED", sub.row.state, sub.row.filled, sub.row.trades)
       ELSE finish_submission(i, "SUBMITTED", "REJECTED", 0, {})
  /\ PositionFollows
  /\ sub' = IdleSub
  /\ UNCHANGED <<rigid, ledgerVars, run, cancel, critical>>

FinishSubmit ==
  LET i == sub.intent IN
  /\ sub.at = "finish"
  /\ CASE sub.reply = "accepted" ->
            finish_submission(i, "SUBMITTED", sub.row.state, sub.row.filled, sub.row.trades)
       [] sub.reply = "rejected" -> finish_submission(i, "SUBMITTED", "REJECTED", 0, {})
       [] sub.reply = "ambiguous" -> finish_submission(i, "UNKNOWN", "UNKNOWN", 0, {})
  /\ PositionFollows
  /\ sub' = IdleSub
  /\ UNCHANGED <<rigid, ledgerVars, run, cancel, critical>>

-----------------------------------------------------------------------------
(* Market streams                                                          *)

\* A trade with a size; its observed time lies after the creation of the first n
\* orders only.
ReceiveTrade ==
  /\ \E t \in trade_subscriptions, e \in Events, price \in 1..(TickCount - 1),
        size \in {1, 2 * Qty}, n \in 0..Len(book) :
       /\ e <= Cardinality(applied) + 1
       /\ apply_paper_trade_through(e, t, price, size, n)
  /\ PositionFollows
  /\ UNCHANGED <<rigid, taskVars, critical>>

-----------------------------------------------------------------------------
(* Reconciliation                                                          *)

\* The orders of the ledger.  They are read one by one, but every later step looks
\* at one of them only.  The run fails here, and changes nothing, while a market
\* stream is unhealthy.
StartRun ==
  /\ opened /\ sub.at = "idle" /\ run.at = "idle"
  /\ run' = [IdleRun EXCEPT !.at = "local",
       !.snap = [i \in {j \in Intents : paper[j] # NoRow} |-> paper[i]]]
  /\ UNCHANGED <<storeVars, rigid, ledgerVars, position, sub, cancel, critical>>

\* The inventory, then reconciliation_orders; an order of the ledger that the
\* journal does not know by its identifier is a finding.
ReadLocal ==
  /\ run.at = "local"
  /\ run' = [run EXCEPT !.at = "project",
       !.inv = [t \in Tokens |-> inventory[t].shares],
       !.todo = {i \in Intents : CoreFollows(i)},
       !.bad = \E i \in DOMAIN run.snap : ~venueOrderId[i]]
  /\ UNCHANGED <<storeVars, rigid, ledgerVars, position, sub, cancel, critical>>

PaperEvidence(row) ==
  [state |-> row.state, filled |-> row.filled, remaining |-> row.remaining,
   ids |-> row.trades]

\* A run that ends with an error leaves a critical finding.
FailRun == run' = IdleRun /\ critical' = TRUE /\ UNCHANGED storeVars

\* An observed fill that is behind the journal's is an error.
Project ==
  /\ run.at = "project"
  /\ \E i \in run.todo \cap DOMAIN run.snap :
       \/ /\ reconcile_order_projection(i, PaperEvidence(run.snap[i]))
          /\ run' = [run EXCEPT !.todo = @ \ {i}]
          /\ UNCHANGED critical
       \/ run.snap[i].filled < LocalFilled(i) /\ FailRun
  /\ PositionFollows
  /\ UNCHANGED <<rigid, ledgerVars, sub, cancel>>

\* unknown_submissions, then one lookup and one resolution for each.
LookupUnknown ==
  /\ \/ /\ run.at = "project" /\ run.todo = {}
        /\ run' = [run EXCEPT !.at = "lookup",
                              !.todo = {i \in Intents : order[i] = "UNKNOWN"}]
     \/ /\ run.at = "lookup"
        /\ \E i \in run.todo :
             run' = IF paper[i] = NoRow
                      THEN [run EXCEPT !.todo = @ \ {i}, !.bad = TRUE]
                      ELSE [run EXCEPT !.todo = @ \ {i}, !.at = "resolve", !.cur = i,
                                       !.snap = [j \in DOMAIN @ \cup {i} |->
                                                   IF j = i THEN paper[i] ELSE @[j]]]
  /\ UNCHANGED <<storeVars, rigid, ledgerVars, position, sub, cancel, critical>>

\* The order may have left UNKNOWN since the lookup.
Resolve ==
  LET i == run.cur IN
  /\ run.at = "resolve"
  /\ \/ /\ resolve_unknown_submission(i, PaperEvidence(run.snap[i]))
        /\ run' = [run EXCEPT !.at = "lookup", !.cur = NoIntent]
        /\ UNCHANGED critical
     \/ order[i] # "UNKNOWN" /\ FailRun
  /\ PositionFollows
  /\ UNCHANGED <<rigid, ledgerVars, sub, cancel>>

\* record_venue_trade_finality finds the local fill of every observed trade.
Linked(i, e) == \E key \in tradeIds[i] : e \in key

\* Mutant: a trade without a local fill is not reported.
NothingUnlinked == {}

UnlinkedTrades ==
  {i \in DOMAIN run.snap : \E e \in run.snap[i].trades : ~Linked(i, e)}

\* Mutant: only fills move positions.
KeepPositions(observed) == UNCHANGED position

\* The observed inventory replaces the positions, whatever happened since.
reconcile_venue_positions(observed) == position' = observed

FinishRun ==
  /\ run.at = "lookup" /\ run.todo = {}
  /\ reconcile_venue_positions(run.inv)
  /\ critical' = (run.bad \/ UnlinkedTrades # {})
  /\ run' = IdleRun
  /\ UNCHANGED <<storeVars, rigid, ledgerVars, sub, cancel>>

RunStep ==
  \/ StartRun \/ ReadLocal \/ Project \/ LookupUnknown \/ Resolve \/ FinishRun

-----------------------------------------------------------------------------
(* Cancellation: execute_cancellation for one order                        *)

BeginCancel(i) ==
  /\ sub.at = "idle" /\ cancel.at = "idle"
  /\ order[i] \notin TerminalOrderState \cup {"ABSENT"}
  /\ \/ order[i] = "PREPARED" /\ cancel_prepared_order(i) /\ UNCHANGED cancel
     \/ /\ order[i] # "PREPARED"
        /\ cancel' = [IdleCancel EXCEPT !.intent = i,
             !.at = IF order[i] = "UNKNOWN" THEN "venue" ELSE "mark"]
        /\ UNCHANGED storeVars
  /\ UNCHANGED <<rigid, ledgerVars, position, sub, run, critical>>

MarkCancel ==
  LET i == cancel.intent IN
  /\ cancel.at = "mark"
  /\ transition_order(i, "CANCEL_PENDING")
  /\ cancel' = IF order[i] \in TerminalOrderState THEN IdleCancel
               ELSE [cancel EXCEPT !.at = "venue"]
  /\ UNCHANGED <<rigid, ledgerVars, position, sub, run, critical>>

\* The answer is the state of the order, CANCELLED or what closed it before; the
\* deadline may hide the answer, and an unknown order is an error: both leave the
\* order to reconciliation.
CancelPaper ==
  LET i == cancel.intent IN
  /\ cancel.at = "venue"
  /\ \/ /\ cancel_paper_order(i)
        /\ \/ cancel' = [cancel EXCEPT !.at = "commit", !.answer = paper'[i].state]
           \/ cancel' = IdleCancel
     \/ paper[i] = NoRow /\ cancel' = IdleCancel /\ UNCHANGED ledgerVars
  /\ UNCHANGED <<storeVars, rigid, position, sub, run, critical>>

CommitCancel ==
  LET i == cancel.intent IN
  /\ cancel.at = "commit"
  /\ \/ transition_order(i, cancel.answer)
     \/ ~valid_order_transition(order[i], cancel.answer) /\ UNCHANGED storeVars
  /\ cancel' = IdleCancel
  /\ UNCHANGED <<rigid, ledgerVars, position, sub, run, critical>>

CancelTask ==
  \/ \E i \in Intents : BeginCancel(i)
  \/ MarkCancel \/ CancelPaper \/ CommitCancel

-----------------------------------------------------------------------------
(* A crash loses the tasks; startup recovers interrupted submissions.  One  *)
(* outside of a submission loses no more than the errors and deadlines of   *)
(* the other tasks do.                                                     *)

Restart ==
  /\ sub.at # "idle"
  /\ recover_interrupted_submissions
  /\ sub' = IdleSub /\ run' = IdleRun /\ cancel' = IdleCancel
  /\ UNCHANGED <<rigid, ledgerVars, position, critical>>

PaperNext ==
  \/ OpenAccount
  \/ \E i \in Intents : BeginSubmit(i)
  \/ Submit \/ FinishSubmit
  \/ ReceiveTrade
  \/ RunStep \/ CancelTask \/ Restart

\* Reconciliation is scheduled by a timer and each task goes on by itself.  Trades,
\* submissions and cancellations need not happen.
PaperFairness ==
  /\ WF_paperVars(OpenAccount)
  /\ WF_paperVars(Submit \/ FinishSubmit)
  /\ WF_paperVars(MarkCancel \/ CancelPaper \/ CommitCancel)
  /\ WF_paperVars(RunStep)

PaperSpec == PaperInit /\ [][PaperNext]_paperVars /\ PaperFairness

-----------------------------------------------------------------------------
(* Properties                                                              *)

\* PaperFillsBookedOnce: the journal never books more for an order than the ledger
\* filled, although the same fill can reach it through the reply, the
\* trade-through, a stale snapshot, a lookup and after a restart
\* (apply_matched_fill, reconcile_order_projection, apply_paper_trade_through).
PaperFillsBookedOnce == \A i \in Intents : booked[i] <= paper[i].filled

\* NoForgottenPaperOrder: an order that rests in the ledger, and can still trade,
\* is open in the journal, where risk counts it and reconciliation looks at it,
\* however fills, cancellations and restarts interleave (execute_cancellation,
\* apply_paper_trade_through).
NoForgottenPaperOrder ==
  \A i \in Intents :
    Resting(i) => order[i] \in {"SUBMITTING", "UNKNOWN"} \cup ReconciledOrderState

\* CleanRunBooksFills: a trade-through that hits an order before the journal knows
\* its identifier is not booked, and a later one hides the difference from the
\* projection.  A reconciliation that reports nothing is still a proof: every fill
\* it saw is booked (reconcile_started_inner, record_venue_trade_finality).
CleanRunBooksFills ==
  [][run.at = "lookup" /\ run' = IdleRun /\ ~critical' =>
       \A i \in DOMAIN run.snap : booked[i] >= run.snap[i].filled]_paperVars

\* PositionsConverge: positions can be wrong for a while, when a reconciliation
\* overwrites them with an inventory it read before the last fill, or when a fill
\* was never booked; once the trades stop they agree with the inventory for good
\* (reconcile_venue_positions).
PositionsConverge == <>[](\A t \in Tokens : position[t] = inventory[t].shares)

\* The paper venue as the coordinator sees it.
PaperVenueState ==
  [i \in Intents |->
     CASE paper[i] # NoRow -> IF Resting(i) THEN "LIVE" ELSE paper[i].state
       [] OTHER            -> "none"]

Venue == INSTANCE VenueContract
           WITH Orders <- Intents, Lots <- Qty, state <- PaperVenueState,
                lots <- [i \in Intents |-> paper[i].filled]

\* PaperImplementsVenue: under every interleaving of submissions, trade-throughs
\* and cancellations the paper venue behaves as the coordinator expects of a venue
\* (PaperVenue, ExecutionVenue).
PaperImplementsVenue == Venue!ContractSpec
=============================================================================
