---------------------------- MODULE PaperLedger ----------------------------
(***************************************************************************)
(* The paper venue's durable ledger in store.rs (paper_account,            *)
(* paper_inventory, paper_venue_orders, paper_market_events) and how       *)
(* venue/paper.rs fills it.  It shares the database, and with it the write *)
(* gate, with the order journal: an operation is one transaction, and a    *)
(* trade-through changes both.                                             *)
(*                                                                         *)
(* Prices are counted in ticks, quantities in lots.  A fee is charged on   *)
(* the quote amount, FeeNum/FeeDen of it; balances are counted in          *)
(* 1/FeeDen-th of a tick so that they stay integers.                       *)
(***************************************************************************)
EXTENDS Store, FiniteSetsExt, SequencesExt

CONSTANTS Tokens,        \* outcome tokens
          Scenarios,     \* [ask, events, config]: the requests of the intents in play,
                         \* a bound on the market events, the starting balance and
                         \* inventory
          TickCount,     \* a price p satisfies 0 < p < TickCount
          FeeNum, FeeDen,
          MaxEvents      \* bound of the model: market events

ASSUME PriceAssumption == TickCount \in Nat \ {0, 1}
ASSUME FeeAssumption == FeeNum \in Nat /\ FeeDen \in Nat \ {0} /\ FeeNum <= FeeDen
ASSUME MaxEventsAssumption == MaxEvents \in Nat
ASSUME ScenarioAssumption ==
  \A s \in Scenarios :
    /\ DOMAIN s.ask \subseteq Intents
    /\ \A i \in DOMAIN s.ask :
         s.ask[i] \in [token : Tokens, side : {"BUY", "SELL"}, price : 1..(TickCount - 1),
                      tif : {"GTC", "FAK", "FOK"}]
    /\ s.events \in 0..MaxEvents
    /\ s.config \in [quote : Nat, shares : [Tokens -> Nat]]

VARIABLES
  request,    \* the immutable request of each intent in play
  trades,     \* bound of the model: how many market events there are
  config,     \* the paper configuration of the process
  opened,     \* paper_account has its row
  account,    \* paper_account: balance and reserved quote
  inventory,  \* paper_inventory: shares and reserved shares of each token
  paper,      \* paper_venue_orders, one row per deterministic order id
  book,       \* their ids in the order of creation
  applied     \* ids in paper_market_events

ledgerVars == <<opened, account, inventory, paper, book, applied>>

\* Ids of the trades a paper order may have: 0 for the fill of the submission
\* itself, e for the fill by market event e.
TradeId == 0..MaxEvents
Events == 1..trades

\* A row; reserved is in quote for a buy and in shares for a sell, the other
\* column is 0.
PaperRow ==
  [state : {"ABSENT", "LIVE", "PARTIALLY_FILLED", "FILLED", "CANCELLED"},
   remaining : 0..Qty, filled : 0..Qty, quote : Nat, reserved : Nat,
   trades : SUBSET TradeId]
NoRow == [state |-> "ABSENT", remaining |-> 0, filled |-> 0, quote |-> 0,
          reserved |-> 0, trades |-> {}]

RestingState == {"LIVE", "PARTIALLY_FILLED"}
Resting(i) == paper[i].state \in RestingState
IsBuy(i) == request[i].side = "BUY"

\* What a buyer pays and a seller receives for a quote amount.
WithFee(quote) == quote * (FeeDen + FeeNum)
LessFee(quote) == quote * (FeeDen - FeeNum)

NonNegative(n) == IF n < 0 THEN 0 ELSE n

LedgerInit ==
  /\ \E s \in Scenarios : request = s.ask /\ trades = s.events /\ config = s.config
  /\ opened = FALSE
  /\ account = [balance |-> 0, reserved |-> 0]
  /\ inventory = [t \in Tokens |-> [shares |-> 0, reserved |-> 0]]
  /\ paper = [i \in Intents |-> NoRow]
  /\ book = <<>> /\ applied = {}

\* A later start with the same configuration changes nothing, with another one
\* it fails.
initialize_paper_account ==
  /\ ~opened /\ opened' = TRUE
  /\ account' = [balance |-> config.quote * FeeDen, reserved |-> 0]
  /\ inventory' = [t \in Tokens |-> [shares |-> config.shares[t], reserved |-> 0]]
  /\ UNCHANGED <<paper, book, applied>>

-----------------------------------------------------------------------------
(* Submission                                                              *)

\* What walking a book of any depth can yield for an immediate order: some
\* shares at an average price within the protection price.  A sale is complete
\* with its last share, a purchase when its quote amount is spent.
walk_book(r) ==
  {[shares |-> s, quote |-> s * p, complete |-> c] :
     s \in 0..Qty, c \in BOOLEAN,
     p \in {q \in 1..(TickCount - 1) : IF r.side = "BUY" THEN q <= r.price ELSE q >= r.price}}

Complete(r, fill) ==
  /\ fill.complete => fill.shares > 0
  /\ r.side = "SELL" => (fill.complete <=> fill.shares = Qty)

\* The rows PaperVenue::submit may commit for a request: an immediate order never
\* rests, one that must fill completely keeps no partial fill, and a resting order
\* reserves the most it can cost.
PaperRows(r) ==
  IF r.tif = "GTC"
    THEN {[NoRow EXCEPT !.state = "LIVE", !.remaining = Qty,
             !.reserved = IF r.side = "BUY" THEN WithFee(Qty * r.price) ELSE Qty]}
    ELSE {LET dropped == r.tif = "FOK" /\ ~fill.complete
              shares == IF dropped THEN 0 ELSE fill.shares
          IN [NoRow EXCEPT !.state = IF fill.complete THEN "FILLED" ELSE "CANCELLED",
                           !.filled = shares,
                           !.quote = IF dropped THEN 0 ELSE fill.quote,
                           !.trades = IF shares > 0 THEN {0} ELSE {}] :
          fill \in {f \in walk_book(r) : Complete(r, f)}}

\* Mutant: nothing is compared with the balance or the inventory.
CoversAnything(i, row) == TRUE

\* Mutant: what is reserved already is counted as free.
CoversIgnoringReserved(i, row) ==
  IF IsBuy(i) THEN account.balance >= WithFee(row.quote) + row.reserved
              ELSE inventory[request[i].token].shares >= row.filled + row.reserved

\* The unreserved balance or inventory covers the fill and the reservation.
Covers(i, row) ==
  LET inv == inventory[request[i].token] IN
  IF IsBuy(i) THEN account.balance - account.reserved >= WithFee(row.quote) + row.reserved
              ELSE inv.shares - inv.reserved >= row.filled + row.reserved

AccountAfterCommit(i, row) ==
  IF IsBuy(i) THEN [balance |-> account.balance - WithFee(row.quote),
                    reserved |-> account.reserved + row.reserved]
              ELSE [account EXCEPT !.balance = @ + LessFee(row.quote)]

\* Mutant: the shares of an immediate purchase are not credited.
SharesNotCredited(i, row) ==
  IF IsBuy(i) THEN inventory
  ELSE [inventory EXCEPT ![request[i].token] =
          [shares |-> @.shares - row.filled, reserved |-> @.reserved + row.reserved]]

InventoryAfterCommit(i, row) ==
  [inventory EXCEPT ![request[i].token] =
     IF IsBuy(i) THEN [shares |-> @.shares + row.filled, reserved |-> @.reserved]
     ELSE [shares |-> @.shares - row.filled, reserved |-> @.reserved + row.reserved]]

commit_paper_order(i, row) ==
  /\ opened /\ paper[i] = NoRow
  /\ Covers(i, row)
  /\ account' = AccountAfterCommit(i, row)
  /\ inventory' = InventoryAfterCommit(i, row)
  /\ paper' = [paper EXCEPT ![i] = row]
  /\ book' = Append(book, i)
  /\ UNCHANGED <<opened, applied>>

-----------------------------------------------------------------------------
(* Trade-through: one observed trade fills the resting orders it crosses   *)

\* Mutant: a trade at the limit price itself fills the order.
CrossedOrTouched(i, price) ==
  IF IsBuy(i) THEN price <= request[i].price ELSE price >= request[i].price

crossed(i, price) ==
  IF IsBuy(i) THEN price < request[i].price ELSE price > request[i].price

\* The loop's variables after order i; it stops the transaction when the account
\* or the inventory would become negative.
FillOrder(e, t, price, s, i) ==
  LET row == s.paper[i]
      q == Min({row.remaining, s.size})
      released == IF IsBuy(i) THEN WithFee(q * request[i].price) ELSE q
  IN IF \/ request[i].token # t \/ row.state \notin RestingState
        \/ ~crossed(i, price) \/ q = 0 \/ s.overdrawn
       THEN s
       ELSE LET balance == IF IsBuy(i) THEN s.account.balance - WithFee(q * price)
                                       ELSE s.account.balance + LessFee(q * price)
                shares == IF IsBuy(i) THEN s.inv.shares + q ELSE s.inv.shares - q
            IN [size |-> s.size - q,
                account |-> [balance |-> balance,
                             reserved |-> IF IsBuy(i)
                                            THEN NonNegative(s.account.reserved - released)
                                            ELSE s.account.reserved],
                inv |-> [shares |-> shares,
                         reserved |-> IF IsBuy(i) THEN s.inv.reserved
                                                  ELSE NonNegative(s.inv.reserved - released)],
                paper |-> [s.paper EXCEPT ![i] =
                  [state |-> IF row.remaining = q THEN "FILLED" ELSE "PARTIALLY_FILLED",
                   remaining |-> row.remaining - q,
                   filled |-> row.filled + q,
                   quote |-> row.quote + q * price,
                   reserved |-> NonNegative(row.reserved - released),
                   trades |-> row.trades \cup {e}]],
                overdrawn |-> balance < 0 \/ shares < 0]

\* Only orders created before the trade was observed take part: the first n.
SweepBook(e, t, price, size, n) ==
  FoldLeft(LAMBDA s, i : FillOrder(e, t, price, s, i),
           [size |-> size, account |-> account, inv |-> inventory[t], paper |-> paper,
            overdrawn |-> FALSE],
           SubSeq(book, 1, n))

\* The core order of paper order i is updated in the same transaction if it is
\* known by its venue identifier and open.
CoreFollows(i) == venueOrderId[i] /\ order[i] \in ReconciledOrderState

\* A partial fill does not end the wait for a cancellation.
CoreState(i, next) ==
  IF order[i] = "CANCEL_PENDING" /\ next # "FILLED" THEN "CANCEL_PENDING" ELSE next

CoreFill(e, s) ==
  LET hit == {i \in Intents : e \in s.paper[i].trades /\ CoreFollows(i)} IN
  /\ order' = [i \in Intents |-> IF i \in hit THEN CoreState(i, s.paper[i].state)
                                              ELSE order[i]]
  /\ remaining' = [i \in Intents |-> IF i \in hit THEN s.paper[i].remaining
                                                  ELSE remaining[i]]
  /\ tradeIds' = [i \in Intents |-> IF i \in hit THEN tradeIds[i] \cup {{e}}
                                                 ELSE tradeIds[i]]
  /\ booked' = [i \in Intents |->
       IF i \in hit THEN booked[i] + s.paper[i].filled - paper[i].filled ELSE booked[i]]
  /\ UNCHANGED <<controlVars, intent, reservation, attempt, venueOrderId>>

apply_paper_trade_through(e, t, price, size, n) ==
  LET s == SweepBook(e, t, price, size, n) IN
  /\ e \notin applied
  /\ opened /\ ~s.overdrawn
  /\ account' = s.account /\ inventory' = [inventory EXCEPT ![t] = s.inv]
  /\ paper' = s.paper
  /\ applied' = applied \cup {e}
  /\ CoreFill(e, s)
  /\ UNCHANGED <<opened, book>>

-----------------------------------------------------------------------------
(* Cancellation                                                            *)

\* Mutant: the reservation of a cancelled order is not given back.
CancelKeepsReservation(i) ==
  /\ paper[i] # NoRow
  /\ paper' = IF Resting(i)
       THEN [paper EXCEPT ![i].state = "CANCELLED", ![i].remaining = 0, ![i].reserved = 0]
       ELSE paper
  /\ UNCHANGED <<opened, account, inventory, book, applied>>

\* Mutant: a closed order is cancelled too.
CancelClosedToo(i) ==
  /\ paper[i] # NoRow
  /\ paper' = [paper EXCEPT ![i].state = "CANCELLED", ![i].remaining = 0]
  /\ UNCHANGED <<opened, account, inventory, book, applied>>

\* A closed order is left as it is; the caller gets its state either way.
cancel_paper_order(i) ==
  LET t == request[i].token IN
  /\ paper[i] # NoRow
  /\ IF Resting(i)
       THEN /\ paper' = [paper EXCEPT ![i].state = "CANCELLED", ![i].remaining = 0,
                                      ![i].reserved = 0]
            /\ account' = IF IsBuy(i)
                 THEN [account EXCEPT !.reserved = NonNegative(@ - paper[i].reserved)]
                 ELSE account
            /\ inventory' = IF IsBuy(i) THEN inventory
                 ELSE [inventory EXCEPT ![t].reserved = NonNegative(@ - paper[i].reserved)]
       ELSE UNCHANGED <<paper, account, inventory>>
  /\ UNCHANGED <<opened, book, applied>>

-----------------------------------------------------------------------------
(* Properties                                                              *)

\* PaperTypeOK: every column keeps its type; in particular no balance, inventory
\* or reservation becomes negative (store.rs, the paper tables).
PaperTypeOK ==
  /\ opened \in BOOLEAN
  /\ account \in [balance : Nat, reserved : Nat]
  /\ inventory \in [Tokens -> [shares : Nat, reserved : Nat]]
  /\ paper \in [Intents -> PaperRow]
  /\ book \in Seq(Intents) /\ applied \subseteq 1..MaxEvents

Placed(side, t) ==
  {i \in Intents : paper[i] # NoRow /\ request[i].side = side /\ request[i].token = t}
Buys == UNION {Placed("BUY", t) : t \in Tokens}
Sells == UNION {Placed("SELL", t) : t \in Tokens}

\* ReservationsBacked: the reserved quote and the reserved shares are exactly what
\* the resting orders reserved and have not used, closed orders reserve nothing,
\* and the reservations are covered.  The code clamps every subtraction of a
\* reservation at zero, which would hide a drift (commit_paper_order,
\* apply_paper_trade_through, cancel_paper_order).
ReservationsBacked ==
  /\ account.reserved = SumFunctionOnSet([i \in Intents |-> paper[i].reserved], Buys)
  /\ \A t \in Tokens :
       inventory[t].reserved = SumFunctionOnSet([i \in Intents |-> paper[i].reserved],
                                                Placed("SELL", t))
  /\ \A i \in Intents : paper[i].state \notin RestingState => paper[i].reserved = 0
  /\ account.reserved <= account.balance
  /\ \A t \in Tokens : inventory[t].reserved <= inventory[t].shares

\* LedgerConserves: cash and shares come only from the configuration and from the
\* fills recorded on the orders: whatever events, submissions and cancellations
\* interleave, no fill is charged or credited twice or forgotten
\* (apply_paper_trade_through, commit_paper_order).
LedgerConserves ==
  opened =>
    /\ account.balance = config.quote * FeeDen
         - SumFunctionOnSet([i \in Intents |-> WithFee(paper[i].quote)], Buys)
         + SumFunctionOnSet([i \in Intents |-> LessFee(paper[i].quote)], Sells)
    /\ \A t \in Tokens :
         inventory[t].shares = config.shares[t]
           + SumFunctionOnSet([i \in Intents |-> paper[i].filled], Placed("BUY", t))
           - SumFunctionOnSet([i \in Intents |-> paper[i].filled], Placed("SELL", t))

\* NeverOverdrawn: no trade the stream could deliver next makes the transaction of
\* a trade-through fail, which would lose the fill: every resting order can be
\* filled at any price that crosses it (apply_paper_trade_through).
NeverOverdrawn ==
  \A t \in Tokens, price \in 1..(TickCount - 1) :
    ~SweepBook(MaxEvents, t, price, Qty * Len(book), Len(book)).overdrawn

\* PriceProtected: no order pays more, or receives less, than its limit price, and
\* a resting order is never filled by a trade that only touches its price
\* (walk_book, crossed).
PriceProtected ==
  \A i \in DOMAIN request :
    LET r == request[i] IN
    /\ IF IsBuy(i) THEN paper[i].quote <= paper[i].filled * r.price
                   ELSE paper[i].quote >= paper[i].filled * r.price
    /\ r.tif = "GTC" /\ paper[i].filled > 0 => paper[i].quote # paper[i].filled * r.price
=============================================================================
