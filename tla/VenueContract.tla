---------------------------- MODULE VenueContract ----------------------------
(***************************************************************************)
(* What the coordinator relies on from an ExecutionVenue (venue/mod.rs):   *)
(* the life of one order per intent at the venue, and the lots matched for *)
(* it.  A submission whose reply is lost is in flight: it may arrive later *)
(* or never.  An order is closed for good once it is FILLED or CANCELLED;  *)
(* nothing is matched before it arrives or after it is closed.             *)
(***************************************************************************)
EXTENDS Naturals

CONSTANTS Orders,  \* the intents, each with at most one order
          Lots     \* quantity of an order

VARIABLES state,   \* "none", "inflight", "LIVE", "FILLED" or "CANCELLED"
          lots     \* lots matched so far

venueContractVars == <<state, lots>>

ContractInit ==
  /\ state = [o \in Orders |-> "none"]
  /\ lots = [o \in Orders |-> 0]

\* The request is on its way, or turns out never to arrive.
InTransit(o) ==
  /\ state[o] \in {"none", "inflight"} /\ state'[o] \in {"none", "inflight"}
  /\ lots'[o] = lots[o]

\* The order is accepted: it rests, is matched at once, or what is not matched at
\* once is dropped.
Arrives(o) ==
  /\ state[o] \in {"none", "inflight"}
  /\ state'[o] \in {"LIVE", "FILLED", "CANCELLED"}
  /\ lots'[o] \in 0..Lots
  /\ state'[o] = "LIVE" => lots'[o] < Lots
  /\ state'[o] = "FILLED" => lots'[o] > 0

\* A resting order is matched further; it is FILLED with its last lot.
Matches(o) ==
  /\ state[o] = "LIVE"
  /\ lots'[o] \in (lots[o] + 1)..Lots
  /\ state'[o] = IF lots'[o] = Lots THEN "FILLED" ELSE "LIVE"

Cancels(o) ==
  /\ state[o] = "LIVE" /\ state'[o] = "CANCELLED"
  /\ lots'[o] = lots[o]

Stays(o) == state'[o] = state[o] /\ lots'[o] = lots[o]

\* One step of the program may move several orders (a trade that sweeps the
\* book, a cancellation of all orders), each along its own life.
ContractNext ==
  /\ DOMAIN state' = Orders /\ DOMAIN lots' = Orders
  /\ \A o \in Orders :
       InTransit(o) \/ Arrives(o) \/ Matches(o) \/ Cancels(o) \/ Stays(o)

ContractSpec == ContractInit /\ [][ContractNext]_venueContractVars
=============================================================================
