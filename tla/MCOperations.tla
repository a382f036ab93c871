---------------------------- MODULE MCOperations ----------------------------
(***************************************************************************)
(* Operations with a backup and a client of the event stream, or with two  *)
(* requests: of one key or two, equal or not, under the same or different  *)
(* gates or none.                                                          *)
(***************************************************************************)
EXTENDS Operations

CONSTANTS r1, r2

Ask(key, op, body) == [key |-> key, op |-> op, body |-> body]
Both(first, second) ==
  [ask |-> (r1 :> first) @@ (r2 :> second), watched |-> FALSE]

MCScenarios ==
  {[ask |-> (r1 :> Ask("k1", "backup", "x")), watched |-> TRUE],
   Both(Ask("k1", "backup", "x"), Ask("k2", "backup", "x")),
   Both(Ask("k1", "backup", "x"), Ask("k1", "backup", "x")),
   Both(Ask("k1", "intent", "x"), Ask("k1", "intent", "x")),
   Both(Ask("k1", "intent", "x"), Ask("k1", "intent", "y")),
   Both(Ask("k1", "intent", "x"), Ask("k1", "control.halt", "x")),
   Both(Ask("k1", "cancellation", "x"), Ask("k1", "reconciliation", "x"))}
=============================================================================
