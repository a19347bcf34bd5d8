--------------------------- MODULE MCConversions ----------------------------
(* An instance of Conversions for TLC: two reservations of one player,     *)
(* committed under two keys and aborted, next to calls that are refused:   *)
(* no player, no wallet, nothing to convert, no rule, a price that does    *)
(* not fit.                                                                *)
EXTENDS Conversions, TLC

CONSTANTS t1, t2, k1, k2, r1, r2, nobody

MCTasks == {t1, t2}
MCKeys == {k1, k2}
MCReservations == {r1, r2}

(* The system wallet is that of player 0; player 1 has a wallet, player 2 has none.       *)
MCBalance == (0 :> 0) @@ (1 :> 0)
MCRules ==
  ("RESOURCE_TO_CURRENCY" :> [price |-> 1, min |-> 1, max |-> 3]) @@
  ("CURRENCY_TO_RESOURCE" :> [price |-> 0, min |-> 1, max |-> 1])

Prepare(i, player, units, direction) ==
  [op |-> "prepare", id |-> i, wallet |-> player, units |-> units, direction |-> direction]
Commit(i, k) == [op |-> "commit", id |-> i, key |-> k]
Abort(i) == [op |-> "abort", id |-> i]

MCRequests ==
  {Prepare(r1, 1, 1, "RESOURCE_TO_CURRENCY"), Prepare(r1, 1, 3, "RESOURCE_TO_CURRENCY"),
   Prepare(r2, 1, 2, "RESOURCE_TO_CURRENCY"), Prepare(r2, 1, 0, "RESOURCE_TO_CURRENCY"),
   Prepare(r2, 2, 1, "RESOURCE_TO_CURRENCY"), Prepare(r2, 1, 1, "CURRENCY_TO_RESOURCE"),
   Prepare(r2, 0, 1, "RESOURCE_TO_CURRENCY"), Prepare(r2, 1, 1, "UNSPECIFIED"),
   Commit(r1, k1), Commit(r1, k2), Commit(r2, k1), Abort(r1)}

(* The currency-to-resource rule has a price here.                         *)
MCPricedRules ==
  [d \in {"RESOURCE_TO_CURRENCY", "CURRENCY_TO_RESOURCE"} |->
     [price |-> 1, min |-> 1, max |-> 3]]
MCBuying ==
  {Prepare(r1, 1, 1, "RESOURCE_TO_CURRENCY"), Prepare(r2, 1, 1, "CURRENCY_TO_RESOURCE"),
   Commit(r1, k1), Commit(r2, k2)}

TaskSymmetry == Permutations(MCTasks)

=============================================================================
