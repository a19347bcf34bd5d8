----------------------------- MODULE MCEconomy ------------------------------
(* An instance of Economy for TLC: two opposite transfers, one of them     *)
(* with the system wallet too, next to a conversion of the same player     *)
(* that may come under the key of a transfer.                              *)
EXTENDS Economy, TLC

CONSTANTS m1, m2, c1, k1, k2, r1, nobody

MCMovers == {m1, m2}
MCConverters == {c1}
MCOwners == {m1, m2, c1}
MCKeys == {k1, k2}
MCReservations == {r1}

(* The system wallet is 0.                                                 *)
MCBalance == (0 :> 1) @@ (1 :> 1) @@ (2 :> 1)
MCRules == "RESOURCE_TO_CURRENCY" :> [price |-> 1, min |-> 1, max |-> 1]

Transfer(k, from, to) ==
  [key |-> k, from |-> from, to |-> to, amount |-> 1, correlation |-> 0]

MCCalls == {Transfer(k1, 1, 2), Transfer(k2, 2, 1), Transfer(k2, 0, 1)}

MCRequests ==
  {[op |-> "prepare", id |-> r1, wallet |-> 1, units |-> 1,
    direction |-> "RESOURCE_TO_CURRENCY"],
   [op |-> "commit", id |-> r1, key |-> k1],
   [op |-> "abort", id |-> r1]}

MoverSymmetry == Permutations(MCMovers)

=============================================================================
