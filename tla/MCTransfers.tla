---------------------------- MODULE MCTransfers -----------------------------
(* An instance of Transfers for TLC: two opposite transfers, a retry of    *)
(* one of them with the same fingerprint, one with another correlation id, *)
(* a transfer that cannot be paid or does not fit, a reused key and calls  *)
(* that are refused at once.                                               *)
EXTENDS Transfers, TLC

CONSTANTS t1, t2, k1, k2, k3, nobody

MCTasks == {t1, t2}
MCKeys == {k1, k2, k3}
MCBalance == (1 :> 2) @@ (2 :> 1) @@ (3 :> 0)

Transfer(k, from, to, amount) ==
  [key |-> k, from |-> from, to |-> to, amount |-> amount, correlation |-> 0]

MCCalls ==
  {Transfer(k1, 1, 2, 1), Transfer(k2, 2, 1, 1), Transfer(k3, 2, 3, 2),
   Transfer(k1, 3, 2, 1), Transfer(k2, 1, 1, 1), Transfer(k3, 1, 9, 1),
   Transfer(k3, 2, 3, 0), [Transfer(k1, 1, 2, 1) EXCEPT !.correlation = 1]}

=============================================================================
