------------------------------- MODULE Ledger -------------------------------
(***************************************************************************)
(* What the economy promises: a transfer happens in one step, at most once *)
(* per request id, moves money a wallet has, and is recorded by the same   *)
(* step.  Transfers implements this with several SQL statements of several *)
(* concurrent transactions.                                                *)
(***************************************************************************)
EXTENDS Integers, Sequences

CONSTANTS Keys, Wallets, InitialBalance, MaxBalance

VARIABLES wallets, ledger

ledgerVars == <<wallets, ledger>>

Init ==
  /\ wallets = [x \in Wallets |-> [balance |-> InitialBalance[x], revision |-> 0]]
  /\ ledger = <<>>

Unused(k) == \A i \in DOMAIN ledger : ledger[i].request_id # k

Post(k, s, d, a) ==
  /\ Unused(k)
  /\ s # d
  /\ wallets[s].balance >= a
  /\ wallets[d].balance + a <= MaxBalance
  /\ wallets' = [wallets EXCEPT
                   ![s] = [balance |-> @.balance - a, revision |-> @.revision + 1],
                   ![d] = [balance |-> @.balance + a, revision |-> @.revision + 1]]
  /\ ledger' = Append(ledger, [request_id |-> k, tx_type |-> "PLAYER_TRANSFER",
                               source |-> s, dest |-> d, amount |-> a])

Next ==
  \E k \in Keys, s, d \in Wallets, a \in 1..MaxBalance : Post(k, s, d, a)

Spec == Init /\ [][Next]_ledgerVars

=============================================================================
