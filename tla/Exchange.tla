------------------------------ MODULE Exchange ------------------------------
(***************************************************************************)
(* What a conversion promises: a price is offered to a player, and the     *)
(* offer is then paid in one step, once and to the last coin, or closed    *)
(* for ever.  Nothing else moves a balance, and no offer is forgotten or   *)
(* changed.  Conversions implements this with reservations, row locks and  *)
(* an idempotency log.                                                     *)
(***************************************************************************)
EXTENDS Integers

CONSTANTS Offers, Players, Wallets, InitialBalance, MaxBalance

VARIABLES offers, balances

exchangeVars == <<offers, balances>>

Init ==
  /\ offers = [i \in {} |-> {}]
  /\ balances = InitialBalance

Open(i) == i \in DOMAIN offers /\ offers[i].status = "PREPARED"

Offer(i, wallet, price) ==
  /\ i \notin DOMAIN offers
  /\ offers' = [o \in DOMAIN offers \cup {i} |->
       IF o = i THEN [status |-> "PREPARED", wallet |-> wallet, price |-> price] ELSE offers[o]]
  /\ UNCHANGED balances

Pay(i) ==
  LET x == offers[i].wallet IN
  /\ Open(i)
  /\ x \in Wallets
  /\ offers[i].price > 0
  /\ balances[x] + offers[i].price <= MaxBalance
  /\ offers' = [offers EXCEPT ![i].status = "COMMITTED"]
  /\ balances' = [balances EXCEPT ![x] = @ + offers[i].price]

Close(i) ==
  /\ Open(i)
  /\ \E status \in {"ABORTED", "EXPIRED"} : offers' = [offers EXCEPT ![i].status = status]
  /\ UNCHANGED balances

Next ==
  \E i \in Offers :
    \/ \E x \in Players, price \in 0..MaxBalance : Offer(i, x, price)
    \/ Pay(i)
    \/ Close(i)

Spec == Init /\ [][Next]_exchangeVars

=============================================================================
