------------------------------ MODULE MCOutbox ------------------------------
(* An instance of Outbox for TLC: two servers, and one event more than a   *)
(* batch holds.                                                            *)
EXTENDS Outbox, TLC

CONSTANTS w1, w2

MCWorkers == {w1, w2}

=============================================================================
