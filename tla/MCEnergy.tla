------------------------------ MODULE MCEnergy ------------------------------
(* An instance of Energy for TLC: a plant with a battery and a town, with  *)
(* readings that leave the grid in every mode, one that does not fit into  *)
(* the sums, and calls that the table refuses.                             *)
EXTENDS Energy, TLC

CONSTANTS t1, t2, s1, s2

MCTasks == {t1, t2}
MCServers == {s1, s2}

MCRegistrations ==
  {[type |-> "HYBRID", capacity |-> 3, room |-> 2],
   [type |-> "CONSUMER", capacity |-> 3, room |-> 0],
   [type |-> "STORAGE", capacity |-> -1, room |-> 1]}

Reading(n, production, consumption, stored) ==
  [node |-> n, production |-> production, consumption |-> consumption, stored |-> stored]

MCObservations ==
  {Reading(1, 2, 0, 1), Reading(2, 1, 3, 2), Reading(2, -1, 3, 0)}

=============================================================================
