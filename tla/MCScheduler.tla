---------------------------- MODULE MCScheduler ----------------------------
(* An instance of Scheduler for TLC: two servers.                          *)
EXTENDS Scheduler, TLC

CONSTANTS s1, s2

MCServers == {s1, s2}

=============================================================================
