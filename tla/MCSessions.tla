----------------------------- MODULE MCSessions -----------------------------
(* An instance of Sessions for TLC: two tasks that call for one player,    *)
(* with room for two sessions.                                             *)
EXTENDS Sessions, TLC

CONSTANTS t1, t2, p1, s1, s2, nobody

MCTasks == {t1, t2}
MCPlayers == {p1}
MCServers == {s1, s2}

(* One server creates and hands over, the other takes over: every state    *)
(* meets every operation, and both answers of the ownership check happen.  *)
MCRequests ==
  {[op |-> "create", player |-> p1, server |-> s1],
   [op |-> "reconnect", player |-> p1, server |-> s2],
   [op |-> "transition", player |-> p1, from |-> s1, to |-> s2]}
    \cup [op : {"heartbeat", "terminate"}, id : 1..2]

=============================================================================
