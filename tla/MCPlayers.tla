----------------------------- MODULE MCPlayers ------------------------------
(* An instance of Players for TLC: two tasks that register two players,    *)
(* one of them under two names and under one that is too long.             *)
EXTENDS Players, TLC

CONSTANTS t1, t2, p1, p2

MCTasks == {t1, t2}
MCIds == {p1, p2}

Register(p, name) == [op |-> "register", player |-> p, name |-> name]

MCRequests ==
  {Register(p1, "ann"), Register(p1, "bob"), Register(p1, "longer"), Register(p2, "ann")}
    \cup [op : {"snapshot", "begin"}, player : {p1}]
    \cup [op : {"claim", "commit", "abort"}]

=============================================================================
