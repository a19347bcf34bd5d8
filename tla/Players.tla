------------------------------ MODULE Players -------------------------------
(***************************************************************************)
(* PlayerService and TransitionService.  register_player saves the player, *)
(* his wallet and an event by statements of their own, outside of any      *)
(* transaction, and publishes the event; several tasks may register one    *)
(* player at once, and a call may stop after each statement.               *)
(* get_player_snapshot reads the player and then the wallet.  The calls    *)
(* for transition tickets find nothing and change nothing, see below.      *)
(***************************************************************************)
EXTENDS Naturals, Sequences

CONSTANTS
  Tasks,      \* server tasks that run calls
  Ids,        \* player ids
  Names,      \* the usernames that clients send
  Storable,   \* those of them that fit into players.username
  Requests    \* the calls that are made

Calls ==
  [op : {"register"}, player : Ids, name : Names]
    \cup [op : {"snapshot", "begin"}, player : Ids]
    \cup [op : {"claim", "commit", "abort"}]

ASSUME PlayersAssumption == Storable \subseteq Names /\ Requests \subseteq Calls

VARIABLES
  players,   \* rows of players: the username of each id
  purses,    \* the players that have a row in wallets
  log,       \* rows of domain_events, in order
  queue,     \* the events the publisher has accepted
  broken,    \* the players whose registration stopped after their row was saved
  pc, job,   \* where each task is, and the call it runs or ran last
  reply      \* what the task's last call was answered

tableVars == <<players, purses, log, queue, broken>>
vars == <<tableVars, pc, job, reply>>

Replies ==
  [result : {"none", "ok", "PlayerNotFound", "InternalError"}, name : Names \cup {"none"},
   purse : BOOLEAN]
NoReply == [result |-> "none", name |-> "none", purse |-> FALSE]
Error(e) == [NoReply EXCEPT !.result = e]
Registered(name) == [NoReply EXCEPT !.result = "ok", !.name = name]
Snapshot(name, purse) == [result |-> "ok", name |-> name, purse |-> purse]

PlayerRegistered(c) == [player |-> c.player, name |-> c.name]

Init ==
  /\ players = [p \in {} |-> "none"]
  /\ purses = {}
  /\ log = <<>>
  /\ queue = <<>>
  /\ broken = {}
  /\ pc = [t \in Tasks |-> "idle"]
  /\ job = [t \in Tasks |-> [op |-> "none"]]
  /\ reply = [t \in Tasks |-> NoReply]

Known(p) == p \in DOMAIN players

Goto(t, label) == pc' = [pc EXCEPT ![t] = label]

Take(t, c) ==
  /\ pc[t] = "idle"
  /\ job' = [job EXCEPT ![t] = c]

Finish(t, r) ==
  /\ Goto(t, "idle")
  /\ reply' = [reply EXCEPT ![t] = r]

Await(t, c, label) ==
  /\ Take(t, c)
  /\ Goto(t, label)
  /\ reply' = [reply EXCEPT ![t] = NoReply]
  /\ UNCHANGED tableVars

-----------------------------------------------------------------------------
(* register_player.                                                        *)

(* Mutant: the answer repeats what the client has sent.                    *)
AnswerAsAsked(t, c) ==
  /\ c.op = "register"
  /\ Take(t, c)
  /\ Known(c.player)
  /\ Finish(t, Registered(c.name))
  /\ UNCHANGED tableVars

(* A player who is there is the answer, with the name he was given then.   *)
AnswerRegister(t, c) ==
  /\ c.op = "register"
  /\ Take(t, c)
  /\ Known(c.player)
  /\ Finish(t, Registered(players[c.player]))
  /\ UNCHANGED tableVars

BeginRegister(t, c) ==
  /\ c.op = "register"
  /\ ~Known(c.player)
  /\ Await(t, c, "player")

(* Mutant: the column takes any name.                                      *)
AnyName(name) == TRUE

Fits(name) == name \in Storable

Player(c) == [p \in DOMAIN players \cup {c.player} |->
                IF p = c.player THEN c.name ELSE players[p]]

(* Mutant: INSERT ... ON CONFLICT DO NOTHING.                              *)
SaveOrIgnore(t) ==
  LET c == job[t] IN
  /\ pc[t] = "player"
  /\ Fits(c.name)
  /\ IF Known(c.player) THEN UNCHANGED players ELSE players' = Player(c)
  /\ Goto(t, "wallet")
  /\ UNCHANGED <<purses, log, queue, broken, job, reply>>

SavePlayer(t) ==
  LET c == job[t] IN
  /\ pc[t] = "player"
  /\ Fits(c.name)
  /\ ~Known(c.player)
  /\ players' = Player(c)
  /\ Goto(t, "wallet")
  /\ UNCHANGED <<purses, log, queue, broken, job, reply>>

(* The name is too long, or the id is taken: the primary key.              *)
RejectPlayer(t) ==
  /\ pc[t] = "player"
  /\ ~Fits(job[t].name) \/ Known(job[t].player)
  /\ Finish(t, Error("InternalError"))
  /\ UNCHANGED <<tableVars, job>>

(* A player has one wallet of a currency: the INSERT fails otherwise.      *)
SaveWallet(t) ==
  /\ pc[t] = "wallet"
  /\ job[t].player \notin purses
  /\ purses' = purses \cup {job[t].player}
  /\ Goto(t, "log")
  /\ UNCHANGED <<players, log, queue, broken, job, reply>>

AppendEvent(t) ==
  /\ pc[t] = "log"
  /\ log' = Append(log, PlayerRegistered(job[t]))
  /\ Goto(t, "publish")
  /\ UNCHANGED <<players, purses, queue, broken, job, reply>>

Publish(t) ==
  /\ pc[t] = "publish"
  /\ queue' = Append(queue, PlayerRegistered(job[t]))
  /\ Finish(t, Registered(job[t].name))
  /\ UNCHANGED <<players, purses, log, broken, job>>

-----------------------------------------------------------------------------
(* get_player_snapshot: two SELECTs, which are not of one transaction.     *)

RejectSnapshot(t, c) ==
  /\ c.op = "snapshot"
  /\ Take(t, c)
  /\ ~Known(c.player)
  /\ Finish(t, Error("PlayerNotFound"))
  /\ UNCHANGED tableVars

FindPlayer(t, c) ==
  /\ c.op = "snapshot"
  /\ Known(c.player)
  /\ Await(t, c, "snapshot")

FindWallet(t) ==
  LET p == job[t].player IN
  /\ pc[t] = "snapshot"
  /\ Finish(t, Snapshot(players[p], p \in purses))
  /\ UNCHANGED <<tableVars, job>>

-----------------------------------------------------------------------------
(* Transition tickets.  They are to be kept in domain_events, but every    *)
(* statement names a column event_type that no migration gives that table, *)
(* and a ticket is looked for nowhere: all calls end in an error.          *)

TicketError == Error("InternalError")

BeginTransition(t, c) ==
  /\ c.op = "begin"
  /\ Take(t, c)
  /\ Finish(t, IF Known(c.player) THEN TicketError ELSE Error("PlayerNotFound"))
  /\ UNCHANGED tableVars

ClaimTransition(t, c) ==
  /\ c.op = "claim"
  /\ Take(t, c)
  /\ Finish(t, TicketError)
  /\ UNCHANGED tableVars

EndTransition(t, c) ==
  /\ c.op \in {"commit", "abort"}
  /\ Take(t, c)
  /\ Finish(t, TicketError)
  /\ UNCHANGED tableVars

-----------------------------------------------------------------------------
(* A statement fails, and the client is told, or the task is dropped.      *)
(* What the call has saved so far stays; no later call goes on with it.    *)
BreakOff(t) ==
  /\ pc[t] # "idle"
  /\ broken' = IF pc[t] \in {"wallet", "log", "publish"}
               THEN broken \cup {job[t].player} ELSE broken
  /\ \E r \in {NoReply, Error("InternalError")} : Finish(t, r)
  /\ UNCHANGED <<players, purses, log, queue, job>>

Receive(t, c) ==
  \/ AnswerRegister(t, c) \/ BeginRegister(t, c)
  \/ RejectSnapshot(t, c) \/ FindPlayer(t, c)
  \/ BeginTransition(t, c) \/ ClaimTransition(t, c) \/ EndTransition(t, c)

TaskStep(t) ==
  \/ SavePlayer(t) \/ RejectPlayer(t) \/ SaveWallet(t) \/ AppendEvent(t) \/ Publish(t)
  \/ FindWallet(t)

Next ==
  \/ \E t \in Tasks, c \in Requests : Receive(t, c)
  \/ \E t \in Tasks : TaskStep(t) \/ BreakOff(t)

Spec == Init /\ [][Next]_vars

-----------------------------------------------------------------------------
(* Properties.                                                             *)

Events == [player : Ids, name : Storable]

(* The type of every variable; no stored name is longer than its column.   *)
TypeOK ==
  /\ DOMAIN players \subseteq Ids
  /\ players \in [DOMAIN players -> Storable]
  /\ purses \subseteq Ids
  /\ log \in Seq(Events)
  /\ queue \in Seq(Events)
  /\ broken \subseteq Ids
  /\ pc \in [Tasks -> {"idle", "player", "wallet", "log", "publish", "snapshot"}]
  /\ job \in [Tasks -> Requests \cup {[op |-> "none"]}]
  /\ reply \in [Tasks -> Replies]

Logged(p) == \E i \in DOMAIN log : log[i].player = p
Published(p) == \E i \in DOMAIN queue : queue[i].player = p

(* The log and the queue tell of a player once, under the name of his row, *)
(* however many tasks try to register him.                                 *)
ToldOnce(events) ==
  /\ \A i, j \in DOMAIN events : events[i].player = events[j].player => i = j
  /\ \A i \in DOMAIN events :
       Known(events[i].player) /\ events[i].name = players[events[i].player]

(* Once the row is there, one task at most works on the registration, and  *)
(* the player has just what it has saved so far.                           *)
Works(t, p) == pc[t] \in {"wallet", "log", "publish"} /\ job[t].player = p

InWork(p) ==
  \E t \in Tasks :
    /\ Works(t, p)
    /\ p \in purses <=> pc[t] # "wallet"
    /\ Logged(p) <=> pc[t] = "publish"
    /\ \A u \in Tasks \ {t} : ~Works(u, p)

(* A registration never gets ahead of itself: who is published is logged,  *)
(* who is logged has a wallet, who has a wallet has a row.  A player who   *)
(* lacks one of them is in work, or his registration has broken off and    *)
(* he lacks it for good: two tasks never leave him half registered.        *)
RegistrationTrail ==
  /\ purses \subseteq DOMAIN players
  /\ ToldOnce(log)
  /\ ToldOnce(queue)
  /\ \A p \in DOMAIN players :
       /\ Published(p) => Logged(p)
       /\ Logged(p) => p \in purses
       /\ p \in broken => ~Published(p)
       /\ Published(p) \/ InWork(p) \/ p \in broken

(* A client is told the name under which the player is stored, even if it  *)
(* has asked for another, and a wallet only if there is one.               *)
AnswersHonest ==
  \A t \in Tasks : reply[t].result = "ok" =>
    /\ Known(job[t].player)
    /\ reply[t].name = players[job[t].player]
    /\ reply[t].purse => job[t].player \in purses

(* The inductive invariant: what a task that is not idle is about, and     *)
(* that it works alone on a registration that has not broken off.          *)
JobInv ==
  \A t \in Tasks :
    /\ pc[t] # "idle" => job[t] \in Requests
    /\ pc[t] \in {"player", "wallet", "log", "publish"} => job[t].op = "register"
    /\ pc[t] = "snapshot" => job[t].op = "snapshot" /\ Known(job[t].player)

WorkInv ==
  \A t \in Tasks, p \in Ids : Works(t, p) =>
    /\ Known(p)
    /\ players[p] = job[t].name
    /\ p \notin broken
    /\ ~Published(p)
    /\ p \in purses <=> pc[t] # "wallet"
    /\ Logged(p) <=> pc[t] = "publish"
    /\ \A u \in Tasks \ {t} : ~Works(u, p)

IInv ==
  /\ TypeOK
  /\ JobInv
  /\ WorkInv
  /\ broken \subseteq DOMAIN players
  /\ RegistrationTrail
  /\ AnswersHonest

=============================================================================
