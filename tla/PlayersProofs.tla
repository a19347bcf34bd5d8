--------------------------- MODULE PlayersProofs ----------------------------
(***************************************************************************)
(* Proofs about Players for any number of tasks, players, names and calls. *)
(***************************************************************************)
EXTENDS Players, TLAPS

USE PlayersAssumption

-----------------------------------------------------------------------------
(* What the calls and the answers are made of.                             *)
LEMMA RequestTypes ==
  ASSUME NEW c \in Requests
  PROVE  /\ c.op \in {"register", "snapshot", "begin"} => c.player \in Ids
         /\ c.op = "register" => c.name \in Names
  BY DEF Calls

LEMMA ReplyTypes ==
  /\ NoReply \in Replies /\ NoReply.result = "none"
  /\ \A e \in {"PlayerNotFound", "InternalError"} :
       Error(e) \in Replies /\ Error(e).result # "ok"
  /\ \A name \in Names : /\ Registered(name) \in Replies
                         /\ Registered(name).name = name
                         /\ Registered(name).purse = FALSE
  /\ \A name \in Names, purse \in BOOLEAN :
       /\ Snapshot(name, purse) \in Replies
       /\ Snapshot(name, purse).name = name
       /\ Snapshot(name, purse).purse = purse
<1> USE DEF NoReply, Replies
<1>1. NoReply \in Replies /\ NoReply.result = "none"
  OBVIOUS
<1>2. \A e \in {"PlayerNotFound", "InternalError"} :
        Error(e) \in Replies /\ Error(e).result # "ok"
  BY DEF Error
<1>3. ASSUME NEW name \in Names
      PROVE  /\ Registered(name) \in Replies
             /\ Registered(name).name = name
             /\ Registered(name).purse = FALSE
  BY DEF Registered
<1>4. ASSUME NEW name \in Names, NEW purse \in BOOLEAN
      PROVE  /\ Snapshot(name, purse) \in Replies
             /\ Snapshot(name, purse).name = name
             /\ Snapshot(name, purse).purse = purse
  BY DEF Snapshot
<1> QED
  BY <1>1, <1>2, <1>3, <1>4

(* The initial state satisfies the inductive invariant.                    *)
LEMMA InitIInv == Init => IInv
<1> SUFFICES ASSUME Init PROVE IInv
  OBVIOUS
<1> USE DEF Init
<1>1. TypeOK
  BY ReplyTypes DEF TypeOK
<1>2. JobInv /\ WorkInv
  BY DEF JobInv, WorkInv, Works
<1>3. RegistrationTrail
  BY DEF RegistrationTrail, ToldOnce
<1>4. AnswersHonest
  BY ReplyTypes DEF AnswersHonest
<1> QED
  BY <1>1, <1>2, <1>3, <1>4 DEF IInv

-----------------------------------------------------------------------------
(* A task that works on no registration may do what it likes with its own  *)
(* variables, as long as it tells the truth: it begins, it reads, or it    *)
(* answers.                                                                *)
LEMMA IdleIInv ==
  ASSUME IInv, NEW t \in Tasks, UNCHANGED tableVars,
         pc[t] \in {"idle", "player", "snapshot"},
         NEW c \in Requests, NEW label \in {"idle", "player", "snapshot"}, NEW r \in Replies,
         job' = [job EXCEPT ![t] = c],
         pc' = [pc EXCEPT ![t] = label],
         reply' = [reply EXCEPT ![t] = r],
         label = "player" => c.op = "register",
         label = "snapshot" => c.op = "snapshot" /\ Known(c.player),
         r.result = "ok" => /\ Known(c.player)
                            /\ r.name = players[c.player]
                            /\ r.purse => c.player \in purses
  PROVE  IInv'
<1> USE DEF tableVars
<1>1. TypeOK'
  BY DEF IInv, TypeOK
<1>2. \A u \in Tasks : /\ u = t => pc'[u] = label /\ job'[u] = c /\ reply'[u] = r
                       /\ u # t => /\ pc'[u] = pc[u]
                                   /\ job'[u] = job[u]
                                   /\ reply'[u] = reply[u]
  BY DEF IInv, TypeOK
<1>3. JobInv'
  BY <1>2 DEF IInv, JobInv, Known
<1>4. \A u \in Tasks, p \in Ids : Works(u, p)' <=> Works(u, p)
  BY <1>2 DEF Works
<1>5. WorkInv'
  BY <1>2, <1>4 DEF IInv, WorkInv, Works, Known, Published, Logged
<1>6. ASSUME NEW p \in Ids PROVE InWork(p) => InWork(p)'
  BY <1>2, <1>4 DEF InWork, Works, Logged
<1>7. RegistrationTrail'
  BY <1>6 DEF IInv, TypeOK, RegistrationTrail, ToldOnce, Known, Published, Logged
<1>8. AnswersHonest'
  BY <1>2 DEF IInv, AnswersHonest, Known
<1> QED
  BY <1>1, <1>3, <1>5, <1>7, <1>8 DEF IInv

-----------------------------------------------------------------------------
(* What a task knows that works on a registration.                         *)
LEMMA WorkFacts ==
  ASSUME IInv, NEW t \in Tasks, pc[t] \in {"wallet", "log", "publish"}
  PROVE  /\ job[t] \in Requests /\ job[t].op = "register" /\ job[t].player \in Ids
         /\ Works(t, job[t].player)
         /\ Known(job[t].player) /\ players[job[t].player] = job[t].name
         /\ job[t].name \in Storable
         /\ job[t].player \notin broken /\ ~Published(job[t].player)
         /\ job[t].player \in purses <=> pc[t] # "wallet"
         /\ Logged(job[t].player) <=> pc[t] = "publish"
         /\ \A u \in Tasks \ {t} : ~Works(u, job[t].player)
         /\ PlayerRegistered(job[t]) \in Events
<1>1. job[t] \in Requests /\ job[t].op = "register" /\ job[t].player \in Ids
  BY RequestTypes DEF IInv, JobInv
<1>2. Works(t, job[t].player)
  BY DEF Works
<1>3. Known(job[t].player) /\ players[job[t].player] = job[t].name
  BY <1>1, <1>2 DEF IInv, WorkInv
<1>4. job[t].name \in Storable
  BY <1>3 DEF IInv, TypeOK, Known
<1> QED
  BY <1>1, <1>2, <1>3, <1>4 DEF IInv, WorkInv, PlayerRegistered, Events

(* The INSERT of a player: there was nothing about him before.             *)
LEMMA SavePlayerIInv ==
  ASSUME IInv, NEW t \in Tasks, SavePlayer(t)
  PROVE  IInv'
<1> DEFINE q == job[t].player
<1> USE DEF SavePlayer, Goto
<1>1. /\ job[t] \in Requests /\ job[t].op = "register" /\ q \in Ids /\ job[t].name \in Storable
      /\ ~Known(q)
  BY RequestTypes DEF IInv, JobInv, Fits
<1>2. /\ players' = Player(job[t])
      /\ pc' = [pc EXCEPT ![t] = "wallet"]
      /\ UNCHANGED <<purses, log, queue, broken, job, reply>>
  OBVIOUS
<1>3. /\ DOMAIN players' = DOMAIN players \cup {q}
      /\ players'[q] = job[t].name
      /\ \A p \in DOMAIN players : players'[p] = players[p]
  BY <1>1, <1>2 DEF Player, Known
<1>4. \A u \in Tasks : /\ u = t => pc'[u] = "wallet" /\ pc[u] = "player"
                       /\ u # t => pc'[u] = pc[u]
  BY DEF IInv, TypeOK
<1>5. q \notin purses /\ q \notin broken /\ ~Logged(q) /\ ~Published(q)
      /\ \A u \in Tasks : ~Works(u, q)
  <2>1. q \notin purses /\ q \notin broken
    BY <1>1 DEF IInv, RegistrationTrail, Known
  <2>2. ~Logged(q)
    BY <1>1 DEF IInv, RegistrationTrail, ToldOnce, Logged
  <2>3. ~Published(q)
    BY <1>1 DEF IInv, RegistrationTrail, ToldOnce, Published
  <2>4. \A u \in Tasks : ~Works(u, q)
    BY <1>1 DEF IInv, WorkInv
  <2> QED
    BY <2>1, <2>2, <2>3, <2>4
<1>6. TypeOK'
  <2>1. players' \in [DOMAIN players' -> Storable] /\ DOMAIN players' \subseteq Ids
    BY <1>1, <1>2, <1>3 DEF IInv, TypeOK, Player
  <2> QED
    BY <1>2, <2>1 DEF IInv, TypeOK
<1>7. JobInv'
  BY <1>1, <1>2, <1>3, <1>4 DEF IInv, JobInv, Known
<1>8. \A u \in Tasks, p \in Ids : Works(u, p)' <=> Works(u, p) \/ (u = t /\ p = q)
  BY <1>2, <1>4 DEF Works
<1>9. WorkInv'
  <2> SUFFICES ASSUME NEW u \in Tasks, NEW p \in Ids, Works(u, p)'
               PROVE  /\ p \in DOMAIN players' /\ players'[p] = job[u].name
                      /\ p \notin broken /\ ~Published(p)
                      /\ p \in purses <=> pc'[u] # "wallet"
                      /\ Logged(p) <=> pc'[u] = "publish"
                      /\ \A v \in Tasks \ {u} : ~Works(v, p)'
    BY <1>2 DEF WorkInv, Known, Published, Logged
  <2>1. CASE u = t
    <3>1. p = q
      BY <1>2, <2>1 DEF Works
    <3> QED
      BY <1>3, <1>4, <1>5, <1>8, <2>1, <3>1
  <2>2. CASE u # t
    <3>1. Works(u, p) /\ p # q
      BY <1>5, <1>8, <2>2
    <3> QED
      BY <1>3, <1>4, <1>8, <2>2, <3>1 DEF IInv, WorkInv, Known
  <2> QED
    BY <2>1, <2>2
<1>10. \A p \in Ids : InWork(p) => InWork(p)'
  <2> SUFFICES ASSUME NEW p \in Ids, NEW u \in Tasks, Works(u, p),
                      p \in purses <=> pc[u] # "wallet", Logged(p) <=> pc[u] = "publish",
                      \A v \in Tasks \ {u} : ~Works(v, p)
               PROVE  InWork(p)'
    BY DEF InWork
  <2>1. u # t /\ p # q
    BY <1>4, <1>5 DEF Works
  <2> QED
    BY <1>2, <1>4, <1>8, <2>1 DEF InWork, Logged
<1>11. InWork(q)'
  BY <1>1, <1>2, <1>4, <1>5, <1>8 DEF InWork, Logged
<1>12. RegistrationTrail'
  <2>1. ToldOnce(log)' /\ ToldOnce(queue)'
    BY <1>2, <1>3 DEF IInv, RegistrationTrail, ToldOnce, Known
  <2>2. \A p \in DOMAIN players :
          p \in Ids /\ (Published(p) \/ InWork(p) \/ p \in broken)
    BY DEF IInv, TypeOK, RegistrationTrail
  <2> QED
    BY <1>2, <1>3, <1>5, <1>10, <1>11, <2>1, <2>2 DEF IInv, RegistrationTrail, Published, Logged
<1>13. AnswersHonest'
  BY <1>2, <1>3 DEF IInv, AnswersHonest, Known
<1>14. (broken \subseteq DOMAIN players)'
  BY <1>2, <1>3 DEF IInv
<1> QED
  BY <1>6, <1>7, <1>9, <1>12, <1>13, <1>14 DEF IInv

-----------------------------------------------------------------------------
(* A task takes the next step of its registration.                         *)
LEMMA ProgressIInv ==
  ASSUME IInv, NEW t \in Tasks, pc[t] \in {"wallet", "log", "publish"},
         NEW label \in {"idle", "log", "publish"}, pc' = [pc EXCEPT ![t] = label],
         UNCHANGED <<players, broken, job>>,
         TypeOK', AnswersHonest', ToldOnce(log)', ToldOnce(queue)',
         label # "idle" => /\ job[t].player \in purses'
                           /\ Logged(job[t].player)' <=> label = "publish"
                           /\ UNCHANGED queue,
         label = "idle" => /\ Published(job[t].player)'
                           /\ Logged(job[t].player)'
                           /\ job[t].player \in purses',
         \A p \in Ids \ {job[t].player} :
           /\ p \in purses' <=> p \in purses
           /\ Logged(p)' <=> Logged(p)
           /\ Published(p)' <=> Published(p),
         purses' \subseteq Ids
  PROVE  IInv'
<1> DEFINE q == job[t].player
<1>1. /\ job[t] \in Requests /\ job[t].op = "register" /\ q \in Ids
      /\ Works(t, q) /\ Known(q) /\ players[q] = job[t].name
      /\ q \notin broken /\ ~Published(q)
      /\ \A u \in Tasks \ {t} : ~Works(u, q)
  BY WorkFacts
<1>2. \A u \in Tasks : /\ u = t => pc'[u] = label
                       /\ u # t => pc'[u] = pc[u]
  BY DEF IInv, TypeOK
<1>3. JobInv'
  BY <1>1, <1>2 DEF IInv, JobInv, Known
<1>4. \A u \in Tasks, p \in Ids :
        Works(u, p)' <=> Works(u, p) /\ (u = t => label # "idle")
  BY <1>2 DEF Works
<1>5. label # "idle" => ~Published(q)'
  BY <1>1 DEF Published
<1>6. WorkInv'
  <2> SUFFICES ASSUME NEW u \in Tasks, NEW p \in Ids, Works(u, p)'
               PROVE  /\ Known(p) /\ players[p] = job[u].name
                      /\ p \notin broken /\ ~Published(p)'
                      /\ p \in purses' <=> pc'[u] # "wallet"
                      /\ Logged(p)' <=> pc'[u] = "publish"
                      /\ \A v \in Tasks \ {u} : ~Works(v, p)'
    BY DEF WorkInv, Known
  <2>1. CASE u = t
    <3>1. p = q /\ label # "idle"
      BY <1>2, <2>1 DEF Works
    <3> QED
      BY <1>1, <1>2, <1>4, <1>5, <2>1, <3>1
  <2>2. CASE u # t
    <3>1. Works(u, p) /\ p # q
      BY <1>1, <1>4, <2>2
    <3>2. /\ Known(p) /\ players[p] = job[u].name /\ p \notin broken /\ ~Published(p)
          /\ p \in purses <=> pc[u] # "wallet"
          /\ Logged(p) <=> pc[u] = "publish"
          /\ \A v \in Tasks \ {u} : ~Works(v, p)
      BY <3>1 DEF IInv, WorkInv
    <3> QED
      BY <1>2, <1>4, <2>2, <3>1, <3>2
  <2> QED
    BY <2>1, <2>2
<1>7. ASSUME NEW p \in Ids, p # q, InWork(p) PROVE InWork(p)'
  <2>1. PICK u \in Tasks : /\ Works(u, p)
                           /\ p \in purses <=> pc[u] # "wallet"
                           /\ Logged(p) <=> pc[u] = "publish"
                           /\ \A v \in Tasks \ {u} : ~Works(v, p)
    BY <1>7 DEF InWork
  <2>2. u # t
    BY <1>7, <2>1 DEF Works
  <2>3. /\ Works(u, p)'
        /\ p \in purses' <=> pc'[u] # "wallet"
        /\ Logged(p)' <=> pc'[u] = "publish"
        /\ \A v \in Tasks \ {u} : ~Works(v, p)'
    BY <1>2, <1>4, <1>7, <2>1, <2>2
  <2> QED
    BY <2>3 DEF InWork
<1>8. label # "idle" => InWork(q)'
  <2> SUFFICES ASSUME label # "idle" PROVE InWork(q)'
    OBVIOUS
  <2>1. /\ Works(t, q)'
        /\ q \in purses' <=> pc'[t] # "wallet"
        /\ Logged(q)' <=> pc'[t] = "publish"
        /\ \A v \in Tasks \ {t} : ~Works(v, q)'
    BY <1>1, <1>2, <1>4
  <2> QED
    BY <2>1 DEF InWork
<1>9. RegistrationTrail'
  <2>1. purses' \subseteq DOMAIN players
    BY <1>1 DEF IInv, RegistrationTrail, Known
  <2>2. ASSUME NEW p \in DOMAIN players
        PROVE  /\ Published(p)' => Logged(p)'
               /\ Logged(p)' => p \in purses'
               /\ p \in broken => ~Published(p)'
               /\ Published(p)' \/ InWork(p)' \/ p \in broken
    <3>1. p \in Ids
      BY DEF IInv, TypeOK
    <3>2. CASE p = q
      BY <1>1, <1>5, <1>8, <3>2
    <3>3. CASE p # q
      BY <1>7, <3>1, <3>3 DEF IInv, RegistrationTrail
    <3> QED
      BY <3>2, <3>3
  <2> QED
    BY <2>1, <2>2 DEF RegistrationTrail
<1> QED
  BY <1>3, <1>6, <1>9 DEF IInv

(* The three steps after the INSERT of the player.                         *)
LEMMA SaveWalletIInv ==
  ASSUME IInv, NEW t \in Tasks, SaveWallet(t)
  PROVE  IInv'
<1> DEFINE q == job[t].player
<1> USE DEF SaveWallet, Goto
<1>1. pc[t] = "wallet" /\ q \in Ids /\ ~Logged(q)
  BY WorkFacts
<1>2. TypeOK'
  BY <1>1 DEF IInv, TypeOK
<1>3. AnswersHonest' /\ ToldOnce(log)' /\ ToldOnce(queue)'
  BY DEF IInv, AnswersHonest, RegistrationTrail, ToldOnce, Known
<1>4. purses' = purses \cup {q} /\ UNCHANGED <<log, queue>>
  OBVIOUS
<1>5. \A p \in Ids : (Logged(p)' <=> Logged(p)) /\ (Published(p)' <=> Published(p))
  BY <1>4 DEF Logged, Published
<1>6. purses' \subseteq Ids
  BY <1>2 DEF TypeOK
<1> QED
  BY <1>1, <1>2, <1>3, <1>4, <1>5, <1>6, ProgressIInv

(* What an event appended to one of the two sequences does to them.        *)
LEMMA AppendEvents ==
  ASSUME NEW old \in Seq(Events), NEW e \in Events, NEW new, new = Append(old, e)
  PROVE  /\ new \in Seq(Events)
         /\ DOMAIN new = DOMAIN old \cup {Len(old) + 1} /\ Len(old) + 1 \notin DOMAIN old
         /\ \A i \in DOMAIN old : new[i] = old[i]
         /\ new[Len(old) + 1] = e
  OBVIOUS

LEMMA AppendEventIInv ==
  ASSUME IInv, NEW t \in Tasks, AppendEvent(t)
  PROVE  IInv'
<1> DEFINE q == job[t].player
           e == PlayerRegistered(job[t])
<1> USE DEF AppendEvent, Goto
<1>1. /\ pc[t] = "log" /\ q \in Ids /\ ~Logged(q) /\ q \in purses
      /\ Known(q) /\ players[q] = job[t].name
      /\ e \in Events /\ e.player = q /\ e.name = job[t].name
  BY WorkFacts DEF PlayerRegistered
<1>2. log' = Append(log, e) /\ UNCHANGED <<players, purses, queue>>
  OBVIOUS
<1>3. /\ log' \in Seq(Events)
      /\ DOMAIN log' = DOMAIN log \cup {Len(log) + 1} /\ Len(log) + 1 \notin DOMAIN log
      /\ \A i \in DOMAIN log : log'[i] = log[i]
      /\ log'[Len(log) + 1] = e
  BY <1>1, <1>2, AppendEvents DEF IInv, TypeOK
<1>4. TypeOK'
  BY <1>3 DEF IInv, TypeOK
<1>5. AnswersHonest' /\ ToldOnce(queue)'
  BY DEF IInv, AnswersHonest, RegistrationTrail, ToldOnce, Known
<1>6. ToldOnce(log)'
  BY <1>1, <1>2, <1>3 DEF IInv, RegistrationTrail, ToldOnce, Known, Logged
<1>7. Logged(q)'
  BY <1>1, <1>3 DEF Logged
<1>8. \A p \in Ids \ {q} : Logged(p)' <=> Logged(p)
  BY <1>1, <1>3 DEF Logged
<1>9. \A p \in Ids : Published(p)' <=> Published(p)
  BY <1>2 DEF Published
<1>10. purses' \subseteq Ids
  BY <1>4 DEF TypeOK
<1> QED
  BY <1>1, <1>2, <1>4, <1>5, <1>6, <1>7, <1>8, <1>9, <1>10, ProgressIInv

LEMMA PublishIInv ==
  ASSUME IInv, NEW t \in Tasks, Publish(t)
  PROVE  IInv'
<1> DEFINE q == job[t].player
           e == PlayerRegistered(job[t])
<1> USE DEF Publish, Finish, Goto
<1>1. /\ pc[t] = "publish" /\ q \in Ids /\ Logged(q) /\ q \in purses /\ ~Published(q)
      /\ Known(q) /\ players[q] = job[t].name /\ job[t].name \in Storable
      /\ e \in Events /\ e.player = q /\ e.name = job[t].name
  BY WorkFacts DEF PlayerRegistered, IInv, RegistrationTrail, Known
<1>2. queue' = Append(queue, e) /\ UNCHANGED <<players, purses, log, job>>
  OBVIOUS
<1>3. /\ queue' \in Seq(Events)
      /\ DOMAIN queue' = DOMAIN queue \cup {Len(queue) + 1} /\ Len(queue) + 1 \notin DOMAIN queue
      /\ \A i \in DOMAIN queue : queue'[i] = queue[i]
      /\ queue'[Len(queue) + 1] = e
  BY <1>1, <1>2, AppendEvents DEF IInv, TypeOK
<1>4. TypeOK'
  BY <1>1, <1>3, ReplyTypes DEF IInv, TypeOK
<1>5. AnswersHonest'
  BY <1>1, ReplyTypes DEF IInv, TypeOK, AnswersHonest, Known
<1>6. ToldOnce(log)'
  BY <1>2 DEF IInv, RegistrationTrail, ToldOnce, Known
<1>7. ToldOnce(queue)'
  BY <1>1, <1>2, <1>3 DEF IInv, RegistrationTrail, ToldOnce, Known, Published
<1>8. Published(q)' /\ Logged(q)'
  BY <1>1, <1>2, <1>3 DEF Published, Logged
<1>9. \A p \in Ids \ {q} : Published(p)' <=> Published(p)
  BY <1>1, <1>3 DEF Published
<1>10. \A p \in Ids : Logged(p)' <=> Logged(p)
  BY <1>2 DEF Logged
<1>11. purses' \subseteq Ids
  BY <1>4 DEF TypeOK
<1> QED
  BY <1>1, <1>2, <1>4, <1>5, <1>6, <1>7, <1>8, <1>9, <1>10, <1>11, ProgressIInv

-----------------------------------------------------------------------------
(* A registration breaks off: what is saved stays, and nobody goes on.     *)
LEMMA BreakOffIInv ==
  ASSUME IInv, NEW t \in Tasks, BreakOff(t), pc[t] \in {"wallet", "log", "publish"}
  PROVE  IInv'
<1> DEFINE q == job[t].player
<1> USE DEF BreakOff, Finish, Goto
<1>1. /\ q \in Ids /\ Works(t, q) /\ Known(q) /\ ~Published(q)
      /\ \A u \in Tasks \ {t} : ~Works(u, q)
  BY WorkFacts
<1>2. /\ broken' = broken \cup {q}
      /\ pc' = [pc EXCEPT ![t] = "idle"]
      /\ UNCHANGED <<players, purses, log, queue, job>>
  OBVIOUS
<1>3. PICK r \in Replies : r.result # "ok" /\ reply' = [reply EXCEPT ![t] = r]
  BY ReplyTypes
<1>4. TypeOK'
  BY <1>1, <1>2, <1>3 DEF IInv, TypeOK
<1>5. \A u \in Tasks : /\ u = t => pc'[u] = "idle" /\ reply'[u] = r
                       /\ u # t => pc'[u] = pc[u] /\ reply'[u] = reply[u]
  BY <1>2, <1>3 DEF IInv, TypeOK
<1>6. JobInv'
  BY <1>2, <1>5 DEF IInv, JobInv, Known
<1>7. \A u \in Tasks, p \in Ids : Works(u, p)' <=> Works(u, p) /\ u # t
  BY <1>2, <1>5 DEF Works
<1>8. WorkInv'
  BY <1>1, <1>2, <1>5, <1>7 DEF IInv, WorkInv, Known, Published, Logged
<1>9. \A p \in Ids \ {q} : InWork(p) => InWork(p)'
  BY <1>2, <1>5, <1>7 DEF InWork, Logged, Works
<1>10. RegistrationTrail'
  <2>1. ToldOnce(log)' /\ ToldOnce(queue)'
    BY <1>2 DEF IInv, RegistrationTrail, ToldOnce, Known
  <2> QED
    BY <1>1, <1>2, <1>9, <2>1 DEF IInv, TypeOK, RegistrationTrail, Published, Logged
<1>11. AnswersHonest' /\ (broken \subseteq DOMAIN players)'
  BY <1>1, <1>2, <1>3, <1>5 DEF IInv, AnswersHonest, Known
<1> QED
  BY <1>4, <1>6, <1>8, <1>10, <1>11 DEF IInv

(* The steps of a task that works on no registration.                      *)
LEMMA OtherIInv ==
  ASSUME IInv, NEW t \in Tasks, pc[t] \in {"player", "snapshot"},
         RejectPlayer(t) \/ FindWallet(t) \/ BreakOff(t)
  PROVE  IInv'
<1>1. /\ job[t] \in Requests
      /\ pc[t] = "snapshot" => Known(job[t].player) /\ players[job[t].player] \in Names
  BY DEF IInv, JobInv, TypeOK, Known
<1>2. PICK r \in Replies :
        /\ reply' = [reply EXCEPT ![t] = r]
        /\ r.result = "ok" => /\ Known(job[t].player)
                              /\ r.name = players[job[t].player]
                              /\ r.purse => job[t].player \in purses
  <2>1. CASE RejectPlayer(t) \/ BreakOff(t)
    BY <2>1, ReplyTypes DEF RejectPlayer, BreakOff, Finish
  <2>2. CASE FindWallet(t)
    <3> DEFINE r == Snapshot(players[job[t].player], job[t].player \in purses)
    <3>1. (job[t].player \in purses) \in BOOLEAN
      OBVIOUS
    <3>2. r \in Replies /\ r.name = players[job[t].player]
          /\ r.purse = (job[t].player \in purses)
      <4> HIDE DEF r
      <4>1. players[job[t].player] \in Names
        BY <1>1, <2>2 DEF FindWallet
      <4> QED
        BY <3>1, <4>1, ReplyTypes, Zenon DEF r
    <3>3. reply' = [reply EXCEPT ![t] = r] /\ Known(job[t].player)
      BY <1>1, <2>2 DEF FindWallet, Finish
    <3> HIDE DEF r
    <3> QED
      BY <3>2, <3>3
  <2> QED
    BY <2>1, <2>2
<1>3. UNCHANGED tableVars /\ pc' = [pc EXCEPT ![t] = "idle"] /\ job' = job
  BY DEF RejectPlayer, FindWallet, BreakOff, Finish, Goto, tableVars
<1>4. job' = [job EXCEPT ![t] = job[t]]
  BY <1>3 DEF IInv, TypeOK
<1> QED
  BY <1>1, <1>2, <1>3, <1>4, IdleIInv

LEMMA ReceiveIInv ==
  ASSUME IInv, NEW t \in Tasks, NEW c \in Requests, Receive(t, c)
  PROVE  IInv'
<1>1. pc[t] = "idle" /\ job' = [job EXCEPT ![t] = c] /\ UNCHANGED tableVars
  BY DEF Receive, AnswerRegister, BeginRegister, RejectSnapshot, FindPlayer, BeginTransition,
         ClaimTransition, EndTransition, Await, Take
<1>2. Known(c.player) => players[c.player] \in Names
  BY DEF IInv, TypeOK, Known
<1>3. CASE AnswerRegister(t, c)
  BY <1>1, <1>2, <1>3, ReplyTypes, IdleIInv DEF AnswerRegister, Finish, Goto
<1>4. CASE BeginRegister(t, c)
  <2>1. /\ c.op = "register"
        /\ pc' = [pc EXCEPT ![t] = "player"]
        /\ reply' = [reply EXCEPT ![t] = NoReply]
    BY <1>4 DEF BeginRegister, Await, Goto
  <2> QED
    BY <1>1, <2>1, ReplyTypes, IdleIInv
<1>5. CASE FindPlayer(t, c)
  <2>1. /\ c.op = "snapshot" /\ Known(c.player)
        /\ pc' = [pc EXCEPT ![t] = "snapshot"]
        /\ reply' = [reply EXCEPT ![t] = NoReply]
    BY <1>5 DEF FindPlayer, Await, Goto
  <2> QED
    BY <1>1, <2>1, ReplyTypes, IdleIInv
<1>6. CASE \E e \in {"PlayerNotFound", "InternalError"} : Finish(t, Error(e))
  BY ZenonT(30), <1>1, <1>6, ReplyTypes, IdleIInv DEF Finish, Goto
<1> QED
  BY <1>3, <1>4, <1>5, <1>6 DEF Receive, RejectSnapshot, BeginTransition, ClaimTransition, EndTransition,
                                 TicketError

(* Every step keeps the invariant.                                         *)
LEMMA NextIInv == IInv /\ [Next]_vars => IInv'
<1> SUFFICES ASSUME IInv, [Next]_vars PROVE IInv'
  OBVIOUS
<1>1. CASE UNCHANGED vars
  BY <1>1 DEF vars, tableVars, IInv, TypeOK, JobInv, WorkInv, Works, RegistrationTrail, ToldOnce,
              InWork, AnswersHonest, Known, Logged, Published
<1>2. ASSUME NEW t \in Tasks, TaskStep(t) \/ BreakOff(t) PROVE IInv'
  <2>1. pc[t] \in {"idle", "player", "wallet", "log", "publish", "snapshot"}
    BY DEF IInv, TypeOK
  <2>2. CASE BreakOff(t)
    BY <2>1, <2>2, BreakOffIInv, OtherIInv DEF BreakOff
  <2>3. CASE RejectPlayer(t) \/ FindWallet(t)
    BY <2>3, OtherIInv DEF RejectPlayer, FindWallet
  <2> QED
    BY <1>2, <2>2, <2>3, SavePlayerIInv, SaveWalletIInv, AppendEventIInv, PublishIInv DEF TaskStep
<1> QED
  BY <1>1, <1>2, ReceiveIInv DEF Next

(* The inductive invariant: who works on which registration, alone, and    *)
(* what the player has at each place.                                      *)
THEOREM Invariance == Spec => []IInv
  BY InitIInv, NextIInv, PTL DEF Spec

-----------------------------------------------------------------------------
(* No stored name is longer than its column, and every variable has its    *)
(* type.                                                                   *)
THEOREM TypeCorrect == Spec => []TypeOK
<1>1. IInv => TypeOK
  BY DEF IInv
<1> QED
  BY <1>1, Invariance, PTL

(* A registration never gets ahead of itself and is told once; a player    *)
(* who lacks something is in the hands of one task, or broke off.          *)
THEOREM TrailComplete == Spec => []RegistrationTrail
<1>1. IInv => RegistrationTrail
  BY DEF IInv
<1> QED
  BY <1>1, Invariance, PTL

(* Clients are told the stored name, and a wallet only if there is one.    *)
THEOREM HonestAnswers == Spec => []AnswersHonest
<1>1. IInv => AnswersHonest
  BY DEF IInv
<1> QED
  BY <1>1, Invariance, PTL

=============================================================================
