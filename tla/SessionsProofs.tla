--------------------------- MODULE SessionsProofs ---------------------------
(***************************************************************************)
(* The inductive invariant of Sessions, and what follows from it for every *)
(* number of tasks, players, servers and sessions.                         *)
(*                                                                         *)
(* Every action is shown to be a TableStep: the rows it changes evolve as  *)
(* rows may.  The action properties are read off a TableStep; the          *)
(* invariant needs, besides, what the task of the action knows afterwards. *)
(***************************************************************************)
EXTENDS Sessions, TLAPS

(* How a row r may be replaced by a row q.                                 *)
Evolves(r, q) ==
  /\ q.revision = r.revision + 1
  /\ q.player = r.player
  /\ q.expires >= r.expires \/ MayShorten(r)
  /\ InTime(q)
  /\ IsActive(q) => IsActive(r)
  /\ MayBecome(r.state, q.state)
  /\ q.server # r.server => IsActive(r) /\ q.state \in {"RECONNECTED", "TRANSITIONING"}
  /\ IsActive(r) /\ q.state = "EXPIRED" => now > r.expires

TableStep ==
  /\ now' \in Nat
  /\ now' >= now
  /\ sessions' \in Seq(Session)
  /\ Ids \subseteq Ids'
  /\ DeadlineInv'
  /\ \A i \in Ids : sessions'[i] = sessions[i] \/ Evolves(sessions[i], sessions'[i])

-----------------------------------------------------------------------------
(* How the table may change: one row, a new row, the sweep, the clock.     *)

(* The columns of a session have the types TypeOK gives the row.           *)
LEMMA RowTypes ==
  ASSUME TypeOK, NEW i \in Ids
  PROVE  /\ sessions[i] \in Session
         /\ sessions[i].player \in Players
         /\ sessions[i].server \in Servers
         /\ sessions[i].state \in States
         /\ sessions[i].expires \in Nat
         /\ sessions[i].revision \in Nat
<1>1. sessions[i] \in Session
  BY DEF TypeOK, Ids
<1> QED
  BY <1>1 DEF Session

(* Replacing a row by one it may evolve to.                                *)
LEMMA ReplaceStep ==
  ASSUME TypeOK, DeadlineInv, OneActive,
         NEW i \in Ids, NEW r \in Session, Replace(i, r), now' = now,
         Evolves(sessions[i], r)
  PROVE  TableStep /\ Ids' = Ids /\ OneActive'
<1>1. /\ sessions' \in Seq(Session)
      /\ Ids' = Ids
      /\ \A j \in Ids : sessions'[j] = IF j = i THEN r ELSE sessions[j]
  BY DEF TypeOK, Replace, Ids
<1>2. DeadlineInv'
  BY <1>1 DEF DeadlineInv, InTime, Evolves, IsActive
<1>3. now' \in Nat /\ now' >= now
  BY DEF TypeOK
<1>4. TableStep
  BY <1>1, <1>2, <1>3 DEF TableStep
<1>5. \A j \in Ids : IsActive(sessions'[j]) => IsActive(sessions[j])
  BY <1>1 DEF Evolves
<1>6. \A j \in Ids : sessions'[j].player = sessions[j].player
  BY <1>1 DEF Evolves
<1>7. OneActive'
  BY <1>1, <1>5, <1>6 DEF OneActive, AtMostOneActive, IsActive
<1> QED
  BY <1>1, <1>4, <1>7

(* A new row, where the unique index, if there is one, lets it in.         *)
LEMMA AppendStep ==
  ASSUME TypeOK, DeadlineInv, OneActive,
         NEW r \in Session, sessions' = Append(sessions, r), now' = now,
         InTime(r),
         UniqueActiveIndex /\ IsActive(r) =>
           \A j \in Ids : sessions[j].player = r.player => ~IsActive(sessions[j])
  PROVE  TableStep /\ OneActive'
<1>1. /\ sessions' \in Seq(Session)
      /\ Ids' = Ids \cup {Len(sessions) + 1}
      /\ Len(sessions) + 1 \notin Ids
      /\ sessions'[Len(sessions) + 1] = r
      /\ \A j \in Ids : sessions'[j] = sessions[j]
  BY DEF TypeOK, Ids
<1>2. DeadlineInv'
  BY <1>1 DEF DeadlineInv, InTime, IsActive
<1>3. now' \in Nat /\ now' >= now
  BY DEF TypeOK
<1>4. TableStep
  BY <1>1, <1>2, <1>3 DEF TableStep
<1>5. OneActive'
  <2> SUFFICES ASSUME UniqueActiveIndex PROVE AtMostOneActive'
    BY DEF OneActive
  <2> DEFINE n == Len(sessions) + 1
  <2>1. \A i, j \in Ids :
          IsActive(sessions'[i]) /\ IsActive(sessions'[j])
            /\ sessions'[i].player = sessions'[j].player => i = j
    BY <1>1 DEF OneActive, AtMostOneActive
  <2>2. \A j \in Ids :
          ~(IsActive(sessions'[n]) /\ IsActive(sessions'[j])
              /\ sessions'[n].player = sessions'[j].player)
    BY <1>1
  <2> HIDE DEF n
  <2>3. Ids' = Ids \cup {n}
    BY <1>1 DEF n
  <2> SUFFICES ASSUME NEW i \in Ids', NEW j \in Ids',
                      IsActive(sessions'[i]), IsActive(sessions'[j]),
                      sessions'[i].player = sessions'[j].player
               PROVE  i = j
    BY DEF OneActive, AtMostOneActive, IsActive
  <2> QED
    BY <2>1, <2>2, <2>3
<1> QED
  BY <1>4, <1>5

(* Nothing but the clock moves.                                            *)
LEMMA UnchangedStep ==
  ASSUME TypeOK, DeadlineInv, OneActive,
         sessions' = sessions, now' \in Nat, now' >= now
  PROVE  TableStep /\ Ids' = Ids /\ OneActive'
<1>1. Ids' = Ids
  BY DEF Ids
<1>2. DeadlineInv'
  <2> SUFFICES ASSUME NEW i \in Ids
               PROVE  InTime(sessions[i])'
    BY <1>1 DEF DeadlineInv
  <2>1. InTime(sessions[i]) /\ sessions[i].expires \in Nat /\ sessions'[i] = sessions[i]
    BY RowTypes DEF DeadlineInv
  <2>2. now \in Nat /\ now' \in Nat /\ now' >= now /\ Timeout \in Nat
    BY SessionsAssumption DEF TypeOK, SessionsAssumption
  <2> QED
    BY <2>1, <2>2 DEF InTime, IsActive
<1>3. OneActive'
  BY <1>1 DEF OneActive, AtMostOneActive, IsActive
<1> QED
  BY <1>1, <1>2, <1>3 DEF TableStep, TypeOK

(* The row each method of PlayerSession leaves.                            *)
LEMMA MarkTypes ==
  ASSUME NEW r \in Session, NEW s \in Servers, now \in Nat
  PROVE  /\ MarkExpired(r) \in Session
         /\ MarkExpired(r).state = "EXPIRED"
         /\ MarkExpired(r).revision = r.revision + 1
         /\ MarkExpired(r).player = r.player
         /\ MarkExpired(r).server = r.server
         /\ MarkExpired(r).expires = r.expires
         /\ Terminate(r) \in Session
         /\ Terminate(r).state = "TERMINATED"
         /\ Terminate(r).revision = r.revision + 1
         /\ Terminate(r).player = r.player
         /\ Terminate(r).server = r.server
         /\ Terminate(r).expires = r.expires
         /\ Heartbeat(r) \in Session
         /\ Heartbeat(r).state = r.state
         /\ Heartbeat(r).revision = r.revision + 1
         /\ Heartbeat(r).player = r.player
         /\ Heartbeat(r).server = r.server
         /\ Heartbeat(r).expires = now + Timeout
         /\ MarkReconnected(r, s) \in Session
         /\ MarkReconnected(r, s).state = "RECONNECTED"
         /\ MarkReconnected(r, s).revision = r.revision + 1
         /\ MarkReconnected(r, s).player = r.player
         /\ MarkReconnected(r, s).expires = now + Timeout
         /\ MarkTransitioning(r, s) \in Session
         /\ MarkTransitioning(r, s).state = "TRANSITIONING"
         /\ MarkTransitioning(r, s).revision = r.revision + 1
         /\ MarkTransitioning(r, s).player = r.player
         /\ MarkTransitioning(r, s).expires = r.expires
<1>1. /\ {"EXPIRED", "TERMINATED", "RECONNECTED", "TRANSITIONING"} \subseteq States
      /\ r.revision + 1 \in Nat
      /\ now + Timeout \in Nat
  BY SessionsAssumption DEF Session, States
<1>2. /\ MarkExpired(r) \in Session
      /\ MarkExpired(r).state = "EXPIRED"
      /\ MarkExpired(r).revision = r.revision + 1
      /\ MarkExpired(r).player = r.player
      /\ MarkExpired(r).server = r.server
      /\ MarkExpired(r).expires = r.expires
  BY <1>1 DEF MarkExpired, Session
<1>3. /\ Terminate(r) \in Session
      /\ Terminate(r).state = "TERMINATED"
      /\ Terminate(r).revision = r.revision + 1
      /\ Terminate(r).player = r.player
      /\ Terminate(r).server = r.server
      /\ Terminate(r).expires = r.expires
  BY <1>1 DEF Terminate, Session
<1>4. /\ Heartbeat(r) \in Session
      /\ Heartbeat(r).state = r.state
      /\ Heartbeat(r).revision = r.revision + 1
      /\ Heartbeat(r).player = r.player
      /\ Heartbeat(r).server = r.server
      /\ Heartbeat(r).expires = now + Timeout
  BY <1>1 DEF Heartbeat, Session
<1>5. /\ MarkReconnected(r, s) \in Session
      /\ MarkReconnected(r, s).state = "RECONNECTED"
      /\ MarkReconnected(r, s).revision = r.revision + 1
      /\ MarkReconnected(r, s).player = r.player
      /\ MarkReconnected(r, s).expires = now + Timeout
  BY <1>1 DEF MarkReconnected, Session
<1>6. /\ MarkTransitioning(r, s) \in Session
      /\ MarkTransitioning(r, s).state = "TRANSITIONING"
      /\ MarkTransitioning(r, s).revision = r.revision + 1
      /\ MarkTransitioning(r, s).player = r.player
      /\ MarkTransitioning(r, s).expires = r.expires
  BY <1>1 DEF MarkTransitioning, Session
<1> QED
  BY <1>2, <1>3, <1>4, <1>5, <1>6

(* What a new session is.                                                  *)
LEMMA NewTypes ==
  ASSUME NEW p \in Players, NEW s \in Servers, NEW d \in Nat, now \in Nat
  PROVE  /\ NewSession(p, s, d) \in Session
         /\ NewSession(p, s, d).player = p
         /\ NewSession(p, s, d).expires = now + d
         /\ NewSession(p, s, d).revision = 0
  BY DEF NewSession, Session, States

(* A session that is past its deadline, or not active, may be marked       *)
(* expired.                                                                *)
LEMMA ExpiredEvolves ==
  ASSUME TypeOK, DeadlineInv, NEW i \in Ids,
         sessions[i].state # "TERMINATED",
         IsActive(sessions[i]) => now > sessions[i].expires
  PROVE  /\ MarkExpired(sessions[i]) \in Session
         /\ Evolves(sessions[i], MarkExpired(sessions[i]))
<1> DEFINE r == sessions[i]
<1>1. r \in Session /\ r.revision \in Nat /\ r.expires \in Nat /\ r.state \in States
  BY RowTypes
<1>2. InTime(r) /\ r.state # "TERMINATED"
  BY DEF DeadlineInv
<1> HIDE DEF r
<1>3. /\ MarkExpired(r) \in Session
      /\ MarkExpired(r).state = "EXPIRED"
      /\ MarkExpired(r).revision = r.revision + 1
      /\ MarkExpired(r).player = r.player
      /\ MarkExpired(r).server = r.server
      /\ MarkExpired(r).expires = r.expires
  BY <1>1, MarkTypes, RowTypes DEF TypeOK, r
<1>4. MayBecome(r.state, "EXPIRED")
  BY <1>1, <1>2 DEF MayBecome, States
<1>5. IsActive(r) => now > r.expires
  BY DEF r
<1>6. ~IsActive(MarkExpired(r))
  BY <1>3 DEF IsActive
<1>7. Evolves(r, MarkExpired(r))
  <2> DEFINE q == MarkExpired(r)
  <2>1. q.revision = r.revision + 1 /\ q.player = r.player /\ q.server = r.server
    BY <1>3
  <2>2. q.expires >= r.expires /\ InTime(q)
    BY <1>1, <1>2, <1>3, <1>6 DEF InTime
  <2>3. MayBecome(r.state, q.state)
    BY <1>3, <1>4
  <2>4. ~IsActive(q)
    BY <1>6
  <2> HIDE DEF q
  <2>5. Evolves(r, q)
    BY <2>1, <2>2, <2>3, <2>4, <1>5 DEF Evolves
  <2> QED
    BY <2>5 DEF q
<1> QED
  BY <1>3, <1>7 DEF r

(* The sweep marks every stale session at once.                            *)
LEMMA SweepStep ==
  ASSUME TypeOK, DeadlineInv, OneActive, ExpireStaleSessions
  PROVE  TableStep /\ Ids' = Ids /\ OneActive'
<1>1. \A i \in Ids : IsStale(sessions[i]) =>
        /\ MarkExpired(sessions[i]) \in Session
        /\ Evolves(sessions[i], MarkExpired(sessions[i]))
  BY ExpiredEvolves, RowTypes DEF IsStale, IsActive, TypeOK
<1>2. /\ sessions' \in Seq(Session)
      /\ Ids' = Ids
      /\ \A i \in Ids : sessions'[i] = IF IsStale(sessions[i]) THEN MarkExpired(sessions[i])
                                                            ELSE sessions[i]
  <2>1. sessions' = [i \in 1..Len(sessions) |->
          IF IsStale(sessions[i]) THEN MarkExpired(sessions[i]) ELSE sessions[i]]
    BY DEF ExpireStaleSessions, TypeOK, Ids
  <2>2. \A i \in 1..Len(sessions) : sessions'[i] \in Session
    BY <1>1, <2>1, RowTypes DEF TypeOK, Ids
  <2> QED
    BY <2>1, <2>2 DEF TypeOK, Ids
<1>3. DeadlineInv'
  BY <1>1, <1>2 DEF DeadlineInv, InTime, IsActive, Evolves, ExpireStaleSessions
<1>4. TableStep
  BY <1>1, <1>2, <1>3 DEF TableStep, TypeOK, ExpireStaleSessions
<1>5. OneActive'
  BY <1>1, <1>2 DEF OneActive, AtMostOneActive, Evolves, IsActive
<1> QED
  BY <1>2, <1>4, <1>5

-----------------------------------------------------------------------------
(* What a task knows: a call in Requests has the fields its op says, and a *)
(* step of somebody else leaves what a task knows true.                    *)

(* A call in Requests has the fields its operation says.                   *)
LEMMA CallTypes ==
  ASSUME NEW c \in Requests
  PROVE  /\ c.op \in {"create", "reconnect"} => c.player \in Players /\ c.server \in Servers
         /\ c.op = "transition" =>
              c.player \in Players /\ c.from \in Servers /\ c.to \in Servers
  BY SessionsAssumption DEF Calls

(* What a task knows of its session survives the step of somebody else.    *)
LEMMA OthersKeep ==
  ASSUME IInv, TableStep, NEW u \in Tasks,
         pc'[u] = pc[u], call'[u] = call[u], draft'[u] = draft[u]
  PROVE  Work(u)' /\ DraftFits(u)'
<1>1. CASE pc[u] # "write"
  BY <1>1 DEF IInv, WorkInv, Work, DraftFits
<1>2. CASE pc[u] = "write"
  <2> DEFINE i == call[u].id
  <2>1. /\ Work(u)
        /\ DraftFits(u)
        /\ i \in Ids
        /\ i \in Ids'
        /\ draft[u] \in Session
        /\ draft[u].revision \in Nat
        /\ draft[u].revision <= sessions[i].revision + 1
    BY <1>2 DEF IInv, WorkInv, DraftInv, Work, TableStep, Session
  <2>2. /\ sessions[i].revision \in Nat
        /\ sessions'[i] = sessions[i] \/ Evolves(sessions[i], sessions'[i])
    BY <2>1, RowTypes DEF IInv, TableStep
  <2>3. Work(u)'
    BY <1>2, <2>1, <2>2 DEF Work, Evolves
  <2>4. CASE sessions'[i] = sessions[i]
    <3>1. UpToDate(u)' => UpToDate(u)
      BY <2>4 DEF UpToDate
    <3>2. now \in Nat /\ now' \in Nat /\ now' >= now /\ Timeout \in Nat
      BY SessionsAssumption DEF IInv, TypeOK, TableStep
    <3>3. sessions[i].expires \in Nat /\ draft[u].expires \in Nat
      BY <2>1, RowTypes DEF IInv, Session
    <3>4. ASSUME UpToDate(u)'
          PROVE  DerivedFrom(draft[u], sessions[call[u].id])'
      <4>1. DerivedFrom(draft[u], sessions[i])
        BY <1>2, <2>1, <3>1, <3>4 DEF DraftFits
      <4> QED
        BY <4>1, <2>4, <3>2, <3>3 DEF DerivedFrom, InTime, IsActive, MayShorten
    <3> QED
      BY <2>3, <3>4 DEF DraftFits
  <2>5. CASE Evolves(sessions[i], sessions'[i])
    <3>1. ~UpToDate(u)'
      BY <2>1, <2>2, <2>5 DEF UpToDate, Evolves
    <3> QED
      BY <2>3, <3>1 DEF DraftFits
  <2> QED
    BY <2>2, <2>3, <2>4, <2>5
<1> QED
  BY <1>1, <1>2

(* The invariant after a step of one task t: only what t knows is new.     *)
LEMMA TaskStepIInv ==
  ASSUME IInv, TableStep, OneActive', TypeOK', NEW t \in Tasks,
         \A u \in Tasks \ {t} : pc'[u] = pc[u] /\ call'[u] = call[u] /\ draft'[u] = draft[u],
         Work(t)', DraftFits(t)'
  PROVE  IInv'
<1>1. ASSUME NEW u \in Tasks
      PROVE  Work(u)' /\ DraftFits(u)'
  <2>1. CASE u = t
    BY <2>1
  <2>2. CASE u # t
    BY <2>2, OthersKeep
  <2> QED
    BY <2>1, <2>2
<1>2. WorkInv'
  BY <1>1 DEF WorkInv
<1>3. DraftInv'
  BY <1>1 DEF DraftInv
<1> QED
  BY <1>2, <1>3 DEF IInv, TableStep

-----------------------------------------------------------------------------
(* Every action is a TableStep and keeps the invariant.                    *)

(* The table is empty and every task idle.                                 *)
LEMMA InitIInv == Init => IInv
<1> SUFFICES ASSUME Init PROVE IInv
  OBVIOUS
<1>1. sessions = <<>> /\ Ids = {}
  BY DEF Init, Ids
<1>2. TypeOK
  BY <1>1 DEF Init, TypeOK
<1>3. WorkInv /\ DraftInv
  BY DEF Init, WorkInv, Work, DraftInv, DraftFits
<1> QED
  BY <1>1, <1>2, <1>3 DEF IInv, DeadlineInv, OneActive, AtMostOneActive

(* The clock.                                                              *)
LEMMA TickIInv ==
  ASSUME IInv, Tick
  PROVE  TableStep /\ IInv'
<1>1. TableStep /\ Ids' = Ids /\ OneActive'
  <2>1. now' \in Nat /\ now' >= now /\ sessions' = sessions
    BY DEF IInv, TypeOK, Tick
  <2> QED
    BY <2>1, UnchangedStep DEF IInv
<1>2. TypeOK'
  BY <1>1 DEF IInv, TypeOK, TableStep, Tick, taskVars
<1>3. \A u \in Tasks : Work(u)' /\ DraftFits(u)'
  BY <1>1, OthersKeep DEF Tick, taskVars
<1> QED
  BY <1>1, <1>2, <1>3 DEF IInv, TableStep, WorkInv, DraftInv

(* The background sweep.                                                   *)
LEMMA SweepIInv ==
  ASSUME IInv, ExpireStaleSessions
  PROVE  TableStep /\ IInv'
<1>1. TableStep /\ Ids' = Ids /\ OneActive'
  BY SweepStep DEF IInv
<1>2. TypeOK'
  BY <1>1 DEF IInv, TypeOK, TableStep, ExpireStaleSessions, taskVars
<1>3. \A u \in Tasks : Work(u)' /\ DraftFits(u)'
  BY <1>1, OthersKeep DEF ExpireStaleSessions, taskVars
<1> QED
  BY <1>1, <1>2, <1>3 DEF IInv, TableStep, WorkInv, DraftInv

(* A call begins: it reads the session or takes the player's lock.         *)
LEMMA StartIInv ==
  ASSUME IInv, NEW t \in Tasks, NEW c \in Requests, Start(t, c)
  PROVE  TableStep /\ IInv'
<1>1. sessions' = sessions /\ now' = now
  BY DEF Start, FindForUpdate, ReadSession, LockPlayer
<1>2. TableStep /\ Ids' = Ids /\ OneActive'
  BY <1>1, UnchangedStep DEF IInv, TypeOK
<1>3. CASE FindForUpdate(t, c)
  <2>1. TypeOK'
    BY <1>1, <1>2, <1>3 DEF IInv, TypeOK, FindForUpdate, Begin
  <2>2. Work(t)' /\ DraftFits(t)'
    BY <1>3 DEF IInv, TypeOK, FindForUpdate, Begin, Work, DraftFits
  <2>3. \A u \in Tasks \ {t} : pc'[u] = pc[u] /\ call'[u] = call[u] /\ draft'[u] = draft[u]
    BY <1>3 DEF IInv, TypeOK, FindForUpdate, Begin
  <2> QED
    BY <1>2, <2>1, <2>2, <2>3, TaskStepIInv
<1>4. CASE LockPlayer(t, c)
  <2>1. TypeOK'
    BY <1>1, <1>2, <1>4 DEF IInv, TypeOK, LockPlayer, Begin
  <2>2. Work(t)' /\ DraftFits(t)'
    BY <1>4 DEF IInv, TypeOK, LockPlayer, Begin, Work, DraftFits
  <2>3. \A u \in Tasks \ {t} : pc'[u] = pc[u] /\ call'[u] = call[u] /\ draft'[u] = draft[u]
    BY <1>4 DEF IInv, TypeOK, LockPlayer, Begin
  <2> QED
    BY <1>2, <2>1, <2>2, <2>3, TaskStepIInv
<1>5. CASE ReadSession(t, c)
  <2> DEFINE r == sessions[c.id]
             d == CASE c.op = "terminate" -> Terminate(r)
                    [] c.op = "heartbeat" /\ IsExpired(r) -> MarkExpired(r)
                    [] OTHER -> Heartbeat(r)
  <2>1. /\ c.op \in {"heartbeat", "terminate"}
        /\ c.id \in Ids
        /\ r.state # "TERMINATED"
        /\ pc' = [pc EXCEPT ![t] = "write"]
        /\ call' = [call EXCEPT ![t] = c]
        /\ draft' = [draft EXCEPT ![t] = d]
    BY <1>5 DEF ReadSession, Readable, Begin
  <2>2. r \in Session /\ r.revision \in Nat /\ r.expires \in Nat /\ InTime(r)
    BY <2>1, RowTypes DEF IInv, DeadlineInv
  <2>3. /\ d \in Session
        /\ d.revision = r.revision + 1
        /\ DerivedFrom(d, r)
    <3> HIDE DEF r
    <3>1. now \in Nat /\ \E s \in Servers : TRUE
      BY SessionsAssumption DEF IInv, TypeOK
    <3>2. CASE c.op = "terminate"
      BY <2>1, <2>2, <3>1, <3>2, MarkTypes DEF DerivedFrom, InTime, IsActive
    <3>3. CASE c.op = "heartbeat" /\ IsExpired(r)
      BY <2>1, <2>2, <3>1, <3>3, MarkTypes DEF DerivedFrom, IsExpired, InTime, IsActive
    <3>4. CASE c.op = "heartbeat" /\ ~IsExpired(r)
      <4>1. d = Heartbeat(r)
        BY <3>4
      <4>2. /\ Heartbeat(r) \in Session
            /\ Heartbeat(r).state = r.state
            /\ Heartbeat(r).revision = r.revision + 1
            /\ Heartbeat(r).player = r.player
            /\ Heartbeat(r).server = r.server
            /\ Heartbeat(r).expires = now + Timeout
        BY <2>2, <3>1, MarkTypes
      <4>3. /\ now + Timeout \in Nat
            /\ Timeout \in Nat /\ TransitionTimeout \in Nat
            /\ r.state \in {"ACTIVE", "RECONNECTED", "TRANSITIONING"}
        BY <2>1, <2>2, <3>1, <3>4, SessionsAssumption
        DEF IsExpired, Session, States, SessionsAssumption
      <4>4. now + Timeout >= r.expires \/ MayShorten(r)
        BY <2>2, <4>3 DEF InTime, IsActive, MayShorten
      <4>5. InTime(Heartbeat(r))
        BY <4>2, <4>3 DEF InTime
      <4> HIDE DEF d
      <4> QED
        BY <2>1, <4>1, <4>2, <4>3, <4>4, <4>5 DEF DerivedFrom
    <3> QED
      BY <2>1, <3>2, <3>3, <3>4
  <2> HIDE DEF d
  <2>4. TypeOK'
    BY <1>1, <1>2, <1>5, <2>1, <2>3 DEF IInv, TypeOK, ReadSession
  <2>5. Work(t)' /\ DraftFits(t)'
    BY <1>1, <1>2, <2>1, <2>2, <2>3
    DEF IInv, TypeOK, Work, DraftFits, DerivedFrom, InTime, IsActive, MayShorten
  <2>6. \A u \in Tasks \ {t} : pc'[u] = pc[u] /\ call'[u] = call[u] /\ draft'[u] = draft[u]
    BY <2>1 DEF IInv, TypeOK
  <2> QED
    BY <1>2, <2>4, <2>5, <2>6, TaskStepIInv
<1> QED
  BY <1>3, <1>4, <1>5 DEF Start

(* A call that ends, or goes on to save, without a draft.                  *)
LEMMA GotoTask ==
  ASSUME IInv, NEW t \in Tasks, NEW label \in {"idle", "save"},
         Goto(t, label),
         label = "save" => Work(t) /\ pc[t] = "settle"
  PROVE  /\ Work(t)' /\ DraftFits(t)'
         /\ pc' \in [Tasks -> {"idle", "settle", "save", "write", "transition"}]
         /\ call' \in [Tasks -> Requests \cup {NoCall}]
         /\ \A u \in Tasks \ {t} : pc'[u] = pc[u] /\ call'[u] = call[u]
BY DEF IInv, TypeOK, Goto, Work, DraftFits

(* The end of every settling step, whatever it did to the table.           *)
LEMMA SettledIInv ==
  ASSUME IInv, TableStep, OneActive', NEW t \in Tasks,
         NEW label \in {"idle", "save"}, Settled(t, label),
         label = "save" => pc[t] = "settle"
  PROVE  IInv'
<1>1. Work(t)
  BY DEF IInv, WorkInv
<1>2. /\ Work(t)' /\ DraftFits(t)'
      /\ pc' \in [Tasks -> {"idle", "settle", "save", "write", "transition"}]
      /\ call' \in [Tasks -> Requests \cup {NoCall}]
      /\ \A u \in Tasks \ {t} : pc'[u] = pc[u] /\ call'[u] = call[u]
  BY <1>1, GotoTask DEF Settled
<1>3. TypeOK'
  BY <1>2 DEF IInv, TypeOK, TableStep, Settled
<1> QED
  BY <1>2, <1>3, TaskStepIInv DEF Settled

(* The sessions of the player that are still open are closed or resumed.   *)
LEMMA SettleIInv ==
  ASSUME IInv, NEW t \in Tasks, SettleNone(t) \/ SettleCreate(t) \/ SettleReconnect(t)
  PROVE  TableStep /\ IInv'
<1>1. /\ now \in Nat /\ now' = now /\ pc[t] = "settle"
      /\ TypeOK /\ DeadlineInv /\ OneActive
  BY DEF IInv, TypeOK, SettleNone, SettleCreate, SettleReconnect, Settling, Settled
<1>2. CASE \E label \in {"idle", "save"} : sessions' = sessions /\ Settled(t, label)
  BY <1>1, <1>2, UnchangedStep, SettledIInv
<1>3. CASE \E i \in StillOpen(t) :
             /\ IsExpired(sessions[i]) \/ ~CanReconnect(sessions[i])
             /\ Replace(i, MarkExpired(sessions[i]))
             /\ Settled(t, "save")
  <2>1. PICK i \in StillOpen(t) :
          /\ IsExpired(sessions[i]) \/ ~CanReconnect(sessions[i])
          /\ Replace(i, MarkExpired(sessions[i]))
          /\ Settled(t, "save")
    BY <1>3
  <2>2. i \in Ids /\ IsOpen(sessions[i])
    BY <2>1 DEF StillOpen, IInv, TypeOK
  <2>3. sessions[i].state # "TERMINATED"
    BY <2>2 DEF IsOpen, IsActive
  <2>4. IsActive(sessions[i]) => now > sessions[i].expires
    BY <1>1, <2>1, <2>2, RowTypes DEF IsExpired, CanReconnect, IsActive
  <2>5. TableStep /\ OneActive'
    BY <1>1, <2>1, <2>2, <2>3, <2>4, ExpiredEvolves, ReplaceStep
  <2> QED
    BY <1>1, <2>1, <2>5, SettledIInv
<1>4. CASE \E i \in StillOpen(t) :
             /\ CanReconnect(sessions[i])
             /\ Replace(i, MarkReconnected(sessions[i], call[t].server))
             /\ Settled(t, "idle")
             /\ call[t].op = "reconnect"
  <2>1. PICK i \in StillOpen(t) :
          /\ CanReconnect(sessions[i])
          /\ Replace(i, MarkReconnected(sessions[i], call[t].server))
          /\ Settled(t, "idle")
          /\ call[t].op = "reconnect"
    BY <1>4
  <2> DEFINE r == sessions[i]
             q == MarkReconnected(r, call[t].server)
  <2>2. i \in Ids
    BY <2>1 DEF StillOpen, IInv, TypeOK
  <2>3. call[t].server \in Servers
    BY <1>1, <2>1, CallTypes DEF IInv, WorkInv, Work
  <2>4. /\ r \in Session /\ r.expires \in Nat /\ r.expires <= now + Timeout
        /\ Timeout \in Nat /\ IsActive(r) /\ r.state \in {"ACTIVE", "RECONNECTED"}
    BY <2>1, <2>2, RowTypes, SessionsAssumption
    DEF IInv, DeadlineInv, InTime, CanReconnect, IsActive, SessionsAssumption
  <2>5. /\ q \in Session
        /\ q.state = "RECONNECTED"
        /\ q.revision = r.revision + 1
        /\ q.player = r.player
        /\ q.expires = now + Timeout
    BY <1>1, <2>3, <2>4, MarkTypes
  <2>6. now + Timeout \in Nat
    BY <1>1, SessionsAssumption
  <2> HIDE DEF q
  <2>7. Evolves(r, q)
    BY <2>4, <2>5, <2>6 DEF Evolves, MayBecome, InTime
  <2>8. TableStep /\ OneActive'
    BY <1>1, <2>1, <2>2, <2>5, <2>7, ReplaceStep DEF q
  <2> QED
    BY <2>1, <2>8, SettledIInv
<1> QED
  BY <1>2, <1>3, <1>4 DEF SettleNone, SettleCreate, SettleReconnect, Settling

(* The new session of a create or reconnect is inserted.                   *)
LEMMA SaveIInv ==
  ASSUME IInv, NEW t \in Tasks, Save(t)
  PROVE  TableStep /\ IInv'
<1> DEFINE r == NewSession(call[t].player, call[t].server, Timeout)
<1>1. /\ now \in Nat /\ now' = now
      /\ TypeOK /\ DeadlineInv /\ OneActive
      /\ Settled(t, "idle")
  BY DEF IInv, TypeOK, Save, Settled
<1>2. call[t].player \in Players /\ call[t].server \in Servers
  BY CallTypes DEF IInv, WorkInv, Work, Save
<1>3. r \in Session /\ r.expires = now + Timeout /\ now + Timeout \in Nat
  BY <1>1, <1>2, NewTypes, SessionsAssumption
<1>4. TableStep /\ OneActive'
  <2>1. CASE sessions' = sessions
    BY <1>1, <2>1, UnchangedStep
  <2>2. CASE IndexAllows(r) /\ sessions' = Append(sessions, r)
    <3> HIDE DEF r
    <3>1. UniqueActiveIndex /\ IsActive(r) =>
            \A j \in Ids : sessions[j].player = r.player => ~IsActive(sessions[j])
      BY <2>2 DEF IndexAllows
    <3>2. InTime(r)
      BY <1>3 DEF InTime
    <3> QED
      BY <1>1, <1>3, <2>2, <3>1, <3>2, AppendStep
  <2> QED
    BY <2>1, <2>2 DEF Save
<1> QED
  BY <1>1, <1>4, SettledIInv

(* The UPDATE of a session, at the revision that was read.                 *)
LEMMA WriteIInv ==
  ASSUME IInv, NEW t \in Tasks, WriteSession(t)
  PROVE  TableStep /\ IInv'
<1> DEFINE i == call[t].id
<1>1. /\ now \in Nat /\ now' = now /\ Goto(t, "idle")
      /\ TypeOK /\ DeadlineInv /\ OneActive
      /\ Work(t) /\ DraftFits(t) /\ pc[t] = "write"
      /\ i \in Ids /\ draft[t] \in Session
  BY DEF IInv, TypeOK, WriteSession, WorkInv, DraftInv, Work
<1>2. TableStep /\ OneActive'
  <2>1. CASE ~UpToDate(t)
    BY <1>1, <2>1, UnchangedStep DEF WriteSession
  <2>2. CASE UpToDate(t)
    <3> DEFINE r == sessions[i]
               d == draft[t]
    <3>1. /\ Replace(i, d)
          /\ DerivedFrom(d, r)
          /\ r.revision = d.revision - 1
      BY <1>1, <2>2 DEF WriteSession, DraftFits, UpToDate
    <3>2. /\ d.revision \in Nat /\ d.state \in States
          /\ r.revision \in Nat /\ r.state \in States
      BY <1>1, RowTypes DEF Session
    <3> HIDE DEF r, d
    <3>3. /\ MayBecome(r.state, d.state)
          /\ IsActive(d) => IsActive(r)
          /\ IsActive(r) /\ d.state = "EXPIRED" => now > r.expires
      BY <3>1, <3>2 DEF DerivedFrom, MayBecome, IsActive, States
    <3>4. Evolves(r, d)
      BY <3>1, <3>2, <3>3 DEF Evolves, DerivedFrom
    <3> QED
      BY <1>1, <3>1, <3>4, ReplaceStep DEF r, d
  <2> QED
    BY <2>1, <2>2
<1>3. /\ Work(t)' /\ DraftFits(t)'
      /\ pc' \in [Tasks -> {"idle", "settle", "save", "write", "transition"}]
      /\ call' \in [Tasks -> Requests \cup {NoCall}]
      /\ \A u \in Tasks \ {t} : pc'[u] = pc[u] /\ call'[u] = call[u]
  BY <1>1, GotoTask
<1>4. TypeOK' /\ \A u \in Tasks \ {t} : draft'[u] = draft[u]
  BY <1>2, <1>3 DEF IInv, TypeOK, TableStep, WriteSession
<1> QED
  BY <1>2, <1>3, <1>4, TaskStepIInv

(* The end of a transition, whatever it did to the table.                  *)
LEMMA EndTransitionIInv ==
  ASSUME IInv, TableStep, OneActive', NEW t \in Tasks, EndTransition(t),
         transitions' \subseteq [player : Players, from : Servers, to : Servers]
  PROVE  IInv'
<1>1. /\ Work(t)' /\ DraftFits(t)'
      /\ pc' \in [Tasks -> {"idle", "settle", "save", "write", "transition"}]
      /\ call' \in [Tasks -> Requests \cup {NoCall}]
      /\ \A u \in Tasks \ {t} : pc'[u] = pc[u] /\ call'[u] = call[u]
  BY GotoTask DEF EndTransition
<1>2. TypeOK'
  BY <1>1 DEF IInv, TypeOK, TableStep, EndTransition
<1> QED
  BY <1>1, <1>2, TaskStepIInv DEF EndTransition

(* A transition hands the session to the other server, or opens one.       *)
LEMMA TransitionIInv ==
  ASSUME IInv, NEW t \in Tasks, TransitionNew(t) \/ TransitionOwned(t)
  PROVE  TableStep /\ IInv'
<1> DEFINE c == call[t]
<1>1. /\ now \in Nat /\ now' = now /\ EndTransition(t)
      /\ TypeOK /\ DeadlineInv /\ OneActive
      /\ c \in Requests /\ c.op = "transition"
  BY DEF IInv, TypeOK, TransitionNew, TransitionOwned, EndTransition, WorkInv, Work
<1>2. c.player \in Players /\ c.from \in Servers /\ c.to \in Servers
  BY <1>1, CallTypes
<1>3. transitions' \subseteq [player : Players, from : Servers, to : Servers]
  BY <1>1, <1>2 DEF TypeOK, TransitionNew, TransitionOwned
<1>4. CASE TransitionNew(t)
  <2> DEFINE n == NewSession(c.player, c.to, TransitionTimeout)
             r == MarkTransitioning(n, c.to)
  <2>1. /\ n \in Session
        /\ n.expires = now + TransitionTimeout /\ n.revision = 0
        /\ TransitionTimeout \in Nat /\ Timeout \in Nat
    BY <1>1, <1>2, NewTypes, SessionsAssumption DEF SessionsAssumption
  <2> HIDE DEF n
  <2>2. /\ r \in Session /\ r.state = "TRANSITIONING"
        /\ r.expires = n.expires /\ r.revision = 1
    BY <1>1, <1>2, <2>1, MarkTypes
  <2>3. sessions' = Append(sessions, r)
    BY <1>4 DEF TransitionNew, n
  <2> HIDE DEF r
  <2>4. ~IsActive(r) /\ InTime(r)
    BY <1>1, <2>1, <2>2 DEF IsActive, InTime
  <2>5. TableStep /\ OneActive'
    BY <1>1, <2>2, <2>3, <2>4, AppendStep
  <2> QED
    BY <1>1, <1>3, <2>5, EndTransitionIInv
<1>5. CASE TransitionOwned(t)
  <2>1. PICK i \in StillActive(t) :
          sessions' = sessions \/ Replace(i, MarkTransitioning(sessions[i], c.to))
    BY <1>5 DEF TransitionOwned
  <2>2. CASE sessions' = sessions
    BY <1>1, <1>3, <2>2, UnchangedStep, EndTransitionIInv
  <2>3. CASE Replace(i, MarkTransitioning(sessions[i], c.to))
    <3> DEFINE r == sessions[i]
               q == MarkTransitioning(r, c.to)
    <3>1. /\ i \in Ids
          /\ r \in Session /\ r.expires \in Nat /\ r.expires <= now + Timeout
          /\ IsActive(r) /\ r.state \in {"ACTIVE", "RECONNECTED"}
      BY <1>1, <2>1, RowTypes DEF StillActive, TypeOK, DeadlineInv, InTime, IsActive
    <3>2. /\ q \in Session
          /\ q.state = "TRANSITIONING"
          /\ q.revision = r.revision + 1
          /\ q.player = r.player
          /\ q.expires = r.expires
      BY <1>1, <1>2, <3>1, MarkTypes
    <3> HIDE DEF q
    <3>3. Evolves(r, q)
      BY <3>1, <3>2 DEF Evolves, MayBecome, InTime, IsActive
    <3>4. TableStep /\ OneActive'
      BY <1>1, <2>3, <3>1, <3>2, <3>3, ReplaceStep DEF q
    <3> QED
      BY <1>1, <1>3, <3>4, EndTransitionIInv
  <2> QED
    BY <2>1, <2>2, <2>3
<1> QED
  BY <1>4, <1>5

(* A crash forgets the call; what was committed stays.                     *)
LEMMA CrashIInv ==
  ASSUME IInv, NEW t \in Tasks, Crash(t)
  PROVE  TableStep /\ IInv'
<1>1. TableStep /\ Ids' = Ids /\ OneActive'
  BY UnchangedStep DEF IInv, TypeOK, Crash
<1>2. /\ Work(t)' /\ DraftFits(t)'
      /\ pc' \in [Tasks -> {"idle", "settle", "save", "write", "transition"}]
      /\ call' \in [Tasks -> Requests \cup {NoCall}]
      /\ \A u \in Tasks \ {t} : pc'[u] = pc[u] /\ call'[u] = call[u]
  BY GotoTask DEF Crash
<1>3. TypeOK' /\ \A u \in Tasks \ {t} : draft'[u] = draft[u]
  BY <1>1, <1>2 DEF IInv, TypeOK, TableStep, Crash
<1> QED
  BY <1>1, <1>2, <1>3, TaskStepIInv

(* Every step is a TableStep and keeps the invariant.                      *)
LEMMA NextIInv ==
  ASSUME IInv, [Next]_vars
  PROVE  TableStep /\ IInv'
<1>1. CASE UNCHANGED vars
  <2>1. TableStep /\ Ids' = Ids /\ OneActive'
    BY <1>1, UnchangedStep DEF vars, IInv, TypeOK
  <2>2. TypeOK'
    BY <1>1, <2>1 DEF vars, taskVars, IInv, TypeOK, TableStep
  <2>3. \A u \in Tasks : Work(u)' /\ DraftFits(u)'
    BY <1>1, <2>1, OthersKeep DEF vars, taskVars
  <2> QED
    BY <2>1, <2>2, <2>3 DEF IInv, TableStep, WorkInv, DraftInv
<1>2. ASSUME NEW t \in Tasks, NEW c \in Requests, Start(t, c)
      PROVE  TableStep /\ IInv'
  BY <1>2, StartIInv
<1>3. ASSUME NEW t \in Tasks, TaskStep(t) \/ Crash(t)
      PROVE  TableStep /\ IInv'
  BY <1>3, SettleIInv, SaveIInv, WriteIInv, TransitionIInv, CrashIInv DEF TaskStep
<1> QED
  BY <1>1, <1>2, <1>3, SweepIInv, TickIInv DEF Next

-----------------------------------------------------------------------------
(* The theorems.                                                           *)

(* The invariant holds in every behaviour.                                 *)
THEOREM Invariance == Spec => []IInv
<1>1. IInv /\ [Next]_vars => IInv'
  BY NextIInv
<1> QED
  BY InitIInv, <1>1, PTL DEF Spec

(* Every variable keeps its type.                                          *)
THEOREM TypeCorrect == Spec => []TypeOK
<1>1. IInv => TypeOK
  BY DEF IInv
<1> QED
  BY Invariance, <1>1, PTL

(* With the unique partial index of migration 008, however create_session, *)
(* reconnect and the others interleave, a player has one active session.   *)
THEOREM OneSession == ASSUME UniqueActiveIndex PROVE Spec => []AtMostOneActive
<1>1. IInv => AtMostOneActive
  BY DEF IInv, OneActive
<1> QED
  BY Invariance, <1>1, PTL

(* Sessions live as LifeStep says: the revision check keeps the old copies *)
(* of heartbeat and terminate from bringing a session back.                *)
THEOREM LifecycleHolds == Spec => Lifecycle
<1>1. IInv /\ [Next]_vars => LifeStep
  <2> SUFFICES ASSUME IInv, [Next]_vars PROVE LifeStep
    OBVIOUS
  <2> QED
    BY NextIInv DEF TableStep, Evolves, LifeStep
<1> QED
  BY Invariance, <1>1, PTL DEF Spec, Lifecycle

(* A session that is active is expired only after its deadline.            *)
THEOREM ExpiryIsJustified == Spec => ExpiryJustified
<1>1. IInv /\ [Next]_vars => ExpiryStep
  <2> SUFFICES ASSUME IInv, [Next]_vars PROVE ExpiryStep
    OBVIOUS
  <2> QED
    BY NextIInv DEF TableStep, Evolves, ExpiryStep, IsActive
<1> QED
  BY Invariance, <1>1, PTL DEF Spec, ExpiryJustified

(* No step moves a deadline backwards, but the first heartbeat of a        *)
(* session that a longer transition created.                               *)
THEOREM DeadlinesOnlyAdvance == Spec => DeadlinesAdvance
<1>1. IInv /\ [Next]_vars => DeadlineStep
  <2> SUFFICES ASSUME IInv, [Next]_vars PROVE DeadlineStep
    OBVIOUS
  <2>1. \A i \in Ids : sessions[i].expires \in Nat
    BY RowTypes DEF IInv
  <2> QED
    BY <2>1, NextIInv DEF TableStep, Evolves, DeadlineStep, MayShorten
<1> QED
  BY Invariance, <1>1, PTL DEF Spec, DeadlinesAdvance

=============================================================================
