------------------------------ MODULE Sessions ------------------------------
(***************************************************************************)
(* SessionService and PostgresSessionRepository: the sessions of players   *)
(* on game servers.  Tasks run the service's operations concurrently; a    *)
(* step is one statement, or one database transaction from the statement   *)
(* that locks its row to its COMMIT: nobody can change the row in between  *)
(* and nothing else is waited for.  A task may be dropped between any two  *)
(* steps.  Time is one clock, read by the service and by the database.     *)
(***************************************************************************)
EXTENDS Integers, Sequences

CONSTANTS
  Tasks,               \* server tasks, each running one call at a time
  NoTask,              \* owner of an advisory lock nobody holds
  Players,             \* registered players
  Servers,             \* game servers
  Timeout,             \* heartbeat_timeout_secs
  TransitionTimeout,   \* the 300 s of a session begin_transition creates; the
                       \* configured Timeout may be longer or shorter
  UniqueActiveIndex,   \* is idx_sessions_active_player UNIQUE?  In the migrations it
                       \* is, in POSTGRES_DDL_SCHEMA, the schema of the tests, it is not
  Requests,            \* the calls that are made, see Calls
  MaxNow,              \* bound: ticks of the clock
  MaxSessions,         \* bound: rows of sessions
  MaxRevision          \* bound: updates of one session by calls

Calls ==
  [op : {"create", "reconnect"}, player : Players, server : Servers]
    \cup [op : {"heartbeat", "terminate"}, id : 1..MaxSessions]
    \cup [op : {"transition"}, player : Players, from : Servers, to : Servers]

ASSUME SessionsAssumption ==
  /\ NoTask \notin Tasks
  /\ Players # {} /\ Servers # {}
  /\ Timeout \in Nat /\ TransitionTimeout \in Nat
  /\ UniqueActiveIndex \in BOOLEAN
  /\ Requests \subseteq Calls
  /\ MaxNow \in Nat /\ MaxSessions \in Nat /\ MaxRevision \in Nat

VARIABLES
  now,          \* the clock
  sessions,     \* the sessions table, in order of created_at; the id is the position
  transitions,  \* the PENDING rows of player_transitions
  advisory,     \* who holds a player's pg_advisory_xact_lock
  pc,           \* where each task is
  call,         \* the call a task runs
  found,        \* the rows a task's SELECT ... FOR UPDATE matched in its snapshot
  draft         \* the row a task is about to write back

taskVars == <<pc, call, found, draft>>
vars == <<now, sessions, transitions, advisory, taskVars>>

States == {"ACTIVE", "EXPIRED", "TERMINATED", "RECONNECTED", "TRANSITIONING"}

Session ==
  [player : Players, server : Servers, state : States, expires : Nat, revision : Nat]

NoCall == [op |-> "none"]

-----------------------------------------------------------------------------
(* PlayerSession.                                                          *)

(* Mutant: the deadline lies in the past.                                  *)
OutdatedSession(p, s, timeout) ==
  [player |-> p, server |-> s, state |-> "ACTIVE", expires |-> now - timeout, revision |-> 0]

NewSession(p, s, timeout) ==
  [player |-> p, server |-> s, state |-> "ACTIVE", expires |-> now + timeout, revision |-> 0]

IsActive(r) == r.state \in {"ACTIVE", "RECONNECTED"}
IsOpen(r) == IsActive(r) \/ r.state = "TRANSITIONING"
IsExpired(r) == r.state = "EXPIRED" \/ now > r.expires
CanReconnect(r) == IsActive(r) /\ now <= r.expires

Heartbeat(r) == [r EXCEPT !.expires = now + Timeout, !.revision = @ + 1]
Terminate(r) == [r EXCEPT !.state = "TERMINATED", !.revision = @ + 1]
MarkExpired(r) == [r EXCEPT !.state = "EXPIRED", !.revision = @ + 1]
MarkReconnected(r, s) ==
  [r EXCEPT !.state = "RECONNECTED", !.server = s, !.expires = now + Timeout, !.revision = @ + 1]
MarkTransitioning(r, s) ==
  [r EXCEPT !.state = "TRANSITIONING", !.server = s, !.revision = @ + 1]

-----------------------------------------------------------------------------
(* The table.                                                              *)

Ids == DOMAIN sessions

(* Mutant: no index refuses a row.                                         *)
NoIndex(r) == TRUE

(* The partial index on ACTIVE and RECONNECTED rows refuses a second one   *)
(* of the same player, if it is UNIQUE.                                    *)
IndexAllows(r) ==
  UniqueActiveIndex /\ IsActive(r) =>
    \A i \in Ids : sessions[i].player = r.player => ~IsActive(sessions[i])

(* SELECT ... ORDER BY created_at DESC LIMIT 1 FOR UPDATE: the newest row  *)
(* of the snapshot that still matches when its lock is granted.            *)
Newest(i, S) == i \in S /\ \A j \in S : j <= i

(* Mutant: the row is not looked at again when its lock is granted.        *)
FoundOpen(t) == found[t]

StillOpen(t) == {i \in found[t] : IsOpen(sessions[i])}
StillActive(t) == {i \in found[t] : IsActive(sessions[i])}

(* A task starts a call, and ends it whatever the answer is.               *)
Begin(t, c, label) ==
  /\ pc[t] = "idle"
  /\ pc' = [pc EXCEPT ![t] = label]
  /\ call' = [call EXCEPT ![t] = c]

Goto(t, label) ==
  /\ pc' = [pc EXCEPT ![t] = label]
  /\ call' = IF label = "idle" THEN [call EXCEPT ![t] = NoCall] ELSE call

Replace(i, r) == sessions' = [sessions EXCEPT ![i] = r]

Init ==
  /\ now = 0
  /\ sessions = <<>>
  /\ transitions = {}
  /\ advisory = [p \in Players |-> NoTask]
  /\ pc = [t \in Tasks |-> "idle"]
  /\ call = [t \in Tasks |-> NoCall]
  /\ found = [t \in Tasks |-> {}]
  /\ draft = [t \in Tasks |-> <<>>]

-----------------------------------------------------------------------------
(* create_session and reconnect: find the newest open session and lock it, *)
(* settle it and COMMIT; then INSERT a new one outside the transaction.    *)

FindForUpdate(t, c) ==
  /\ c.op \in {"create", "reconnect"}
  /\ Begin(t, c, "settle")
  /\ found' = [found EXCEPT ![t] = {i \in Ids : /\ sessions[i].player = c.player
                                                /\ IsOpen(sessions[i])}]
  /\ UNCHANGED <<now, sessions, transitions, advisory, draft>>

Settling(t, op) == pc[t] = "settle" /\ call[t].op = op

Settled(t, label) ==
  /\ Goto(t, label)
  /\ found' = [found EXCEPT ![t] = {}]
  /\ UNCHANGED <<now, transitions, advisory, draft>>

(* No open session: COMMIT, then insert.                                   *)
SettleNone(t) ==
  /\ pc[t] = "settle"
  /\ StillOpen(t) = {}
  /\ UNCHANGED sessions
  /\ Settled(t, "save")

(* create_session meets an open session: DuplicateSession, or it expires a *)
(* session past its deadline.                                              *)
SettleCreate(t) ==
  /\ Settling(t, "create")
  /\ \E i \in StillOpen(t) :
       /\ Newest(i, StillOpen(t))
       /\ \/ /\ ~IsExpired(sessions[i])
             /\ UNCHANGED sessions
             /\ Settled(t, "idle")
          \/ /\ IsExpired(sessions[i])
             /\ Replace(i, MarkExpired(sessions[i]))
             /\ Settled(t, "save")

(* reconnect takes an active session over, and expires any other open one, *)
(* a session in transition included.                                       *)
SettleReconnect(t) ==
  /\ Settling(t, "reconnect")
  /\ \E i \in StillOpen(t) :
       /\ Newest(i, StillOpen(t))
       /\ \/ /\ CanReconnect(sessions[i])
             /\ sessions[i].revision < MaxRevision
             /\ Replace(i, MarkReconnected(sessions[i], call[t].server))
             /\ Settled(t, "idle")
          \/ /\ ~CanReconnect(sessions[i])
             /\ Replace(i, MarkExpired(sessions[i]))
             /\ Settled(t, "save")

(* save: one row, INSERTed on its own; a session that the index refuses    *)
(* ends the call with an InternalStateError.                               *)
Save(t) ==
  LET r == NewSession(call[t].player, call[t].server, Timeout) IN
  /\ pc[t] = "save"
  /\ Len(sessions) < MaxSessions
  /\ sessions' = IF IndexAllows(r) THEN Append(sessions, r) ELSE sessions
  /\ Settled(t, "idle")

-----------------------------------------------------------------------------
(* heartbeat and terminate_session: read the row without a lock, change    *)
(* the copy, write it back if the revision is still the one read.          *)

(* An unknown session is SessionNotFound, a terminated one SessionTerminated. *)
Readable(c) == c.id \in Ids /\ sessions[c.id].state # "TERMINATED"

ReadSession(t, c) ==
  LET r == sessions[c.id] IN
  /\ c.op \in {"heartbeat", "terminate"}
  /\ Readable(c)
  /\ r.revision < MaxRevision
  /\ Begin(t, c, "write")
  /\ draft' = [draft EXCEPT ![t] =
       CASE c.op = "terminate" -> Terminate(r)
         [] c.op = "heartbeat" /\ IsExpired(r) -> MarkExpired(r)
         [] OTHER -> Heartbeat(r)]
  /\ UNCHANGED <<now, sessions, transitions, advisory, found>>

(* Mutant: the UPDATE has no condition on the revision.                    *)
AnyRevision(t) == TRUE

(* update: WHERE revision = the draft's minus 1, else a RevisionConflict.  *)
UpToDate(t) == sessions[call[t].id].revision = draft[t].revision - 1

WriteSession(t) ==
  /\ pc[t] = "write"
  /\ IF UpToDate(t) THEN Replace(call[t].id, draft[t]) ELSE UNCHANGED sessions
  /\ Goto(t, "idle")
  /\ draft' = [draft EXCEPT ![t] = <<>>]
  /\ UNCHANGED <<now, transitions, advisory, found>>

-----------------------------------------------------------------------------
(* begin_transition_atomic: one transaction under the player's advisory    *)
(* lock.                                                                   *)

LockPlayer(t, c) ==
  /\ c.op = "transition"
  /\ Begin(t, c, "transition")
  /\ advisory[c.player] = NoTask
  /\ advisory' = [advisory EXCEPT ![c.player] = t]
  /\ found' = [found EXCEPT ![t] = {i \in Ids : /\ sessions[i].player = c.player
                                                /\ IsActive(sessions[i])}]
  /\ UNCHANGED <<now, sessions, transitions, draft>>

EndTransition(t) ==
  /\ Goto(t, "idle")
  /\ advisory' = [advisory EXCEPT ![call[t].player] = NoTask]
  /\ found' = [found EXCEPT ![t] = {}]
  /\ UNCHANGED <<now, draft>>

(* No active session: one is created, already in transition, without a     *)
(* transition record.                                                      *)
TransitionNew(t) ==
  LET c == call[t] IN
  /\ pc[t] = "transition"
  /\ StillActive(t) = {}
  /\ Len(sessions) < MaxSessions
  /\ sessions' = Append(sessions,
       MarkTransitioning(NewSession(c.player, c.to, TransitionTimeout), c.to))
  /\ UNCHANGED transitions
  /\ EndTransition(t)

(* The newest active session: ServerIdentityMismatch if another server     *)
(* owns it, else it is handed over, whatever its deadline.                 *)
TransitionOwned(t) ==
  LET c == call[t] IN
  /\ pc[t] = "transition"
  /\ \E i \in StillActive(t) :
       /\ Newest(i, StillActive(t))
       /\ IF sessions[i].server # c.from
          THEN UNCHANGED <<sessions, transitions>>
          ELSE /\ Replace(i, MarkTransitioning(sessions[i], c.to))
               /\ transitions' = transitions \cup
                    {[player |-> c.player, from |-> c.from, to |-> c.to]}
  /\ EndTransition(t)

-----------------------------------------------------------------------------
(* expire_stale_sessions, one statement of every scheduler tick.           *)

(* Mutant: the sweep is early by one.                                      *)
IsDue(r) == IsActive(r) /\ r.expires <= now

IsStale(r) == IsActive(r) /\ r.expires < now

(* Mutant: the sweep forgets RECONNECTED sessions.                         *)
ExpireActiveSessions ==
  /\ \E i \in Ids : IsStale(sessions[i]) /\ sessions[i].state = "ACTIVE"
  /\ sessions' = [i \in Ids |->
       IF IsStale(sessions[i]) /\ sessions[i].state = "ACTIVE"
       THEN MarkExpired(sessions[i]) ELSE sessions[i]]
  /\ UNCHANGED <<now, transitions, advisory, taskVars>>

ExpireStaleSessions ==
  /\ \E i \in Ids : IsStale(sessions[i])
  /\ sessions' = [i \in Ids |->
       IF IsStale(sessions[i]) THEN MarkExpired(sessions[i]) ELSE sessions[i]]
  /\ UNCHANGED <<now, transitions, advisory, taskVars>>

Tick ==
  /\ now < MaxNow
  /\ now' = now + 1
  /\ UNCHANGED <<sessions, transitions, advisory, taskVars>>

(* The task is dropped: what it has not committed is rolled back, what it  *)
(* has committed stays.                                                    *)
Crash(t) ==
  /\ pc[t] # "idle"
  /\ Goto(t, "idle")
  /\ advisory' = [p \in DOMAIN advisory |-> IF advisory[p] = t THEN NoTask ELSE advisory[p]]
  /\ found' = [found EXCEPT ![t] = {}]
  /\ draft' = [draft EXCEPT ![t] = <<>>]
  /\ UNCHANGED <<now, sessions, transitions>>

-----------------------------------------------------------------------------
Start(t, c) == FindForUpdate(t, c) \/ ReadSession(t, c) \/ LockPlayer(t, c)

TaskStep(t) ==
  \/ SettleNone(t) \/ SettleCreate(t) \/ SettleReconnect(t) \/ Save(t)
  \/ WriteSession(t) \/ TransitionNew(t) \/ TransitionOwned(t)

Next ==
  \/ \E t \in Tasks, c \in Requests : Start(t, c)
  \/ \E t \in Tasks : TaskStep(t) \/ Crash(t)
  \/ ExpireStaleSessions
  \/ Tick

Spec == Init /\ [][Next]_vars

(* The scheduler runs the sweep in each of its ticks, which never stop     *)
(* while a server runs.                                                    *)
FairSpec == Spec /\ WF_vars(ExpireStaleSessions)

-----------------------------------------------------------------------------
(* Properties.                                                             *)

(* The type of every variable.                                             *)
TypeOK ==
  /\ now \in Nat
  /\ sessions \in Seq(Session)
  /\ transitions \subseteq [player : Players, from : Servers, to : Servers]
  /\ advisory \in [Players -> Tasks \cup {NoTask}]
  /\ pc \in [Tasks -> {"idle", "settle", "save", "write", "transition"}]
  /\ call \in [Tasks -> Requests \cup {NoCall}]
  /\ found \in [Tasks -> SUBSET Ids]
  /\ draft \in [Tasks -> Session \cup {<<>>}]

(* Two calls that both find no open session, or a reconnect that races a   *)
(* heartbeat, leave a player with one active session at most               *)
(* (SESSION_ARCHITECTURE.md, unique partial index).                        *)
AtMostOneActive ==
  \A i, j \in Ids :
    /\ IsActive(sessions[i])
    /\ IsActive(sessions[j])
    /\ sessions[i].player = sessions[j].player
    => i = j

(* What a session's life may look like, whoever holds an old copy of it: a *)
(* terminated one never changes, an expired one is at most terminated, one *)
(* handed over to another server never comes back, and its server changes  *)
(* only when a reconnect or a transition takes it.  This is less than the  *)
(* State Machine Rules of SESSION_ARCHITECTURE.md allow: a heartbeat       *)
(* does not take RECONNECTED back to ACTIVE, and no operation commits or   *)
(* aborts a transition (lines 46, 48 and 49 there).                        *)
MayBecome(from, to) ==
  \/ from = "ACTIVE"
  \/ from = "RECONNECTED" /\ to # "ACTIVE"
  \/ from = "TRANSITIONING" /\ to \in {"TRANSITIONING", "EXPIRED", "TERMINATED"}
  \/ from = "EXPIRED" /\ to \in {"EXPIRED", "TERMINATED"}

LifeStep ==
  \A i \in Ids : sessions'[i] # sessions[i] =>
    /\ MayBecome(sessions[i].state, sessions'[i].state)
    /\ sessions'[i].server # sessions[i].server =>
         /\ IsActive(sessions[i])
         /\ sessions'[i].state \in {"RECONNECTED", "TRANSITIONING"}

Lifecycle == [][LifeStep]_vars

(* An active session is expired only when its deadline has passed: a       *)
(* heartbeat that was accepted is never undone by the expiry another task  *)
(* had decided on before it.                                               *)
ExpiryStep ==
  \A i \in Ids :
    IsActive(sessions[i]) /\ sessions'[i].state = "EXPIRED" => now > sessions[i].expires

ExpiryJustified == [][ExpiryStep]_vars

(* A late write never moves the deadline of a session backwards.  Only the *)
(* first heartbeat of a session that a transition created may, where the   *)
(* configured timeout is shorter than the transition's.                    *)
MayShorten(r) ==
  TransitionTimeout > Timeout /\ r.state = "TRANSITIONING" /\ r.revision = 1

DeadlineStep ==
  \A i \in Ids :
    sessions'[i].expires >= sessions[i].expires \/ MayShorten(sessions[i])

DeadlinesAdvance == [][DeadlineStep]_vars

(* A session past its deadline does not stay active: the sweep of the      *)
(* scheduler gets it, or somebody renews or ends it first.                 *)
Stale(i) == i \in Ids /\ IsStale(sessions[i])

StaleSessionsExpire == \A i \in 1..MaxSessions : Stale(i) ~> ~Stale(i)

(* "Sessions owned by crashed server eventually expire"                    *)
(* (SESSION_ARCHITECTURE.md, Server Crash): no session stays past its      *)
(* deadline, and open, for ever.                                           *)
Overdue(i) == i \in Ids /\ IsOpen(sessions[i]) /\ sessions[i].expires < now

OverdueSessionsExpire == \A i \in 1..MaxSessions : Overdue(i) ~> ~Overdue(i)

(* The inductive invariant: what a task that holds a copy of a row knows   *)
(* about the row as long as its revision has not moved on.                 *)
InTime(r) ==
  \/ IsActive(r)
  \/ r.state = "TRANSITIONING" /\ r.revision # 1
  \/ TransitionTimeout <= Timeout
  => r.expires <= now + Timeout

DeadlineInv == \A i \in Ids : InTime(sessions[i])

Work(t) ==
  /\ pc[t] # "idle" => call[t] \in Requests
  /\ pc[t] \in {"settle", "save"} => call[t].op \in {"create", "reconnect"}
  /\ pc[t] = "transition" => call[t].op = "transition"
  /\ pc[t] = "write" =>
       /\ call[t].op \in {"heartbeat", "terminate"}
       /\ call[t].id \in Ids
       /\ draft[t] \in Session
       /\ draft[t].revision <= sessions[call[t].id].revision + 1

WorkInv == \A t \in Tasks : Work(t)

DerivedFrom(d, r) ==
  /\ d.player = r.player
  /\ d.server = r.server
  /\ InTime(d)
  /\ d.expires >= r.expires \/ MayShorten(r)
  /\ r.state # "TERMINATED"
  /\ \/ d.state = "TERMINATED"
     \/ d.state = "EXPIRED" /\ (r.state = "EXPIRED" \/ now > r.expires)
     \/ d.state = r.state /\ r.state # "EXPIRED"

DraftFits(t) ==
  pc[t] = "write" /\ UpToDate(t) => DerivedFrom(draft[t], sessions[call[t].id])

DraftInv == \A t \in Tasks : DraftFits(t)

OneActive == UniqueActiveIndex => AtMostOneActive

IInv ==
  /\ TypeOK
  /\ DeadlineInv
  /\ WorkInv
  /\ DraftInv
  /\ OneActive

=============================================================================
