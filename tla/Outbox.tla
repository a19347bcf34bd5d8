------------------------------- MODULE Outbox -------------------------------
(***************************************************************************)
(* The transactional outbox: events that economy transactions insert with  *)
(* their COMMIT, and OutboxWorker::process_next_batch, run by every server *)
(* in its scheduler ticks.  A worker claims a batch of rows in one         *)
(* transaction, then publishes each event and records what came of it,     *)
(* outside of any transaction.  Time is the seconds that a row still has   *)
(* to wait before it is available.                                         *)
(***************************************************************************)
EXTENDS Integers, Sequences, FiniteSets, Functions

CONSTANTS
  Workers,         \* the servers' outbox workers
  BatchSize,       \* OUTBOX_BATCH_SIZE
  MaxBackoff,      \* 3600 s, the cap of the delay of a retry
  WordSize,        \* 64: 2_u64.pow wraps at 2^64 in a release build
  PoisonDelay,     \* 24 h, the delay of an event that cannot be read
  MaxEvents,       \* bound: rows of outbox_events
  MaxConversions,  \* bound: how many of them are of conversions
  MaxAttempts,     \* bound: how often the publisher fails for one event
  MaxCrashes       \* bound: how often a worker stops in the middle

ASSUME OutboxAssumption ==
  /\ BatchSize \in Nat \ {0}
  /\ MaxBackoff \in Nat /\ WordSize \in Nat /\ PoisonDelay \in Nat
  /\ MaxEvents \in Nat /\ MaxConversions \in Nat
  /\ MaxAttempts \in Nat /\ MaxCrashes \in Nat

VARIABLES
  outbox,     \* the rows of outbox_events, in order of created_at; the id is the position
  delivered,  \* how often the publisher accepted each event
  pc,         \* where each worker is
  batch,      \* the rows of a worker's batch still to be done, with the attempt_count read
  crashes     \* how many workers have stopped in the middle

vars == <<outbox, delivered, pc, batch, crashes>>

Event ==
  [readable : BOOLEAN, attempts : Nat, wait : Nat,
   status : {"PENDING", "PROCESSING", "PUBLISHED", "FAILED"}]

Ids == DOMAIN outbox
NoBatch == [i \in {} |-> 0]
Holds(w, i) == i \in DOMAIN batch[w]

Init ==
  /\ outbox = <<>>
  /\ delivered = <<>>
  /\ pc = [w \in Workers |-> "idle"]
  /\ batch = [w \in Workers |-> NoBatch]
  /\ crashes = 0

-----------------------------------------------------------------------------
(* A transfer inserts the whole DomainEvent, a conversion only its payload,*)
(* which the worker cannot read back as a DomainEvent.                     *)

Emit(readable) ==
  /\ Len(outbox) < MaxEvents
  /\ outbox' = Append(outbox, [readable |-> readable, attempts |-> 0, wait |-> 0,
                               status |-> "PENDING"])
  /\ delivered' = Append(delivered, 0)
  /\ UNCHANGED <<pc, batch, crashes>>

EmitTransfer == Emit(TRUE)

EmitConversion ==
  /\ Cardinality({i \in Ids : ~outbox[i].readable}) < MaxConversions
  /\ Emit(FALSE)

-----------------------------------------------------------------------------
(* SELECT ... ORDER BY created_at LIMIT n FOR UPDATE SKIP LOCKED, UPDATE   *)
(* to PROCESSING, COMMIT.                                                  *)

(* Mutants: rows that are PROCESSING are taken again, FAILED ones never.    *)
AvailableAgain(i) ==
  outbox[i].status \in {"PENDING", "FAILED", "PROCESSING"} /\ outbox[i].wait = 0
AvailableOnce(i) == outbox[i].status = "PENDING" /\ outbox[i].wait = 0

Available(i) == outbox[i].status \in {"PENDING", "FAILED"} /\ outbox[i].wait = 0

(* Mutant: the SELECT has no FOR UPDATE.                                   *)
NeverLocked(i) == FALSE

Locked(i) == \E w \in Workers : pc[w] = "claim" /\ Holds(w, i)
Candidates == {i \in Ids : Available(i) /\ ~Locked(i)}

Oldest(S) == {i \in S : Cardinality({j \in S : j < i}) < BatchSize}

SelectBatch(w) ==
  LET rows == Oldest(Candidates) IN
  /\ pc[w] = "idle"
  /\ rows # {}
  /\ batch' = [batch EXCEPT ![w] = [i \in rows |-> outbox[i].attempts]]
  /\ pc' = [pc EXCEPT ![w] = "claim"]
  /\ UNCHANGED <<outbox, delivered, crashes>>

Claim(w) ==
  /\ pc[w] = "claim"
  /\ outbox' = [i \in Ids |->
       IF Holds(w, i) THEN [outbox[i] EXCEPT !.status = "PROCESSING"] ELSE outbox[i]]
  /\ pc' = [pc EXCEPT ![w] = "publish"]
  /\ UNCHANGED <<delivered, batch, crashes>>

-----------------------------------------------------------------------------
(* The events of the batch, oldest first.                                  *)

Current(w, i) == Holds(w, i) /\ \A j \in DOMAIN batch[w] : i <= j

PublishOk(w, i) ==
  /\ pc[w] = "publish"
  /\ Current(w, i)
  /\ outbox[i].readable
  /\ delivered' = [delivered EXCEPT ![i] = @ + 1]
  /\ pc' = [pc EXCEPT ![w] = "published"]
  /\ UNCHANGED <<outbox, batch, crashes>>

(* Mutant: the error of the publisher is not looked at.                    *)
PublishErrorIgnored(w, i) ==
  /\ pc[w] = "publish"
  /\ Current(w, i)
  /\ outbox[i].readable
  /\ batch[w][i] < MaxAttempts
  /\ pc' = [pc EXCEPT ![w] = "published"]
  /\ UNCHANGED <<outbox, delivered, batch, crashes>>

PublishError(w, i) ==
  /\ pc[w] = "publish"
  /\ Current(w, i)
  /\ outbox[i].readable
  /\ batch[w][i] < MaxAttempts
  /\ pc' = [pc EXCEPT ![w] = "failed"]
  /\ UNCHANGED <<outbox, delivered, batch, crashes>>

(* The row of event i is written, or the error of the UPDATE is logged and *)
(* the row stays as it is; the worker goes on with the next event.         *)
Done(w, i) ==
  LET rest == DOMAIN batch[w] \ {i} IN
  /\ batch' = [batch EXCEPT ![w] = Restrict(batch[w], rest)]
  /\ pc' = [pc EXCEPT ![w] = IF rest = {} THEN "idle" ELSE "publish"]
  /\ UNCHANGED <<delivered, crashes>>

Record(w, i, row) ==
  /\ Done(w, i)
  /\ \/ outbox' = [outbox EXCEPT ![i] = row]
     \/ UNCHANGED outbox

RecordPublished(w, i) ==
  /\ pc[w] = "published"
  /\ Current(w, i)
  /\ Record(w, i, [outbox[i] EXCEPT !.status = "PUBLISHED"])

(* Mutant: the delay overflows into the sign.                              *)
SignedBackoff(attempt) ==
  IF attempt >= WordSize THEN -MaxBackoff
  ELSE IF 2^attempt \in 0..MaxBackoff THEN 2^attempt ELSE MaxBackoff

(* 2_u64.pow(attempt).min(3600): from attempt 64 on the power is 0 in a    *)
(* release build; in a debug build the worker panics, which is a Crash.    *)
Backoff(attempt) ==
  IF attempt >= WordSize THEN 0
  ELSE IF 2^attempt \in 0..MaxBackoff THEN 2^attempt ELSE MaxBackoff

RecordFailed(w, i) ==
  /\ pc[w] = "failed"
  /\ Current(w, i)
  /\ Record(w, i, [outbox[i] EXCEPT !.status = "FAILED",
                                   !.attempts = batch[w][i] + 1,
                                   !.wait = Backoff(batch[w][i] + 1)])

(* An event that cannot be read is tried again a day later, for ever; the  *)
(* count of its attempts is of no use after MaxAttempts.                   *)
RecordUnreadable(w, i) ==
  /\ pc[w] = "publish"
  /\ Current(w, i)
  /\ ~outbox[i].readable
  /\ Record(w, i, [outbox[i] EXCEPT !.status = "FAILED",
                                   !.attempts = IF @ < MaxAttempts THEN @ + 1 ELSE @,
                                   !.wait = PoisonDelay])

-----------------------------------------------------------------------------
(* The server stops: an open claim is rolled back, a committed one stays.  *)
Crash(w) ==
  /\ pc[w] # "idle"
  /\ crashes < MaxCrashes
  /\ crashes' = crashes + 1
  /\ pc' = [pc EXCEPT ![w] = "idle"]
  /\ batch' = [batch EXCEPT ![w] = NoBatch]
  /\ UNCHANGED <<outbox, delivered>>

Tick ==
  /\ \E i \in Ids : outbox[i].wait > 0
  /\ outbox' = [i \in Ids |->
       [outbox[i] EXCEPT !.wait = IF @ > 0 THEN @ - 1 ELSE 0]]
  /\ UNCHANGED <<delivered, pc, batch, crashes>>

Handle(w) ==
  \E i \in Ids :
    \/ PublishOk(w, i) \/ PublishError(w, i)
    \/ RecordPublished(w, i) \/ RecordFailed(w, i) \/ RecordUnreadable(w, i)

Next ==
  \/ EmitTransfer \/ EmitConversion \/ Tick
  \/ \E w \in Workers : SelectBatch(w) \/ Claim(w) \/ Handle(w) \/ Crash(w)

Spec == Init /\ [][Next]_vars

(* The scheduler of every server polls again and again, a worker finishes  *)
(* its batch unless its server stops, and time passes.                     *)
FairSpec ==
  /\ Spec
  /\ WF_vars(Tick)
  /\ \A w \in Workers : WF_vars(SelectBatch(w)) /\ WF_vars(Claim(w)) /\ WF_vars(Handle(w))

-----------------------------------------------------------------------------
(* Properties.                                                             *)

(* The type of every variable.                                             *)
TypeOK ==
  /\ outbox \in Seq(Event)
  /\ delivered \in Seq(Nat)
  /\ Len(delivered) = Len(outbox)
  /\ pc \in [Workers -> {"idle", "claim", "publish", "published", "failed"}]
  /\ DOMAIN batch = Workers
  /\ \A w \in Workers : batch[w] \in [DOMAIN batch[w] -> Nat] /\ DOMAIN batch[w] \subseteq Ids
  /\ crashes \in Nat

(* However many servers poll, no event is in the hands of two workers      *)
(* ("multiple workers safe", ARCHITECTURE.md, Event Flow).                 *)
ClaimedOnce ==
  \A v, w \in Workers : \A i \in Ids : Holds(v, i) /\ Holds(w, i) => v = w

(* No event is handed to the publisher again after it was accepted: not by *)
(* another worker, not after a crash, not when recording it failed.        *)
DeliveredOnce == \A i \in Ids : delivered[i] <= 1

(* The status tells what happened: an event is delivered if it is          *)
(* PUBLISHED, and not delivered as long as a worker may claim it.          *)
StatusHonest ==
  \A i \in Ids :
    /\ outbox[i].status = "PUBLISHED" => delivered[i] = 1
    /\ outbox[i].status \in {"PENDING", "FAILED"} => delivered[i] = 0

(* The attempts a worker counts on from are those of the row.              *)
FreshAttempts ==
  \A w \in Workers : \A i \in DOMAIN batch[w] : batch[w][i] = outbox[i].attempts

Readable(i) == i \in Ids /\ outbox[i].readable
Delivered(i) == i \in Ids /\ delivered[i] > 0

(* An event that can be read is published in the end, or it was left       *)
(* behind in PROCESSING by a worker that stopped or could not record it.   *)
Abandoned(i) ==
  outbox[i].status = "PROCESSING" /\ \A w \in Workers : ~Holds(w, i)

Settled(i) == i \in Ids /\ (outbox[i].status = "PUBLISHED" \/ Abandoned(i))

ReadableSettles ==
  \A i \in 1..MaxEvents : Readable(i) ~> Settled(i)

(* "Server restart | Outbox worker resumes from last committed position"   *)
(* (ARCHITECTURE.md, Recovery Model): no event of a committed transfer is  *)
(* lost.                                                                   *)
NoEventLost == \A i \in 1..MaxEvents : Readable(i) ~> Delivered(i)

(* What a worker at each place knows about the rows it holds.              *)
BatchOk(w) ==
  /\ pc[w] = "idle" <=> DOMAIN batch[w] = {}
  /\ \A i \in DOMAIN batch[w] :
       /\ pc[w] = "claim" => outbox[i].status \in {"PENDING", "FAILED"}
       /\ pc[w] \in {"publish", "published", "failed"} => outbox[i].status = "PROCESSING"
       /\ delivered[i] = IF pc[w] = "published" /\ Current(w, i) THEN 1 ELSE 0

BatchInv == \A w \in Workers : BatchOk(w)

IInv ==
  /\ TypeOK
  /\ ClaimedOnce
  /\ DeliveredOnce
  /\ StatusHonest
  /\ FreshAttempts
  /\ BatchInv

=============================================================================
