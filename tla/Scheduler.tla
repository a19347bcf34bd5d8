----------------------------- MODULE Scheduler -----------------------------
(***************************************************************************)
(* SimulationScheduler::execute_one_tick, run every few seconds by every   *)
(* server, over the rows of simulation_ticks that the servers share.  A    *)
(* tick takes the next number, tries the advisory lock of that number,     *)
(* runs the registered systems in order and records the outcome.  What a   *)
(* system does is in its own module; here it ends well or not.             *)
(***************************************************************************)
EXTENDS Integers, Sequences, FiniteSets

CONSTANTS
  Servers,       \* the servers; each runs one scheduler
  Systems,       \* how many systems are registered
  MaxFailures,   \* max_failures_per_tick
  MaxTicks,      \* bound: numbers a tick may take
  MaxFaults      \* bound: database errors and restarts

ASSUME SchedulerAssumption ==
  /\ Systems \in Nat /\ MaxFailures \in Nat
  /\ MaxTicks \in Nat /\ MaxFaults \in Nat

VARIABLES
  ticks,      \* the rows of simulation_ticks, by tick_number
  pc,         \* where each server's scheduler is
  tick,       \* its tick_number
  outcomes,   \* metrics.subsystems: how each system that ran ended, in order
  failures,   \* how many systems failed in this tick
  overall,    \* overall_status of the tick
  executed,   \* the tick numbers each server ran systems for, in order
  faults      \* database errors and restarts so far

vars == <<ticks, pc, tick, outcomes, failures, overall, executed, faults>>
pipeline == <<outcomes, failures, overall>>

Status == {"COMPLETED", "PARTIAL_FAILURE", "FAILED"}

(* How a system ended: every status but COMPLETED, and an error, is a      *)
(* failure.                                                                *)
SystemStatus == {"COMPLETED", "FAILED"}

Init ==
  /\ ticks = [n \in {} |-> [status |-> "FAILED", outcomes |-> <<>>]]
  /\ pc = [s \in Servers |-> "idle"]
  /\ tick = [s \in Servers |-> 0]
  /\ outcomes = [s \in Servers |-> <<>>]
  /\ failures = [s \in Servers |-> 0]
  /\ overall = [s \in Servers |-> "COMPLETED"]
  /\ executed = [s \in Servers |-> <<>>]
  /\ faults = 0

Goto(s, place) == pc' = [pc EXCEPT ![s] = place]

(* The tick of s is over, and with it the variables of execute_one_tick.   *)
Leave(s) ==
  /\ Goto(s, "idle")
  /\ tick' = [tick EXCEPT ![s] = 0]
  /\ outcomes' = [outcomes EXCEPT ![s] = <<>>]
  /\ failures' = [failures EXCEPT ![s] = 0]
  /\ overall' = [overall EXCEPT ![s] = "COMPLETED"]
  /\ UNCHANGED executed

(* A database call of the scheduler fails, or its server restarts.         *)
Fault ==
  /\ faults < MaxFaults
  /\ faults' = faults + 1

-----------------------------------------------------------------------------
(* The number of the tick: one more than MAX(tick_number), and 1 if there  *)
(* is no row or the number cannot be read.                                 *)

(* Mutants: only COMPLETED ticks count; the ticks in progress count too.   *)
LatestCompleted(n) ==
  LET rows == {m \in DOMAIN ticks : ticks[m].status = "COMPLETED"} \cup {0} IN
  n \in rows /\ \A m \in rows : m <= n

LatestTaken(n) ==
  LET rows == DOMAIN ticks \cup {tick[r] : r \in Servers} \cup {0} IN
  n \in rows /\ \A m \in rows : m <= n

Latest(n) ==
  /\ n \in DOMAIN ticks \cup {0}
  /\ \A m \in DOMAIN ticks : m <= n

Begin(s, n) ==
  /\ pc[s] = "idle"
  /\ tick' = [tick EXCEPT ![s] = n]
  /\ Goto(s, "try")
  /\ UNCHANGED <<ticks, pipeline, executed>>

ReadLatest(s, n) ==
  /\ Latest(n)
  /\ n < MaxTicks
  /\ Begin(s, n + 1)
  /\ UNCHANGED faults

ReadError(s) == Begin(s, 1) /\ Fault

-----------------------------------------------------------------------------
(* pg_try_advisory_xact_lock is a statement of its own: the transaction    *)
(* that holds the lock ends with it, before the systems run.               *)

(* Mutant: one lock for all ticks.                                         *)
ContendedByAny(s) == \E r \in Servers \ {s} : pc[r] = "locked"

Contended(s) ==
  \E r \in Servers \ {s} : pc[r] = "locked" /\ tick[r] = tick[s]

Acquire(s) ==
  /\ pc[s] = "try"
  /\ ~Contended(s)
  /\ Goto(s, "locked")
  /\ UNCHANGED <<ticks, tick, pipeline, executed, faults>>

Release(s) ==
  /\ pc[s] = "locked"
  /\ Goto(s, "run")
  /\ executed' = [executed EXCEPT ![s] = Append(@, tick[s])]
  /\ UNCHANGED <<ticks, tick, pipeline, faults>>

(* A server without the lock records a tick of no system.                  *)
Skip(s) ==
  /\ Goto(s, "skip")
  /\ overall' = [overall EXCEPT ![s] = "FAILED"]
  /\ UNCHANGED <<ticks, tick, outcomes, failures, executed>>

Refused(s) ==
  /\ pc[s] = "try"
  /\ Contended(s)
  /\ Skip(s)
  /\ UNCHANGED faults

(* An error of the statement counts as a refusal.                          *)
LockError(s) ==
  /\ pc[s] \in {"try", "locked"}
  /\ Fault
  /\ Skip(s)

-----------------------------------------------------------------------------
(* The systems, in the order of their registration.  A failure does not    *)
(* stop the others, until there are MaxFailures of them.                   *)

LimitReached(s) == failures[s] >= MaxFailures

Left(s) == pc[s] = "run" /\ Len(outcomes[s]) < Systems

SystemEnds(s, status) ==
  outcomes' = [outcomes EXCEPT ![s] = Append(@, status)]

SystemSucceeds(s) ==
  /\ SystemEnds(s, "COMPLETED")
  /\ UNCHANGED <<failures, overall>>

SystemFails(s) ==
  /\ SystemEnds(s, "FAILED")
  /\ failures' = [failures EXCEPT ![s] = @ + 1]
  /\ overall' = [overall EXCEPT ![s] = "PARTIAL_FAILURE"]

RunSystem(s) ==
  /\ Left(s)
  /\ ~LimitReached(s)
  /\ SystemSucceeds(s) \/ SystemFails(s)
  /\ UNCHANGED <<ticks, pc, tick, executed, faults>>

(* Mutant: the limit is noted, but the loop over the systems is not left.  *)
SkipForever(s) ==
  /\ Left(s)
  /\ LimitReached(s)
  /\ overall' = [overall EXCEPT ![s] = "FAILED"]
  /\ UNCHANGED <<ticks, pc, tick, outcomes, failures, executed, faults>>

SkipRest(s) ==
  /\ Left(s)
  /\ LimitReached(s)
  /\ overall' = [overall EXCEPT ![s] = "FAILED"]
  /\ Goto(s, "save")
  /\ UNCHANGED <<ticks, tick, outcomes, failures, executed, faults>>

Finish(s) ==
  /\ pc[s] = "run"
  /\ Len(outcomes[s]) >= Systems
  /\ Goto(s, "save")
  /\ UNCHANGED <<ticks, tick, pipeline, executed, faults>>

-----------------------------------------------------------------------------
(* save_tick_metrics: INSERT ... ON CONFLICT (tick_number) DO UPDATE.  An  *)
(* error is logged, and the tick is over.                                  *)

(* Mutant: a skipped tick is not finalized.                                *)
OpenRecord(s) ==
  [status |-> IF pc[s] = "skip" THEN "IN_PROGRESS" ELSE overall[s],
   outcomes |-> outcomes[s]]

Record(s) == [status |-> overall[s], outcomes |-> outcomes[s]]

(* Mutant: DO UPDATE leaves subsystem_details out.                         *)
UpsertStatus(n, record) ==
  ticks' = IF n \in DOMAIN ticks THEN [ticks EXCEPT ![n].status = record.status]
           ELSE [m \in DOMAIN ticks \cup {n} |-> IF m = n THEN record ELSE ticks[m]]

Upsert(n, record) == ticks' = [m \in DOMAIN ticks \cup {n} |-> IF m = n THEN record ELSE ticks[m]]

Saving(s) ==
  /\ pc[s] \in {"skip", "save"}
  /\ Leave(s)

Save(s) ==
  /\ Saving(s)
  /\ Upsert(tick[s], Record(s))
  /\ UNCHANGED faults

SaveError(s) == Saving(s) /\ Fault /\ UNCHANGED ticks

-----------------------------------------------------------------------------
(* The server stops and starts again.                                      *)
Restart(s) ==
  /\ pc[s] # "idle"
  /\ Fault
  /\ Leave(s)
  /\ UNCHANGED ticks

Step(s) ==
  \/ \E n \in 0..MaxTicks : ReadLatest(s, n)
  \/ Acquire(s) \/ Release(s) \/ Refused(s)
  \/ RunSystem(s) \/ SkipRest(s) \/ Finish(s) \/ Save(s)

DatabaseError(s) == ReadError(s) \/ LockError(s) \/ SaveError(s)

Next == \E s \in Servers : Step(s) \/ DatabaseError(s) \/ Restart(s)

Spec == Init /\ [][Next]_vars

(* The timer of every server fires again and again, and a call returns.    *)
FairSpec == Spec /\ \A s \in Servers : WF_vars(Step(s))

-----------------------------------------------------------------------------
(* Properties.                                                             *)

(* The type of every variable.                                             *)
TypeOK ==
  /\ DOMAIN ticks \subseteq Nat \ {0}
  /\ ticks \in [DOMAIN ticks -> [status : Status, outcomes : Seq(SystemStatus)]]
  /\ pc \in [Servers -> {"idle", "try", "locked", "skip", "run", "save"}]
  /\ tick \in [Servers -> Nat]
  /\ outcomes \in [Servers -> Seq(SystemStatus)]
  /\ failures \in [Servers -> Nat]
  /\ overall \in [Servers -> Status]
  /\ executed \in [Servers -> Seq(Nat)]
  /\ faults \in Nat

(* The recorded numbers have no gap, whoever records them and in whatever  *)
(* order ("so we don't leave gaps", execute_one_tick).                     *)
NoGaps == \A n \in DOMAIN ticks : \A m \in 1..n : m \in DOMAIN ticks

Executed(n) == \E s \in Servers : \E i \in DOMAIN executed[s] : executed[s][i] = n
InHand(n) == \E s \in Servers : pc[s] = "locked" /\ tick[s] = n

(* A tick is skipped only by a server that another one has overtaken: as   *)
(* long as nothing fails, the systems run for every number that is         *)
(* recorded.                                                               *)
NoTickSkipped ==
  faults = 0 => \A n \in DOMAIN ticks : Executed(n) \/ InHand(n)

(* A server runs the systems with numbers that increase (tick_number:      *)
(* "Monotonically increasing", SIMULATION_ENGINE.md, SimulationContext).   *)
(* Two things break that, and nothing else: a tick whose record was lost   *)
(* is run again under its number, and a number that cannot be read counts  *)
(* as 1.                                                                   *)
TicksIncrease ==
  \A s \in Servers : \A i, j \in DOMAIN executed[s] :
    i < j => \/ executed[s][i] < executed[s][j]
             \/ /\ faults > 0
                /\ executed[s][j] \in {executed[s][i], 1}

(* How many of the recorded systems failed.                                *)
Failed(results) == Cardinality({i \in DOMAIN results : results[i] = "FAILED"})

(* A record says what happened in the pipeline.                            *)
Honest(record) ==
  LET ran == Len(record.outcomes)
      failed == Failed(record.outcomes)
  IN \/ record.status = "COMPLETED" /\ ran = Systems /\ failed = 0
     \/ record.status = "PARTIAL_FAILURE" /\ ran = Systems /\ failed \in 1..MaxFailures
     \/ record.status = "FAILED" /\ ran < Systems /\ failed = MaxFailures

(* A failing system does not keep the others from running: a record lists  *)
(* the outcome of every system, unless exactly MaxFailures of those it     *)
(* lists failed, and the status tells the three cases apart.  Whichever    *)
(* servers wrote the row, and over which other record, its status and its  *)
(* outcomes belong to one run of that number, or to none.                  *)
FailuresIsolated ==
  \A n \in DOMAIN ticks :
    \/ Honest(ticks[n]) /\ Executed(n)
    \/ ticks[n] = [status |-> "FAILED", outcomes |-> <<>>]

(* However the servers get in each other's way, the simulation goes on.    *)
TicksAdvance == \A n \in 1..MaxTicks : <>(n \in DOMAIN ticks)

(* "The `UNIQUE(tick_number)` constraint + advisory lock guarantee         *)
(* exactly-once execution." (SIMULATION_ENGINE.md, Tick Persistence)       *)
ExactlyOnce ==
  \A r, s \in Servers : \A i \in DOMAIN executed[r], j \in DOMAIN executed[s] :
    executed[r][i] = executed[s][j] => r = s /\ i = j

(* The inductive invariant: a server in a tick has all earlier numbers     *)
(* recorded, has run the systems for its number exactly if it is past the  *)
(* lock, and nothing it ran before is missing from the records.            *)
NumberInv ==
  \A s \in Servers : pc[s] # "idle" =>
    tick[s] # 0 /\ \A m \in 1..tick[s] : m = tick[s] \/ m \in DOMAIN ticks

(* The counter and the status of a tick agree with its outcomes.           *)
Consistent(s) ==
  /\ failures[s] = Failed(outcomes[s])
  /\ pc[s] = "skip" => Record(s) = [status |-> "FAILED", outcomes |-> <<>>]
  /\ pc[s] \in {"idle", "try", "locked"} => Record(s) = [status |-> "COMPLETED", outcomes |-> <<>>]
  /\ pc[s] = "run" =>
       /\ Len(outcomes[s]) <= Systems
       /\ \/ failures[s] = 0 /\ overall[s] = "COMPLETED"
          \/ failures[s] \in 1..MaxFailures /\ overall[s] = "PARTIAL_FAILURE"
  /\ pc[s] = "save" => Honest(Record(s))

PipelineInv == \A s \in Servers : Consistent(s)

RunInv ==
  \A s \in Servers :
    /\ pc[s] \in {"run", "save"} => Executed(tick[s])
    /\ faults = 0 /\ pc[s] = "skip" => Executed(tick[s]) \/ InHand(tick[s])

(* What a server has run before is behind it: every number below is        *)
(* recorded, and a number taken since is not smaller, unless it is 1.      *)
PastInv ==
  \A s \in Servers : \A i \in DOMAIN executed[s] :
    /\ \A m \in 1..executed[s][i] : m = executed[s][i] \/ m \in DOMAIN ticks
    /\ pc[s] \in {"try", "locked", "skip"} => executed[s][i] <= tick[s] \/ tick[s] = 1

HistoryInv ==
  faults = 0 => \A s \in Servers : \A i \in DOMAIN executed[s] :
    /\ \/ executed[s][i] \in DOMAIN ticks
       \/ pc[s] \in {"run", "save"} /\ executed[s][i] = tick[s]
    /\ pc[s] \in {"try", "locked", "skip"} => executed[s][i] < tick[s]

IInv ==
  /\ TypeOK
  /\ NoGaps
  /\ NumberInv
  /\ PipelineInv
  /\ RunInv
  /\ PastInv
  /\ HistoryInv
  /\ NoTickSkipped
  /\ TicksIncrease
  /\ FailuresIsolated

=============================================================================
