-------------------------- MODULE SchedulerProofs --------------------------
(***************************************************************************)
(* The inductive invariant of Scheduler: recorded ticks have no gap, none  *)
(* is recorded without having been run, what a server runs is never behind *)
(* what it ran, and every record tells one run of its number, for any      *)
(* number of servers, systems and ticks.                                   *)
(***************************************************************************)
EXTENDS Scheduler, FiniteSetTheorems, TLAPS

(* No outcome, no failure; one more outcome, at most one more failure.     *)
LEMMA FailedNone == Failed(<<>>) = 0
<1>1. {i \in DOMAIN <<>> : <<>>[i] = "FAILED"} = {}
  OBVIOUS
<1> QED
  BY <1>1, FS_EmptySet DEF Failed

LEMMA FailedAppend ==
  ASSUME NEW o \in Seq(SystemStatus), NEW x \in SystemStatus
  PROVE  /\ Failed(o) \in Nat
         /\ Failed(Append(o, x)) = IF x = "FAILED" THEN Failed(o) + 1 ELSE Failed(o)
<1> DEFINE F(z) == {i \in DOMAIN z : z[i] = "FAILED"}
           e == Len(o) + 1
           q == Append(o, x)
<1>1. /\ Len(o) \in Nat /\ DOMAIN o = 1..Len(o)
      /\ DOMAIN q = 1..e /\ q[e] = x
      /\ \A i \in DOMAIN o : q[i] = o[i]
      /\ e \notin DOMAIN o
  OBVIOUS
<1>2. IsFiniteSet(F(o)) /\ e \notin F(o)
  <2>1. IsFiniteSet(1..Len(o))
    <3>1. 1 \in Int /\ Len(o) \in Int
      BY <1>1
    <3> QED
      BY <3>1, FS_Interval, Zenon
  <2>2. F(o) \subseteq 1..Len(o)
    BY <1>1
  <2> QED
    BY <1>1, <2>1, <2>2, FS_Subset
<1>3. F(q) = IF x = "FAILED" THEN F(o) \cup {e} ELSE F(o)
  <2>1. DOMAIN q = DOMAIN o \cup {e}
    BY <1>1
  <2> QED
    BY <1>1, <2>1
<1>4. /\ Cardinality(F(o)) \in Nat
      /\ Cardinality(F(o) \cup {e}) = Cardinality(F(o)) + 1
  BY <1>2, FS_CardinalityType, FS_AddElement
<1> HIDE DEF e, q
<1>5. Failed(o) = Cardinality(F(o)) /\ Failed(q) = Cardinality(F(q))
  BY DEF Failed
<1> HIDE DEF F
<1>6. Failed(q) = IF x = "FAILED" THEN Failed(o) + 1 ELSE Failed(o)
  BY <1>3, <1>4, <1>5
<1> QED
  BY <1>4, <1>5, <1>6 DEF q

(* A step of one server leaves the pipelines of the others as they are.    *)
LEMMA OthersConsistent ==
  ASSUME IInv, NEW s \in Servers, Consistent(s)',
         \A r \in Servers \ {s} :
           /\ pc'[r] = pc[r] /\ outcomes'[r] = outcomes[r]
           /\ failures'[r] = failures[r] /\ overall'[r] = overall[r]
  PROVE  PipelineInv'
<1>1. ASSUME NEW r \in Servers, r # s
      PROVE  Consistent(r)'
  <2>1. Consistent(r)
    BY DEF IInv, PipelineInv
  <2>2. /\ pc'[r] = pc[r] /\ outcomes'[r] = outcomes[r]
        /\ failures'[r] = failures[r] /\ overall'[r] = overall[r]
    BY <1>1
  <2> QED
    BY <2>1, <2>2 DEF Consistent, Record, Failed, Honest
<1>2. \A r \in Servers : (r # s => Consistent(r)') /\ (r = s => Consistent(r)')
  BY <1>1
<1> QED
  BY <1>2 DEF PipelineInv

(* No tick is recorded and every server is idle.                           *)
LEMMA InitIInv == Init => IInv
<1> SUFFICES ASSUME Init PROVE IInv
  OBVIOUS
<1>1. DOMAIN ticks = {} /\ \A s \in Servers : DOMAIN executed[s] = {}
  BY DEF Init
<1>2. TypeOK
  BY <1>1 DEF Init, TypeOK, Status, SystemStatus
<1>3. PipelineInv
  BY FailedNone DEF Init, PipelineInv, Consistent, Record
<1>4. FailuresIsolated
  BY <1>1 DEF FailuresIsolated
<1> QED
  BY <1>1, <1>2, <1>3, <1>4
  DEF Init, IInv, NoGaps, NumberInv, RunInv, PastInv, HistoryInv, NoTickSkipped, TicksIncrease

(* What Executed and InHand depend on.                                     *)
LEMMA SameExecuted ==
  ASSUME executed' = executed
  PROVE  \A n : Executed(n)' <=> Executed(n)
BY DEF Executed

(* A server adds a number to what it has executed; the rest of every       *)
(* history stays.                                                          *)
LEMMA Next_executed ==
  ASSUME TypeOK, NEW s \in Servers, NEW n \in Nat,
         executed' = [executed EXCEPT ![s] = Append(@, n)]
  PROVE  /\ executed' \in [Servers -> Seq(Nat)]
         /\ \A r \in Servers \ {s} : executed'[r] = executed[r]
         /\ DOMAIN executed'[s] = DOMAIN executed[s] \cup {Len(executed[s]) + 1}
         /\ DOMAIN executed[s] = 1..Len(executed[s])
         /\ Len(executed[s]) \in Nat
         /\ \A i \in DOMAIN executed[s] : executed'[s][i] = executed[s][i]
         /\ executed'[s][Len(executed[s]) + 1] = n
<1>1. executed[s] \in Seq(Nat) /\ executed'[s] = Append(executed[s], n)
  BY DEF TypeOK
<1> QED
  BY <1>1 DEF TypeOK

(* The records stay honest when no record and no history changes.          *)
LEMMA SameRecords ==
  ASSUME FailuresIsolated, ticks' = ticks, \A m : Executed(m) => Executed(m)'
  PROVE  FailuresIsolated'
<1> SUFFICES ASSUME NEW n \in DOMAIN ticks
             PROVE  \/ Honest(ticks[n])' /\ Executed(n)'
                    \/ ticks[n] = [status |-> "FAILED", outcomes |-> <<>>]
  BY DEF FailuresIsolated
<1>1. Honest(ticks[n])' <=> Honest(ticks[n])
  BY DEF Honest, Failed
<1> QED
  BY <1>1 DEF FailuresIsolated

(* A server takes the number after the highest recorded one, or 1.         *)
LEMMA BeginIInv ==
  ASSUME IInv, NEW s \in Servers, NEW n \in Nat, Begin(s, n + 1),
         \A m \in 1..n : m \in DOMAIN ticks,
         \/ faults' # 0 /\ faults' \in Nat /\ n = 0
         \/ faults' = faults /\ \A m \in DOMAIN ticks : m <= n
  PROVE  IInv'
<1> USE DEF IInv
<1>0. /\ pc[s] = "idle"
      /\ pc' = [pc EXCEPT ![s] = "try"]
      /\ tick' = [tick EXCEPT ![s] = n + 1]
      /\ pc'[s] = "try" /\ tick'[s] = n + 1
      /\ UNCHANGED <<ticks, outcomes, failures, overall, executed>>
      /\ \A r \in Servers \ {s} : pc'[r] = pc[r] /\ tick'[r] = tick[r]
  BY DEF TypeOK, Begin, Goto, pipeline
<1>1. TypeOK'
  BY <1>0 DEF TypeOK
<1>2. NoGaps'
  BY <1>0 DEF NoGaps
<1>3. NumberInv'
  BY <1>0 DEF NumberInv
<1>4. PipelineInv'
  <2>1. Consistent(s)'
    BY <1>0 DEF PipelineInv, Consistent, Record, Failed
  <2> QED
    BY <1>0, <2>1, OthersConsistent
<1>5. \A m : Executed(m)' <=> Executed(m)
  BY <1>0, SameExecuted
<1>6. ASSUME faults' = 0
      PROVE  /\ faults = 0
             /\ \A m : InHand(m) => InHand(m)'
  BY <1>0, <1>6 DEF InHand, TypeOK
<1>7. RunInv'
  <2> SUFFICES ASSUME NEW r \in Servers
               PROVE  /\ pc'[r] \in {"run", "save"} => Executed(tick[r])'
                      /\ faults' = 0 /\ pc'[r] = "skip" => Executed(tick[r])' \/ InHand(tick[r])'
    BY DEF RunInv
  <2>1. CASE r = s
    BY <1>0, <2>1
  <2>2. CASE r # s
    <3>1. pc'[r] = pc[r] /\ tick'[r] = tick[r]
      BY <1>0, <2>2
    <3>2. (Executed(tick[r]) => Executed(tick[r])') /\ (faults' = 0 /\ InHand(tick[r]) => InHand(tick[r])')
      BY <1>0, <1>6, <3>1 DEF Executed, InHand
    <3> QED
      BY <1>6, <3>1, <3>2 DEF RunInv
  <2> QED
    BY <2>1, <2>2
<1>8. PastInv'
  <2> SUFFICES ASSUME NEW r \in Servers, NEW i \in DOMAIN executed[r]
               PROVE  pc'[r] \in {"try", "locked", "skip"} => executed[r][i] <= tick'[r] \/ tick'[r] = 1
    BY <1>0 DEF PastInv
  <2>1. CASE r = s
    <3>1. executed[s][i] \in Nat
      BY <2>1 DEF TypeOK
    <3>2. \A m \in 1..executed[s][i] : m = executed[s][i] \/ m \in DOMAIN ticks
      BY <2>1 DEF PastInv
    <3>3. CASE executed[s][i] <= 1
      BY <1>0, <2>1, <3>1, <3>3
    <3>4. CASE n # 0 /\ executed[s][i] > 1
      <4>1. executed[s][i] - 1 \in DOMAIN ticks
        BY <3>1, <3>2, <3>4
      <4>2. executed[s][i] - 1 <= n
        BY <3>4, <4>1
      <4> QED
        BY <1>0, <2>1, <3>1, <4>2
    <3> QED
      BY <1>0, <2>1, <3>1, <3>3, <3>4
  <2>2. CASE r # s
    BY <1>0, <2>2 DEF PastInv
  <2> QED
    BY <2>1, <2>2
<1>9. HistoryInv'
  <2> SUFFICES ASSUME faults' = 0, NEW r \in Servers, NEW i \in DOMAIN executed[r]
               PROVE  /\ \/ executed[r][i] \in DOMAIN ticks
                         \/ pc'[r] \in {"run", "save"} /\ executed[r][i] = tick'[r]
                      /\ pc'[r] \in {"try", "locked", "skip"} => executed[r][i] < tick'[r]
    BY <1>0 DEF HistoryInv
  <2>1. faults = 0 /\ \A m \in DOMAIN ticks : m <= n
    BY <1>6
  <2>2. CASE r = s
    <3>1. executed[s][i] \in DOMAIN ticks
      BY <1>0, <2>1, <2>2 DEF HistoryInv
    <3>2. executed[s][i] \in Nat /\ executed[s][i] <= n
      BY <2>1, <3>1 DEF TypeOK
    <3> QED
      BY <1>0, <2>2, <3>1, <3>2
  <2>3. CASE r # s
    BY <1>0, <2>1, <2>3 DEF HistoryInv
  <2> QED
    BY <2>2, <2>3
<1>10. NoTickSkipped'
  BY <1>0, <1>5, <1>6 DEF NoTickSkipped
<1>11. TicksIncrease'
  <2>1. faults > 0 => faults' > 0
    BY <1>0, <1>6 DEF TypeOK
  <2> QED
    BY <1>0, <2>1 DEF TicksIncrease
<1>12. FailuresIsolated'
  BY <1>0, <1>5, SameRecords
<1> QED
  BY <1>1, <1>2, <1>3, <1>4, <1>7, <1>8, <1>9, <1>10, <1>11, <1>12

(* All numbers up to the highest recorded one are recorded, so the next    *)
(* one leaves no gap.                                                      *)
LEMMA ReadLatestIInv ==
  ASSUME IInv, NEW s \in Servers, NEW n \in 0..MaxTicks, ReadLatest(s, n)
  PROVE  IInv'
<1>1. n \in Nat
  BY SchedulerAssumption DEF SchedulerAssumption
<1>2. \A m \in 1..n : m \in DOMAIN ticks
  BY <1>1 DEF ReadLatest, Latest, IInv, NoGaps
<1> QED
  BY <1>1, <1>2, BeginIInv DEF ReadLatest, Latest

(* A number that cannot be read counts as 0, and a fault has happened.     *)
LEMMA ReadErrorIInv ==
  ASSUME IInv, NEW s \in Servers, ReadError(s)
  PROVE  IInv'
<1>1. Begin(s, 0 + 1) /\ faults' # 0 /\ faults' \in Nat
  BY DEF ReadError, Fault, IInv, TypeOK
<1> QED
  BY <1>1, BeginIInv

(* Acquire, Refused and LockError only move a server; without the lock it  *)
(* has a record of no system to write.                                     *)
LEMMA LockIInv ==
  ASSUME IInv, NEW s \in Servers, Acquire(s) \/ Refused(s) \/ LockError(s)
  PROVE  IInv'
<1> USE DEF IInv
<1>0. /\ pc[s] \in {"try", "locked"}
      /\ pc' = [pc EXCEPT ![s] = IF Acquire(s) THEN "locked" ELSE "skip"]
      /\ overall' = IF Acquire(s) THEN overall ELSE [overall EXCEPT ![s] = "FAILED"]
      /\ UNCHANGED <<ticks, tick, outcomes, failures, executed>>
      /\ faults' \in Nat
      /\ faults' = 0 => faults = 0 /\ pc[s] = "try" /\ (~Acquire(s) => Contended(s))
  <2>1. CASE Acquire(s)
    BY <2>1 DEF Acquire, Goto, TypeOK, pipeline
  <2>2. CASE ~Acquire(s)
    BY <2>2 DEF Refused, LockError, Skip, Goto, Fault, TypeOK
  <2> QED
    BY <2>1, <2>2
<1>1. TypeOK'
  BY <1>0 DEF TypeOK, Status
<1>2. NoGaps'
  BY <1>0 DEF NoGaps
<1>3. NumberInv'
  BY <1>0 DEF NumberInv, TypeOK
<1>4. PipelineInv'
  <2>1. Consistent(s)'
    BY <1>0 DEF PipelineInv, Consistent, Record, Failed, TypeOK
  <2>2. \A r \in Servers \ {s} : pc'[r] = pc[r] /\ overall'[r] = overall[r]
    BY <1>0 DEF TypeOK
  <2> QED
    BY <1>0, <2>1, <2>2, OthersConsistent
<1>5. \A m : Executed(m)' <=> Executed(m)
  BY <1>0, SameExecuted
<1>6. ASSUME faults' = 0
      PROVE  /\ faults = 0
             /\ \A m : InHand(m) => InHand(m)'
             /\ ~Acquire(s) => InHand(tick[s])'
  BY <1>0, <1>6 DEF InHand, TypeOK, Contended
<1>7. RunInv'
  BY <1>0, <1>5, <1>6 DEF RunInv, TypeOK
<1>8. PastInv'
  BY <1>0 DEF PastInv, TypeOK
<1>9. HistoryInv'
  BY <1>0 DEF HistoryInv, TypeOK
<1>10. NoTickSkipped'
  BY <1>0, <1>5, <1>6 DEF NoTickSkipped
<1>11. TicksIncrease'
  BY <1>0 DEF TicksIncrease, TypeOK
<1>12. FailuresIsolated'
  BY <1>0, <1>5, SameRecords
<1> QED
  BY <1>1, <1>2, <1>3, <1>4, <1>7, <1>8, <1>9, <1>10, <1>11, <1>12

(* The server leaves the lock and runs the systems for its number.         *)
LEMMA ReleaseIInv ==
  ASSUME IInv, NEW s \in Servers, Release(s)
  PROVE  IInv'
<1> USE DEF IInv
<1>0. /\ pc[s] = "locked"
      /\ pc' = [pc EXCEPT ![s] = "run"]
      /\ executed' = [executed EXCEPT ![s] = Append(@, tick[s])]
      /\ UNCHANGED <<ticks, tick, outcomes, failures, overall, faults>>
      /\ tick[s] \in Nat
  BY DEF Release, Goto, TypeOK, pipeline
<1> DEFINE n == tick[s]
           e == Len(executed[s]) + 1
<1>E. /\ executed' \in [Servers -> Seq(Nat)]
      /\ \A r \in Servers \ {s} : executed'[r] = executed[r]
      /\ DOMAIN executed'[s] = DOMAIN executed[s] \cup {e}
      /\ DOMAIN executed[s] = 1..Len(executed[s])
      /\ Len(executed[s]) \in Nat
      /\ \A i \in DOMAIN executed[s] : executed'[s][i] = executed[s][i]
      /\ executed'[s][e] = n
  BY <1>0, Next_executed
<1>1. TypeOK'
  BY <1>0, <1>E DEF TypeOK
<1>2. NoGaps'
  BY <1>0 DEF NoGaps
<1>3. NumberInv'
  BY <1>0 DEF NumberInv, TypeOK
<1>4. PipelineInv'
  <2>1. Consistent(s)
    BY DEF PipelineInv
  <2>2. /\ failures[s] = 0 /\ overall[s] = "COMPLETED" /\ outcomes[s] = <<>>
        /\ failures[s] = Failed(outcomes[s]) /\ Len(outcomes[s]) <= Systems
    BY <1>0, <2>1, FailedNone, SchedulerAssumption DEF Consistent, Record, SchedulerAssumption
  <2>3. Consistent(s)'
    BY <1>0, <2>2 DEF Consistent, Failed, TypeOK
  <2>4. \A r \in Servers \ {s} : pc'[r] = pc[r]
    BY <1>0 DEF TypeOK
  <2> QED
    BY <1>0, <2>3, <2>4, OthersConsistent
<1>5. /\ \A m : Executed(m) => Executed(m)'
      /\ \A m : m = n => Executed(m)'
  <2>1. \A r \in Servers : \A i \in DOMAIN executed[r] :
          i \in DOMAIN executed'[r] /\ executed'[r][i] = executed[r][i]
    BY <1>E
  <2>2. ASSUME NEW m, Executed(m)
        PROVE  Executed(m)'
    BY <2>1, <2>2 DEF Executed
  <2>3. ASSUME NEW m, m = n
        PROVE  Executed(m)'
    <3>1. e \in DOMAIN executed'[s] /\ executed'[s][e] = m
      BY <1>E, <2>3
    <3> QED
      BY <3>1 DEF Executed
  <2> QED
    BY <2>2, <2>3
<1>6. \A m : InHand(m) => InHand(m)' \/ m = n
  BY <1>0 DEF InHand, TypeOK
<1>7. RunInv'
  BY <1>0, <1>5, <1>6 DEF RunInv, TypeOK
<1>8. PastInv'
  <2> SUFFICES ASSUME NEW r \in Servers, NEW i \in DOMAIN executed'[r]
               PROVE  /\ \A m \in 1..executed'[r][i] : m = executed'[r][i] \/ m \in DOMAIN ticks
                      /\ pc'[r] \in {"try", "locked", "skip"} => executed'[r][i] <= tick[r] \/ tick[r] = 1
    BY <1>0 DEF PastInv
  <2>1. CASE r # s
    <3>1. i \in DOMAIN executed[r] /\ executed'[r][i] = executed[r][i] /\ pc'[r] = pc[r]
      BY <1>0, <1>E, <2>1 DEF TypeOK
    <3> QED
      BY <3>1 DEF PastInv
  <2>2. CASE r = s /\ i # e
    <3>1. i \in DOMAIN executed[s] /\ executed'[s][i] = executed[s][i] /\ pc'[s] = "run"
      BY <1>0, <1>E, <2>2 DEF TypeOK
    <3> QED
      BY <2>2, <3>1 DEF PastInv
  <2>3. CASE r = s /\ i = e
    <3>1. executed'[r][i] = tick[s] /\ pc'[r] = "run"
      BY <1>0, <1>E, <2>3 DEF TypeOK
    <3> QED
      BY <1>0, <3>1 DEF NumberInv
  <2> QED
    BY <2>1, <2>2, <2>3
<1>9. HistoryInv'
  <2> SUFFICES ASSUME faults = 0, NEW r \in Servers, NEW i \in DOMAIN executed'[r]
               PROVE  /\ \/ executed'[r][i] \in DOMAIN ticks
                         \/ pc'[r] \in {"run", "save"} /\ executed'[r][i] = tick[r]
                      /\ pc'[r] \in {"try", "locked", "skip"} => executed'[r][i] < tick[r]
    BY <1>0 DEF HistoryInv
  <2>1. CASE r # s
    BY <1>0, <1>E, <2>1 DEF HistoryInv, TypeOK
  <2>2. CASE r = s
    BY <1>0, <1>E, <2>2 DEF HistoryInv, TypeOK
  <2> QED
    BY <2>1, <2>2
<1>10. NoTickSkipped'
  BY <1>0, <1>5, <1>6 DEF NoTickSkipped
<1>11. TicksIncrease'
  <2> SUFFICES ASSUME NEW r \in Servers,
                      NEW i \in DOMAIN executed'[r], NEW j \in DOMAIN executed'[r], i < j
               PROVE  \/ executed'[r][i] < executed'[r][j]
                      \/ faults > 0 /\ executed'[r][j] \in {executed'[r][i], 1}
    BY <1>0 DEF TicksIncrease
  <2>1. CASE r # s
    BY <1>E, <2>1 DEF TicksIncrease
  <2>2. CASE r = s /\ j # e
    <3>1. i \in DOMAIN executed[s] /\ j \in DOMAIN executed[s]
      BY <1>E, <2>2
    <3>2. \/ executed[s][i] < executed[s][j]
          \/ faults > 0 /\ executed[s][j] \in {executed[s][i], 1}
      BY <3>1 DEF TicksIncrease
    <3> QED
      BY <1>E, <2>2, <3>1, <3>2
  <2>3. CASE r = s /\ j = e
    <3>1. i \in DOMAIN executed[s]
      BY <1>E, <2>3
    <3>2. executed[s][i] \in Nat /\ faults \in Nat
      BY <3>1 DEF TypeOK
    <3>3. executed[s][i] <= n \/ n = 1
      BY <1>0, <3>1 DEF PastInv
    <3>4. faults = 0 => executed[s][i] < n
      BY <1>0, <3>1 DEF HistoryInv
    <3> QED
      BY <1>0, <1>E, <2>3, <3>1, <3>2, <3>3, <3>4
  <2> QED
    BY <2>1, <2>2, <2>3
<1>12. FailuresIsolated'
  BY <1>0, <1>5, SameRecords
<1> QED
  BY <1>1, <1>2, <1>3, <1>4, <1>7, <1>8, <1>9, <1>10, <1>11, <1>12

(* One more outcome: the counter and the status follow.                    *)
LEMMA RunSystemConsistent ==
  ASSUME IInv, NEW s \in Servers, RunSystem(s)
  PROVE  Consistent(s)'
<1>1. /\ pc[s] = "run" /\ Len(outcomes[s]) < Systems /\ ~LimitReached(s)
      /\ outcomes[s] \in Seq(SystemStatus) /\ failures[s] \in Nat
      /\ Systems \in Nat /\ MaxFailures \in Nat
      /\ pc'[s] = "run"
  BY SchedulerAssumption DEF RunSystem, Left, IInv, TypeOK, SchedulerAssumption
<1>2. /\ failures[s] = Failed(outcomes[s])
      /\ failures[s] < MaxFailures
      /\ \/ failures[s] = 0 /\ overall[s] = "COMPLETED"
         \/ failures[s] \in 1..MaxFailures /\ overall[s] = "PARTIAL_FAILURE"
  BY <1>1 DEF IInv, PipelineInv, Consistent, LimitReached
<1>3. CASE SystemSucceeds(s)
  <2>1. /\ outcomes'[s] = Append(outcomes[s], "COMPLETED")
        /\ failures'[s] = failures[s] /\ overall'[s] = overall[s]
    BY <1>3 DEF SystemSucceeds, SystemEnds, IInv, TypeOK
  <2>2. Failed(outcomes'[s]) = Failed(outcomes[s])
    BY <1>1, <2>1, FailedAppend DEF SystemStatus
  <2>3. Len(outcomes'[s]) <= Systems
    BY <1>1, <2>1
  <2> QED
    BY <1>1, <1>2, <2>1, <2>2, <2>3 DEF Consistent, Failed
<1>4. CASE SystemFails(s)
  <2>1. /\ outcomes'[s] = Append(outcomes[s], "FAILED")
        /\ failures'[s] = failures[s] + 1 /\ overall'[s] = "PARTIAL_FAILURE"
    BY <1>4 DEF SystemFails, SystemEnds, IInv, TypeOK
  <2>2. Failed(outcomes'[s]) = Failed(outcomes[s]) + 1
    BY <1>1, <2>1, FailedAppend DEF SystemStatus
  <2>3. Len(outcomes'[s]) <= Systems
    BY <1>1, <2>1
  <2>4. failures'[s] \in 1..MaxFailures
    BY <1>1, <1>2, <2>1
  <2> QED
    BY <1>1, <1>2, <2>1, <2>2, <2>3, <2>4 DEF Consistent, Failed
<1> QED
  BY <1>3, <1>4 DEF RunSystem

(* The end of the pipeline, early or not: the record is honest.            *)
LEMMA EndConsistent ==
  ASSUME IInv, NEW s \in Servers, SkipRest(s) \/ Finish(s)
  PROVE  Consistent(s)'
<1>1. /\ pc[s] = "run" /\ pc'[s] = "save"
      /\ outcomes'[s] = outcomes[s] /\ failures'[s] = failures[s]
      /\ Len(outcomes[s]) \in Nat /\ failures[s] \in Nat
      /\ Systems \in Nat /\ MaxFailures \in Nat
  BY SchedulerAssumption
  DEF SkipRest, Finish, Left, Goto, pipeline, IInv, TypeOK, SchedulerAssumption
<1>2. /\ failures[s] = Failed(outcomes[s])
      /\ Len(outcomes[s]) <= Systems
      /\ \/ failures[s] = 0 /\ overall[s] = "COMPLETED"
         \/ failures[s] \in 1..MaxFailures /\ overall[s] = "PARTIAL_FAILURE"
  BY <1>1 DEF IInv, PipelineInv, Consistent
<1>3. CASE SkipRest(s)
  <2>1. /\ Len(outcomes[s]) < Systems /\ failures[s] >= MaxFailures
        /\ overall'[s] = "FAILED"
    BY <1>3 DEF SkipRest, Left, LimitReached, IInv, TypeOK
  <2>2. failures[s] = MaxFailures
    BY <1>1, <1>2, <2>1
  <2> QED
    BY <1>1, <1>2, <2>1, <2>2 DEF Consistent, Honest, Record, Failed
<1>4. CASE Finish(s)
  <2>1. Len(outcomes[s]) >= Systems /\ overall'[s] = overall[s]
    BY <1>4 DEF Finish, pipeline
  <2>2. Len(outcomes[s]) = Systems
    BY <1>1, <1>2, <2>1
  <2> QED
    BY <1>1, <1>2, <2>1, <2>2 DEF Consistent, Honest, Record, Failed
<1> QED
  BY <1>3, <1>4

(* The pipeline moves on, or is done.                                      *)
LEMMA PipelineIInv ==
  ASSUME IInv, NEW s \in Servers, RunSystem(s) \/ SkipRest(s) \/ Finish(s)
  PROVE  IInv'
<1> USE DEF IInv
<1>0. /\ pc[s] = "run"
      /\ pc' = pc \/ pc' = [pc EXCEPT ![s] = "save"]
      /\ UNCHANGED <<ticks, tick, executed, faults>>
  BY DEF RunSystem, SkipRest, Finish, Left, Goto
<1>P. \A r \in Servers : pc'[r] = pc[r] \/ (pc[r] = "run" /\ pc'[r] = "save")
  <2>1. CASE pc' = pc
    BY <2>1
  <2>2. CASE pc' = [pc EXCEPT ![s] = "save"]
    BY <1>0, <2>2 DEF TypeOK
  <2> QED
    BY <1>0, <2>1, <2>2
<1>O. /\ outcomes' \in [Servers -> Seq(SystemStatus)]
      /\ failures' \in [Servers -> Nat]
      /\ overall' \in [Servers -> Status]
      /\ \A r \in Servers \ {s} :
           /\ pc'[r] = pc[r] /\ outcomes'[r] = outcomes[r]
           /\ failures'[r] = failures[r] /\ overall'[r] = overall[r]
  <2>1. /\ outcomes[s] \in Seq(SystemStatus) /\ failures[s] \in Nat
        /\ \A x \in SystemStatus : Append(outcomes[s], x) \in Seq(SystemStatus)
        /\ failures[s] + 1 \in Nat
    BY DEF TypeOK
  <2>2. CASE SystemSucceeds(s) /\ RunSystem(s)
    BY <2>1, <2>2 DEF RunSystem, SystemSucceeds, SystemEnds, SystemStatus, TypeOK
  <2>3. CASE SystemFails(s) /\ RunSystem(s)
    BY <2>1, <2>3 DEF RunSystem, SystemFails, SystemEnds, SystemStatus, Status, TypeOK
  <2>4. CASE SkipRest(s)
    BY <2>4 DEF SkipRest, Goto, Status, TypeOK
  <2>5. CASE Finish(s)
    BY <2>5 DEF Finish, Goto, pipeline, TypeOK
  <2> QED
    BY <2>2, <2>3, <2>4, <2>5 DEF RunSystem
<1>1. TypeOK'
  BY <1>0, <1>O DEF TypeOK
<1>2. NoGaps'
  BY <1>0 DEF NoGaps
<1>3. NumberInv'
  BY <1>0, <1>P DEF NumberInv
<1>4. PipelineInv'
  BY <1>O, OthersConsistent, RunSystemConsistent, EndConsistent
<1>5. \A m : Executed(m)' <=> Executed(m)
  BY <1>0, SameExecuted
<1>6. \A m : InHand(m)' <=> InHand(m)
  BY <1>0, <1>P DEF InHand
<1>7. RunInv'
  BY <1>0, <1>P, <1>5, <1>6 DEF RunInv
<1>8. PastInv'
  BY <1>0, <1>P DEF PastInv
<1>9. HistoryInv'
  BY <1>0, <1>P DEF HistoryInv
<1>10. NoTickSkipped'
  BY <1>0, <1>5, <1>6 DEF NoTickSkipped
<1>11. TicksIncrease'
  BY <1>0 DEF TicksIncrease
<1>12. FailuresIsolated'
  BY <1>0, <1>5, SameRecords
<1> QED
  BY <1>1, <1>2, <1>3, <1>4, <1>7, <1>8, <1>9, <1>10, <1>11, <1>12

(* A server leaves its tick; its number is recorded, or something failed.  *)
LEMMA LeaveIInv ==
  ASSUME IInv, NEW s \in Servers, pc[s] # "idle", Leave(s),
         \/ faults' # 0 /\ faults' \in Nat /\ ticks' = ticks
         \/ /\ faults' = faults
            /\ pc[s] \in {"skip", "save"}
            /\ Upsert(tick[s], Record(s))
  PROVE  IInv'
<1> USE DEF IInv
<1>0. /\ pc' = [pc EXCEPT ![s] = "idle"]
      /\ tick' = [tick EXCEPT ![s] = 0]
      /\ outcomes' = [outcomes EXCEPT ![s] = <<>>]
      /\ failures' = [failures EXCEPT ![s] = 0]
      /\ overall' = [overall EXCEPT ![s] = "COMPLETED"]
      /\ executed' = executed
  BY DEF Leave, Goto
<1>D. /\ DOMAIN ticks \subseteq DOMAIN ticks'
      /\ DOMAIN ticks' \subseteq DOMAIN ticks \cup {tick[s]}
      /\ tick[s] # 0 /\ tick[s] \in Nat
      /\ \A m \in 1..tick[s] : m = tick[s] \/ m \in DOMAIN ticks
      /\ ticks' \in [DOMAIN ticks' -> [status : Status, outcomes : Seq(SystemStatus)]]
  <2>1. Record(s) \in [status : Status, outcomes : Seq(SystemStatus)]
    BY DEF Record, TypeOK
  <2>2. ASSUME Upsert(tick[s], Record(s))
        PROVE  /\ DOMAIN ticks' = DOMAIN ticks \cup {tick[s]}
               /\ ticks' \in [DOMAIN ticks' -> [status : Status, outcomes : Seq(SystemStatus)]]
    <3> DEFINE Row == [status : Status, outcomes : Seq(SystemStatus)]
    <3>1. Record(s) \in Row /\ ticks \in [DOMAIN ticks -> Row]
      BY <2>1 DEF TypeOK
    <3> HIDE DEF Row
    <3>2. DOMAIN ticks' = DOMAIN ticks \cup {tick[s]} /\ ticks' \in [DOMAIN ticks' -> Row]
      BY <2>2, <3>1 DEF Upsert
    <3> QED
      BY <3>2 DEF Row
  <2>3. tick[s] # 0 /\ tick[s] \in Nat /\ \A m \in 1..tick[s] : m = tick[s] \/ m \in DOMAIN ticks
    BY DEF NumberInv, TypeOK
  <2>4. ticks' = ticks => ticks' \in [DOMAIN ticks' -> [status : Status, outcomes : Seq(SystemStatus)]]
    BY DEF TypeOK
  <2> QED
    BY <2>2, <2>3, <2>4
<1>1. TypeOK'
  BY <1>0, <1>D DEF TypeOK, Status
<1>2. NoGaps'
  <2> SUFFICES ASSUME NEW n \in DOMAIN ticks', NEW m \in 1..n
               PROVE  m \in DOMAIN ticks'
    BY DEF NoGaps
  <2>1. CASE n \in DOMAIN ticks
    BY <1>D, <2>1 DEF NoGaps
  <2>2. CASE n \notin DOMAIN ticks
    BY <1>D, <2>2
  <2> QED
    BY <2>1, <2>2
<1>3. NumberInv'
  <2> SUFFICES ASSUME NEW r \in Servers, pc'[r] # "idle"
               PROVE  tick'[r] # 0 /\ \A m \in 1..tick'[r] : m = tick'[r] \/ m \in DOMAIN ticks'
    BY DEF NumberInv
  <2>1. r # s /\ pc[r] # "idle" /\ tick'[r] = tick[r]
    BY <1>0 DEF TypeOK
  <2> QED
    BY <1>D, <2>1 DEF NumberInv
<1>4. PipelineInv'
  <2>1. /\ pc'[s] = "idle" /\ outcomes'[s] = <<>> /\ failures'[s] = 0 /\ overall'[s] = "COMPLETED"
        /\ \A r \in Servers \ {s} :
             /\ pc'[r] = pc[r] /\ outcomes'[r] = outcomes[r]
             /\ failures'[r] = failures[r] /\ overall'[r] = overall[r]
    BY <1>0 DEF TypeOK
  <2>2. Consistent(s)'
    BY <2>1, FailedNone DEF Consistent, Record, Failed
  <2> QED
    BY <2>1, <2>2, OthersConsistent
<1>5. \A m : Executed(m)' <=> Executed(m)
  BY <1>0, SameExecuted
<1>6. ASSUME faults' = 0
      PROVE  /\ faults = 0
             /\ pc[s] \in {"skip", "save"}
             /\ DOMAIN ticks' = DOMAIN ticks \cup {tick[s]}
             /\ \A m : InHand(m) => InHand(m)'
  BY <1>0, <1>6 DEF InHand, TypeOK, Upsert
<1>7. RunInv'
  <2>1. \A r \in Servers : pc'[r] # "idle" => pc'[r] = pc[r] /\ tick'[r] = tick[r]
    BY <1>0 DEF TypeOK
  <2>2. ASSUME NEW r \in Servers
        PROVE  /\ pc'[r] \in {"run", "save"} => Executed(tick[r])'
               /\ faults' = 0 /\ pc'[r] = "skip" => Executed(tick[r])' \/ InHand(tick[r])'
    <3> DEFINE n == tick[r]
    <3>1. /\ pc[r] \in {"run", "save"} => Executed(n)
          /\ faults = 0 /\ pc[r] = "skip" => Executed(n) \/ InHand(n)
      BY <2>2 DEF RunInv
    <3>2. \A m : tick'[r] = m =>
            (Executed(tick[r])' <=> Executed(m)') /\ (InHand(tick[r])' <=> InHand(m)')
      BY DEF Executed, InHand
    <3>3. /\ Executed(n) => \A m : m = n => Executed(m)'
          /\ faults' = 0 /\ InHand(n) => \A m : m = n => InHand(m)'
      BY <1>5, <1>6, <2>2
    <3> HIDE DEF n
    <3> QED
      BY <1>6, <2>1, <3>1, <3>2, <3>3 DEF n
  <2> QED
    BY <2>2 DEF RunInv
<1>8. PastInv'
  <2> SUFFICES ASSUME NEW r \in Servers, NEW i \in DOMAIN executed[r]
               PROVE  /\ \A m \in 1..executed[r][i] : m = executed[r][i] \/ m \in DOMAIN ticks'
                      /\ pc'[r] \in {"try", "locked", "skip"} => executed[r][i] <= tick'[r] \/ tick'[r] = 1
    BY <1>0 DEF PastInv
  <2>1. CASE r = s
    BY <1>0, <1>D, <2>1 DEF PastInv, TypeOK
  <2>2. CASE r # s
    BY <1>0, <1>D, <2>2 DEF PastInv, TypeOK
  <2> QED
    BY <2>1, <2>2
<1>9. HistoryInv'
  <2> SUFFICES ASSUME faults' = 0, NEW r \in Servers, NEW i \in DOMAIN executed[r]
               PROVE  /\ \/ executed[r][i] \in DOMAIN ticks'
                         \/ pc'[r] \in {"run", "save"} /\ executed[r][i] = tick'[r]
                      /\ pc'[r] \in {"try", "locked", "skip"} => executed[r][i] < tick'[r]
    BY <1>0 DEF HistoryInv
  <2>1. CASE r = s
    BY <1>0, <1>6, <2>1 DEF HistoryInv, TypeOK
  <2>2. CASE r # s
    BY <1>0, <1>6, <2>2 DEF HistoryInv, TypeOK
  <2> QED
    BY <2>1, <2>2
<1>10. NoTickSkipped'
  <2> SUFFICES ASSUME faults' = 0, NEW n \in DOMAIN ticks'
               PROVE  Executed(n)' \/ InHand(n)'
    BY DEF NoTickSkipped
  <2>1. Executed(n) \/ InHand(n)
    BY <1>6 DEF NoTickSkipped, RunInv
  <2> QED
    BY <1>5, <1>6, <2>1
<1>11. TicksIncrease'
  BY <1>0 DEF TicksIncrease, TypeOK
<1>12. FailuresIsolated'
  <2>1. CASE ticks' = ticks
    BY <1>5, <2>1, SameRecords
  <2>2. CASE Upsert(tick[s], Record(s)) /\ pc[s] \in {"skip", "save"}
    <3> SUFFICES ASSUME NEW n \in DOMAIN ticks'
                 PROVE  \/ Honest(ticks[n])' /\ Executed(n)'
                        \/ ticks'[n] = [status |-> "FAILED", outcomes |-> <<>>]
      BY DEF FailuresIsolated
    <3>1. Honest(ticks[n])' <=> Honest(ticks'[n])
      BY DEF Honest, Failed
    <3>2. CASE n = tick[s]
      <4>1. ticks'[n] = Record(s)
        BY <2>2, <3>2 DEF Upsert
      <4>2. /\ pc[s] = "skip" => Record(s) = [status |-> "FAILED", outcomes |-> <<>>]
            /\ pc[s] = "save" => Honest(Record(s))
        BY DEF PipelineInv, Consistent
      <4>3. pc[s] = "save" => Executed(n)
        BY <3>2 DEF RunInv
      <4> QED
        BY <1>5, <2>2, <3>1, <4>1, <4>2, <4>3
    <3>3. CASE n # tick[s]
      <4>1. n \in DOMAIN ticks /\ ticks'[n] = ticks[n]
        BY <2>2, <3>3 DEF Upsert
      <4> QED
        BY <1>5, <3>1, <4>1 DEF FailuresIsolated
    <3> QED
      BY <3>2, <3>3
  <2> QED
    BY <2>1, <2>2
<1> QED
  BY <1>1, <1>2, <1>3, <1>4, <1>7, <1>8, <1>9, <1>10, <1>11, <1>12

(* A tick ends: its number is recorded, or a fault has happened.           *)
LEMMA EndIInv ==
  ASSUME IInv, NEW s \in Servers, Save(s) \/ SaveError(s) \/ Restart(s)
  PROVE  IInv'
<1>1. CASE Save(s)
  BY <1>1, LeaveIInv DEF Save, Saving
<1>2. CASE SaveError(s) \/ Restart(s)
  <2>1. faults' # 0 /\ faults' \in Nat /\ ticks' = ticks /\ pc[s] # "idle" /\ Leave(s)
    BY <1>2 DEF SaveError, Saving, Restart, Fault, IInv, TypeOK
  <2> QED
    BY <2>1, LeaveIInv
<1> QED
  BY <1>1, <1>2

(* Every step keeps the invariant.                                         *)
LEMMA NextIInv ==
  ASSUME IInv, [Next]_vars
  PROVE  IInv'
<1>1. CASE UNCHANGED vars
  <2>1. UNCHANGED <<ticks, pc, tick, outcomes, failures, overall, executed, faults>>
    BY <1>1 DEF vars
  <2>2. /\ \A m : Executed(m)' <=> Executed(m)
        /\ \A m : InHand(m)' <=> InHand(m)
    BY <2>1 DEF Executed, InHand
  <2>3. TypeOK' /\ NoGaps' /\ NumberInv' /\ PastInv' /\ HistoryInv' /\ TicksIncrease'
    BY <2>1 DEF IInv, TypeOK, NoGaps, NumberInv, PastInv, HistoryInv, TicksIncrease
  <2>4. PipelineInv'
    <3>1. \A r \in Servers : Consistent(r)' <=> Consistent(r)
      BY <2>1 DEF Consistent, Record, Failed, Honest
    <3> QED
      BY <3>1 DEF IInv, PipelineInv
  <2>5. RunInv'
    BY <2>1 DEF IInv, RunInv, Executed, InHand
  <2>6. NoTickSkipped' /\ FailuresIsolated'
    BY <2>1, <2>2, SameRecords DEF IInv, NoTickSkipped
  <2> QED
    BY <2>3, <2>4, <2>5, <2>6 DEF IInv
<1>2. ASSUME NEW s \in Servers, Step(s)
      PROVE  IInv'
  BY <1>2, ReadLatestIInv, LockIInv, ReleaseIInv, PipelineIInv, EndIInv DEF Step
<1>3. ASSUME NEW s \in Servers, DatabaseError(s) \/ Restart(s)
      PROVE  IInv'
  BY <1>3, ReadErrorIInv, LockIInv, EndIInv DEF DatabaseError
<1> QED
  BY <1>1, <1>2, <1>3 DEF Next

-----------------------------------------------------------------------------
(* The theorems.                                                           *)

(* The invariant holds in every behaviour.                                 *)
THEOREM Invariance == Spec => []IInv
<1>1. IInv /\ [Next]_vars => IInv'
  BY NextIInv
<1> QED
  BY InitIInv, <1>1, PTL DEF Spec

(* Every variable keeps its type.                                          *)
THEOREM TypeCorrect == Spec => []TypeOK
<1>1. IInv => TypeOK
  BY DEF IInv
<1> QED
  BY Invariance, <1>1, PTL

(* The records of simulation_ticks have no gap, whatever fails.            *)
THEOREM RecordsComplete == Spec => []NoGaps
<1>1. IInv => NoGaps
  BY DEF IInv
<1> QED
  BY Invariance, <1>1, PTL

(* A recorded tick has been run by somebody, as long as nothing fails.     *)
THEOREM NoneSkipped == Spec => []NoTickSkipped
<1>1. IInv => NoTickSkipped
  BY DEF IInv
<1> QED
  BY Invariance, <1>1, PTL

(* A server's tick numbers increase; only after a fault is one repeated or *)
(* started again at 1.                                                     *)
THEOREM NumbersIncrease == Spec => []TicksIncrease
<1>1. IInv => TicksIncrease
  BY DEF IInv
<1> QED
  BY Invariance, <1>1, PTL

(* Every record tells one run of its number, with all systems in it or     *)
(* cut short by exactly MaxFailures failures, or no run at all.            *)
THEOREM Isolation == Spec => []FailuresIsolated
<1>1. IInv => FailuresIsolated
  BY DEF IInv
<1> QED
  BY Invariance, <1>1, PTL

=============================================================================
