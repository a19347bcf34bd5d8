---------------------------- MODULE EnergyProofs ----------------------------
(***************************************************************************)
(* Proofs about Energy for any nodes, tasks, servers and calls: no update  *)
(* of a node is lost, the event log is never behind the queue, and a       *)
(* better grid has no worse mode.                                          *)
(***************************************************************************)
EXTENDS Energy, FiniteSetTheorems, TLAPS

(* Whatever the nodes report, a tick computes one of the four modes.       *)
LEMMA TickModes ==
  ASSUME NEW g
  PROVE  CalculateTick(LatestState, g) \in Modes
<1>1. \A p, c, q, r : ModeOf(p, c, q, r) \in Modes
  <2> SUFFICES ASSUME NEW p, NEW c, NEW q, NEW r
               PROVE  ModeOf(p, c, q, r) \in Modes
    OBVIOUS
  <2> DEFINE shortfall == Wrap(c - p)
  <2>1. CASE shortfall > 0 /\ r >= shortfall
    BY <2>1 DEF ModeOf, Modes
  <2>2. CASE ~(shortfall > 0 /\ r >= shortfall)
    BY <2>2 DEF ModeOf, Modes
  <2> QED
    BY <2>1, <2>2
<1> QED
  BY <1>1 DEF CalculateTick, LatestState, Modes

(* An empty grid, idle tasks and servers.                                  *)
LEMMA InitIInv == Init => IInv
<1> SUFFICES ASSUME Init PROVE IInv
  OBVIOUS
<1>1. DOMAIN nodes = {} /\ nodes \in [{} -> NodeRow] /\ IsFiniteSet(DOMAIN nodes)
  BY FS_EmptySet DEF Init
<1>2. TypeOK
  BY <1>1, EnergyAssumption DEF Init, TypeOK, Modes, EnergyAssumption
<1> QED
  BY <1>1, <1>2 DEF Init, IInv, TaskInv, LogInv, RevisionsCount, LogCoversQueue

(* A new node starts at revision 0, and nobody has observed it.            *)
LEMMA RegisterIInv ==
  ASSUME IInv, NEW n \in Nodes, NEW r \in Registrations, Register(n, r)
  PROVE  IInv'
<1> DEFINE row == [type |-> r.type, room |-> r.room, production |-> 0,
                   consumption |-> 0, stored |-> 0, revision |-> 0]
<1>1. row \in NodeRow
  BY EnergyAssumption DEF EnergyAssumption, NodeRow, Word
<1>2. /\ n \notin DOMAIN nodes
      /\ nodes' = [m \in DOMAIN nodes \cup {n} |-> IF m = n THEN row ELSE nodes[m]]
      /\ UNCHANGED <<accepted, taskVars, tickVars>>
  BY DEF Register
<1>3. row.revision = 0
  OBVIOUS
<1> HIDE DEF row
<1>4. TypeOK'
  <2>1. IsFiniteSet(DOMAIN nodes \cup {n})
    BY FS_AddElement DEF IInv, TypeOK
  <2>2. DOMAIN nodes' = DOMAIN nodes \cup {n}
    BY <1>2
  <2>3. IsFiniteSet(DOMAIN nodes')
    BY <2>1, <2>2
  <2> QED
    BY <1>1, <1>2, <2>2, <2>3 DEF IInv, TypeOK, taskVars, tickVars
<1>5. RevisionsCount'
  BY <1>2, <1>3 DEF IInv, TypeOK, RevisionsCount
<1>6. TaskInv' /\ LogInv' /\ LogCoversQueue'
  BY <1>2 DEF IInv, TaskInv, LogInv, LogCoversQueue, taskVars, tickVars
<1> QED
  BY <1>4, <1>5, <1>6 DEF IInv

(* A task reads the revision of a node that is there.                      *)
LEMMA FindNodeIInv ==
  ASSUME IInv, NEW t \in Tasks, NEW o \in Observations, FindNode(t, o)
  PROVE  IInv'
<1>1. nodes[o.node].revision \in Nat
  BY DEF FindNode, IInv, TypeOK, NodeRow
<1>2. TypeOK'
  BY <1>1 DEF FindNode, IInv, TypeOK, tickVars
<1>3. TaskInv'
  BY DEF FindNode, IInv, TypeOK, TaskInv
<1>4. LogInv' /\ LogCoversQueue' /\ RevisionsCount'
  BY DEF FindNode, IInv, LogInv, LogCoversQueue, RevisionsCount, tickVars
<1> QED
  BY <1>2, <1>3, <1>4 DEF IInv

(* The UPDATE counts once, on the revision that is still in the row.       *)
LEMMA UpdateNodeIInv ==
  ASSUME IInv, NEW t \in Tasks, UpdateNode(t)
  PROVE  IInv'
<1> DEFINE n == job[t].node
           row == [type |-> nodes[n].type, room |-> nodes[n].room,
                   production |-> job[t].production, consumption |-> job[t].consumption,
                   stored |-> job[t].stored, revision |-> seen[t] + 1]
<1>1. /\ pc[t] = "update" /\ job[t] \in Observations
      /\ n \in DOMAIN nodes /\ n \in Nodes /\ nodes[n] \in NodeRow
      /\ nodes[n].revision = seen[t] /\ seen[t] \in Nat
  BY DEF UpdateNode, EndReport, UpToDate, IInv, TypeOK, TaskInv
<1>2. row \in NodeRow /\ row.revision = nodes[n].revision + 1
  <2>1. /\ job[t].production \in Word /\ job[t].consumption \in Word
        /\ job[t].stored \in Word /\ MaxWord \in Nat
    BY <1>1, EnergyAssumption DEF EnergyAssumption
  <2>2. job[t].production \in 0..MaxWord /\ job[t].consumption \in 0..MaxWord
    BY <2>1 DEF UpdateNode, NonNegative, Word
  <2>3. nodes[n].type \in NodeTypes /\ nodes[n].room \in Word
    BY <1>1 DEF NodeRow
  <2> QED
    BY <1>1, <2>1, <2>2, <2>3 DEF NodeRow
<1>3. /\ nodes' = [nodes EXCEPT ![n] = row]
      /\ accepted' = [accepted EXCEPT ![n] = @ + 1]
      /\ pc' = [pc EXCEPT ![t] = "idle"]
      /\ job' = [job EXCEPT ![t] = NoJob]
      /\ seen' = [seen EXCEPT ![t] = 0]
      /\ UNCHANGED tickVars
  BY DEF UpdateNode, EndReport
<1> HIDE DEF row, n
<1>4. TypeOK'
  BY <1>1, <1>2, <1>3 DEF IInv, TypeOK, tickVars
<1>5. RevisionsCount'
  BY <1>1, <1>2, <1>3 DEF IInv, TypeOK, RevisionsCount
<1>6. TaskInv' /\ LogInv' /\ LogCoversQueue'
  BY <1>3 DEF IInv, TypeOK, TaskInv, LogInv, LogCoversQueue, tickVars
<1> QED
  BY <1>4, <1>5, <1>6 DEF IInv

(* A report that ends without an UPDATE.                                   *)
LEMMA RefuseUpdateIInv ==
  ASSUME IInv, NEW t \in Tasks, RefuseUpdate(t)
  PROVE  IInv'
<1> USE DEF RefuseUpdate, EndReport, IInv
<1>1. TypeOK'
  BY DEF TypeOK, tickVars
<1>2. TaskInv'
  BY DEF TypeOK, TaskInv
<1>3. LogInv' /\ LogCoversQueue' /\ RevisionsCount'
  BY DEF LogInv, LogCoversQueue, RevisionsCount, tickVars
<1> QED
  BY <1>1, <1>2, <1>3

(* The steps of a tick; only the INSERT leads to the publisher.            *)
LEMMA TickIInv ==
  ASSUME IInv, NEW s \in Servers, Tick(s) \/ BreakOff(s) \/ Panic(s)
  PROVE  IInv'
<1> USE DEF IInv
<1>1. UNCHANGED <<nodes, accepted, taskVars>>
  BY DEF Tick, ComputeMode, AppendEvent, Publish, BreakOff, Panic
<1>2. TaskInv' /\ RevisionsCount'
  BY <1>1 DEF TaskInv, RevisionsCount, taskVars
<1>3. CASE ComputeMode(s)
  <2> DEFINE new == CalculateTick(LatestState, nodes)
  <2>1. new \in Modes
    BY TickModes
  <2>2. /\ place' = [place EXCEPT ![s] = "log"]
        /\ mode' = [mode EXCEPT ![s] = new]
        /\ UNCHANGED <<logged, published, crashes>>
    BY <1>3 DEF ComputeMode
  <2> HIDE DEF new
  <2> QED
    BY <1>1, <1>2, <2>1, <2>2 DEF TypeOK, LogInv, LogCoversQueue, taskVars
<1>4. CASE AppendEvent(s)
  BY <1>1, <1>2, <1>4 DEF AppendEvent, TypeOK, LogInv, LogCoversQueue, taskVars
<1>5. CASE Publish(s)
  BY <1>1, <1>2, <1>5 DEF Publish, Leave, Modes, TypeOK, LogInv, LogCoversQueue, taskVars
<1>6. CASE BreakOff(s)
  BY <1>1, <1>2, <1>6 DEF BreakOff, Leave, Modes, TypeOK, LogInv, LogCoversQueue, taskVars
<1>7. CASE Panic(s)
  BY <1>1, <1>2, <1>7 DEF Panic, TypeOK, LogInv, LogCoversQueue, taskVars
<1> QED
  BY <1>3, <1>4, <1>5, <1>6, <1>7 DEF Tick

(* Every step keeps the invariant.                                         *)
LEMMA NextIInv ==
  ASSUME IInv, [Next]_vars
  PROVE  IInv'
<1>1. CASE UNCHANGED vars
  BY <1>1 DEF vars, taskVars, tickVars, IInv, TypeOK, TaskInv, LogInv, RevisionsCount,
              LogCoversQueue
<1>2. CASE Observe
  BY <1>2, RegisterIInv, FindNodeIInv, UpdateNodeIInv, RefuseUpdateIInv DEF Observe
<1>3. CASE \E s \in Servers : Tick(s) \/ BreakOff(s) \/ Panic(s)
  BY <1>3, TickIInv
<1> QED
  BY <1>1, <1>2, <1>3 DEF Next

(* The inductive invariant of the grid's nodes and announcements.          *)
THEOREM Invariance == Spec => []IInv
  BY InitIInv, NextIInv, PTL DEF Spec

(* Every variable keeps its type; the table has no negative production or  *)
(* consumption.                                                            *)
THEOREM TypeCorrect == Spec => []TypeOK
<1>1. IInv => TypeOK
  BY DEF IInv
<1> QED
  BY <1>1, Invariance, PTL

(* The revision of a node counts its accepted observations, for any number *)
(* of concurrent reports.                                                  *)
THEOREM NoObservationLost == Spec => []RevisionsCount
<1>1. IInv => RevisionsCount
  BY DEF IInv
<1> QED
  BY <1>1, Invariance, PTL

(* The queue never tells what the event log does not know.                 *)
THEOREM LogFirst == Spec => []LogCoversQueue
<1>1. IInv => LogCoversQueue
  BY DEF IInv
<1> QED
  BY <1>1, Invariance, PTL

-----------------------------------------------------------------------------
(* The sums of calculate_tick.  What holds of a fold over a finite set is  *)
(* shown by the smallest set for which it would not hold.                  *)
LEMMA SmallestSet ==
  ASSUME NEW S, IsFiniteSet(S), NEW B, B \subseteq SUBSET S, B # {}
  PROVE  \E T \in B : \A U \in B : U \subseteq T => U = T
<1>1. IsWellFoundedOn(StrictSubsetOrdering(S), FiniteSubsetsOf(S))
  BY FS_StrictSubsetOrderingWellFounded
<1>2. \A T \in B : T \in SUBSET S /\ IsFiniteSet(T)
  BY FS_Subset
<1>3. B \subseteq FiniteSubsetsOf(S)
  BY <1>2 DEF FiniteSubsetsOf
<1>4. PICK T \in B : \A U \in B : <<U, T>> \notin StrictSubsetOrdering(S)
  BY <1>1, <1>3, WFMin
<1>5. ASSUME NEW U \in B, U \subseteq T, U # T PROVE FALSE
  BY <1>2, <1>4, <1>5 DEF StrictSubsetOrdering
<1> QED
  BY <1>5

(* How MapThenSumSet takes a set apart, and the equation of its function:  *)
(* its value at a subset s of S is the sum of v over s.                    *)
First(s) == CHOOSE x \in s : TRUE
Rest(s) == s \ {First(s)}

IsSum(it, S, v) ==
  it = [s \in SUBSET S |-> IF s = {} THEN 0 ELSE v[First(s)] + it[Rest(s)]]

(* The sums of the integers v over the subsets of the finite set S.        *)
Sums(it, S, v) ==
  /\ IsFiniteSet(S)
  /\ \A x \in S : v[x] \in Int
  /\ it \in [SUBSET S -> Int]
  /\ IsSum(it, S, v)

(* What is left of a set is smaller.                                       *)
LEMMA FirstRest ==
  ASSUME NEW s, s # {}
  PROVE  First(s) \in s /\ Rest(s) \subseteq s /\ Rest(s) # s
BY DEF First, Rest

(* The equation at one subset.                                             *)
LEMMA SumUnfolds ==
  ASSUME NEW S, NEW v, NEW it, IsSum(it, S, v), NEW s \in SUBSET S
  PROVE  it[s] = IF s = {} THEN 0 ELSE v[First(s)] + it[Rest(s)]
<1> DEFINE e(x) == IF x = {} THEN 0 ELSE v[First(x)] + it[Rest(x)]
<1>1. it = [x \in SUBSET S |-> e(x)]
  BY DEF IsSum
<1> HIDE DEF e
<1>2. it[s] = e(s)
  BY <1>1
<1> QED
  BY <1>2 DEF e

(* A sum depends on the elements it is of only.                            *)
LEMMA SumsAgree ==
  ASSUME NEW S, IsFiniteSet(S), NEW T \in SUBSET S, NEW U \in SUBSET S, NEW v,
         NEW it, IsSum(it, T, v), NEW jt, IsSum(jt, U, v)
  PROVE  \A s \in SUBSET T : s \subseteq U => it[s] = jt[s]
<1> DEFINE B == {s \in SUBSET T : s \subseteq U /\ it[s] # jt[s]}
<1>1. SUFFICES ASSUME B # {} PROVE FALSE
  OBVIOUS
<1>2. PICK s \in B : \A r \in B : r \subseteq s => r = s
  <2>1. B \subseteq SUBSET S
    OBVIOUS
  <2> HIDE DEF B
  <2> QED
    BY <1>1, <2>1, SmallestSet
<1>3. s \in SUBSET T /\ s \in SUBSET U /\ it[s] # jt[s]
  OBVIOUS
<1>4. s # {}
  BY <1>3, SumUnfolds
<1>5. it[Rest(s)] = jt[Rest(s)]
  BY <1>2, <1>4, FirstRest
<1> QED
  BY <1>3, <1>4, <1>5, SumUnfolds

(* There are sums over every finite set: a function for a set is put       *)
(* together from those for its subsets.                                    *)
LEMMA SumExists ==
  ASSUME NEW S, IsFiniteSet(S), NEW v, \A x \in S : v[x] \in Int
  PROVE  \E it : Sums(it, S, v)
<1> DEFINE Good(T, it) == it \in [SUBSET T -> Int] /\ IsSum(it, T, v)
           B == {T \in SUBSET S : ~\E it : Good(T, it)}
<1>1. SUFFICES ASSUME B # {} PROVE FALSE
  BY DEF Sums
<1>2. PICK T \in B : \A U \in B : U \subseteq T => U = T
  <2>1. B \subseteq SUBSET S
    OBVIOUS
  <2> HIDE DEF B
  <2> QED
    BY <1>1, <2>1, SmallestSet
<1> DEFINE Part(U) == CHOOSE it : Good(U, it)
           e(s) == IF s = {} THEN 0 ELSE v[First(s)] + Part(Rest(s))[Rest(s)]
           it == [s \in SUBSET T |-> e(s)]
<1>3. ASSUME NEW U \in SUBSET T, U # T PROVE Good(U, Part(U))
  <2>1. \E jt : Good(U, jt)
    BY <1>2, <1>3
  <2> HIDE DEF Good
  <2> QED
    BY <2>1
<1> HIDE DEF Part
<1>4. \A s \in SUBSET T : s # {} => Good(Rest(s), Part(Rest(s)))
  <2>1. \A s \in SUBSET T : s # {} => Rest(s) \in SUBSET T /\ Rest(s) # T
    BY FirstRest
  <2> HIDE DEF Good
  <2> QED
    BY <1>3, <2>1
<1>5. it \in [SUBSET T -> Int]
  <2> SUFFICES ASSUME NEW s \in SUBSET T PROVE e(s) \in Int
    OBVIOUS
  <2>1. CASE s # {}
    <3>1. v[First(s)] \in Int
      BY <2>1, FirstRest
    <3>2. Part(Rest(s))[Rest(s)] \in Int
      BY <1>4, <2>1
    <3> QED
      BY <3>1, <3>2
  <2> QED
    BY <2>1
<1>6. \A s \in SUBSET T : it[s] = e(s)
  OBVIOUS
<1> HIDE DEF it
<1>7. ASSUME NEW r \in SUBSET T, r # T PROVE it[r] = Part(r)[r]
  <2>1. r \in SUBSET r /\ r \in SUBSET S /\ IsSum(Part(r), r, v)
    BY <1>3, <1>7
  <2>2. CASE r = {}
    BY <1>6, <2>1, <2>2, SumUnfolds
  <2>3. CASE r # {}
    <3>1. /\ Rest(r) \in SUBSET r /\ Rest(r) \in SUBSET S
          /\ IsSum(Part(Rest(r)), Rest(r), v)
      BY <1>4, <2>1, <2>3, FirstRest
    <3>2. Part(r)[Rest(r)] = Part(Rest(r))[Rest(r)]
      <4> HIDE DEF Good
      <4>1. \A s \in SUBSET r : s \subseteq Rest(r) => Part(r)[s] = Part(Rest(r))[s]
        BY <2>1, <3>1, SumsAgree
      <4> QED
        BY <3>1, <4>1
    <3>3. Part(r)[r] = v[First(r)] + Part(r)[Rest(r)]
      BY <2>1, <2>3, SumUnfolds
    <3> QED
      BY <1>6, <2>3, <3>2, <3>3
  <2> QED
    BY <2>2, <2>3
<1>8. IsSum(it, T, v)
  <2>1. \A s \in SUBSET T : e(s) = IF s = {} THEN 0 ELSE v[First(s)] + it[Rest(s)]
    <3>1. \A s \in SUBSET T : s # {} => Rest(s) \in SUBSET T /\ Rest(s) # T
      BY FirstRest
    <3> QED
      BY <1>7, <3>1
  <2> HIDE DEF e
  <2> QED
    BY <2>1 DEF IsSum, it
<1> QED
  BY <1>2, <1>5, <1>8

(* Any element can be taken out first: the order does not matter, in which *)
(* list_active_nodes returns the rows.                                     *)
LEMMA AnyOrder ==
  ASSUME NEW S, NEW v, NEW it, Sums(it, S, v)
  PROVE  \A T \in SUBSET S : \A x \in T : it[T] = v[x] + it[T \ {x}]
<1>0. IsFiniteSet(S) /\ it \in [SUBSET S -> Int] /\ IsSum(it, S, v) /\ \A x \in S : v[x] \in Int
  BY DEF Sums
<1> DEFINE Good(T) == \A x \in T : it[T] = v[x] + it[T \ {x}]
           B == {T \in SUBSET S : ~Good(T)}
<1>1. SUFFICES ASSUME B # {} PROVE FALSE
  OBVIOUS
<1>2. PICK T \in B : \A U \in B : U \subseteq T => U = T
  <2>1. B \subseteq SUBSET S
    OBVIOUS
  <2> HIDE DEF B
  <2> QED
    BY <1>0, <1>1, <2>1, SmallestSet
<1>3. T \in SUBSET S /\ ~Good(T)
  OBVIOUS
<1>4. PICK x \in T : it[T] # v[x] + it[T \ {x}]
  BY <1>3
<1>5. PICK y \in T : it[T] = v[y] + it[T \ {y}]
  <2>1. First(T) \in T /\ it[T] = v[First(T)] + it[Rest(T)]
    BY <1>0, <1>3, <1>4, FirstRest, SumUnfolds
  <2> QED
    BY <2>1 DEF Rest
<1>6. x # y
  BY <1>4, <1>5
<1>7. Good(T \ {x}) /\ Good(T \ {y})
  <2>1. \A z \in T : T \ {z} \in SUBSET S /\ T \ {z} \subseteq T /\ T \ {z} # T
    BY <1>3
  <2> HIDE DEF Good
  <2> QED
    BY <1>2, <2>1
<1>8. (T \ {x}) \ {y} = (T \ {y}) \ {x}
  OBVIOUS
<1>9. /\ it[T \ {x}] = v[y] + it[(T \ {x}) \ {y}]
      /\ it[T \ {y}] = v[x] + it[(T \ {y}) \ {x}]
  BY <1>6, <1>7
<1>10. PICK d \in Int : it[T \ {x}] = v[y] + d /\ it[T \ {y}] = v[x] + d
  <2>1. it[(T \ {x}) \ {y}] \in Int
    BY <1>0, <1>3
  <2> HIDE DEF B, Good
  <2> QED
    BY <1>8, <1>9, <2>1
<1>11. v[x] \in Int /\ v[y] \in Int
  BY <1>0, <1>3
<1> HIDE DEF B, Good
<1> QED
  BY <1>4, <1>5, <1>10, <1>11

(* A sum with greater summands is greater, also where one has elements     *)
(* that the other has not, on their proper side of 0.                      *)
LEMMA SumsOrdered ==
  ASSUME NEW S, NEW v, NEW it, Sums(it, S, v),
         NEW T, NEW w, NEW jt, Sums(jt, T, w),
         \A x \in S \cap T : v[x] <= w[x],
         \A x \in S \ T : v[x] <= 0,
         \A x \in T \ S : w[x] >= 0
  PROVE  it[S] <= jt[T]
<1> DEFINE Good(U) == it[U \cap S] <= jt[U \cap T]
           R == S \cup T
           B == {U \in SUBSET R : ~Good(U)}
<1>0. IsFiniteSet(R)
  BY FS_Union DEF Sums
<1>1. SUFFICES ASSUME B # {} PROVE FALSE
  <2>1. R \in SUBSET R /\ R \cap S = S /\ R \cap T = T
    OBVIOUS
  <2> QED
    BY <1>1, <2>1
<1>2. PICK U \in B : \A W \in B : W \subseteq U => W = U
  <2>1. B \subseteq SUBSET R
    OBVIOUS
  <2> HIDE DEF B
  <2> QED
    BY <1>0, <1>1, <2>1, SmallestSet
<1>3. U \in SUBSET R /\ ~Good(U)
  OBVIOUS
<1>4. /\ \A Y \in SUBSET S : \A x \in Y : it[Y] = v[x] + it[Y \ {x}]
      /\ \A Y \in SUBSET T : \A x \in Y : jt[Y] = w[x] + jt[Y \ {x}]
  BY AnyOrder
<1>5. it[{}] = 0 /\ jt[{}] = 0
  BY SumUnfolds DEF Sums
<1>6. U # {}
  <2>1. {} \cap S = {} /\ {} \cap T = {}
    OBVIOUS
  <2> SUFFICES ASSUME U = {} PROVE FALSE
    OBVIOUS
  <2>2. U \cap S = {} /\ U \cap T = {}
    OBVIOUS
  <2> QED
    BY <1>3, <1>5, <2>2
<1>7. PICK x \in U : TRUE
  BY <1>6
<1> DEFINE W == U \ {x}
<1>8. it[W \cap S] <= jt[W \cap T]
  <2>1. W \in SUBSET R /\ W \subseteq U /\ W # U
    BY <1>3, <1>7
  <2> HIDE DEF Good, W
  <2>2. Good(W)
    BY <1>2, <2>1
  <2> QED
    BY <2>2 DEF Good
<1>9. it[W \cap S] \in Int /\ jt[W \cap T] \in Int
  BY DEF Sums
<1>10. x \in S => it[U \cap S] = v[x] + it[W \cap S]
  <2>1. x \in S => U \cap S \in SUBSET S /\ x \in U \cap S /\ (U \cap S) \ {x} = W \cap S
    OBVIOUS
  <2> HIDE DEF W
  <2> QED
    BY <1>4, <2>1
<1>11. x \in T => jt[U \cap T] = w[x] + jt[W \cap T]
  <2>1. x \in T => U \cap T \in SUBSET T /\ x \in U \cap T /\ (U \cap T) \ {x} = W \cap T
    OBVIOUS
  <2> HIDE DEF W
  <2> QED
    BY <1>4, <2>1
<1>12. (x \notin S => U \cap S = W \cap S) /\ (x \notin T => U \cap T = W \cap T)
  OBVIOUS
<1>13. /\ x \in S => v[x] \in Int
       /\ x \in T => w[x] \in Int
       /\ x \in S /\ x \in T => v[x] <= w[x]
       /\ x \in S /\ x \notin T => v[x] <= 0
       /\ x \notin S /\ x \in T => w[x] >= 0
  BY DEF Sums
<1> HIDE DEF W, R
<1> QED
  BY <1>3, <1>8, <1>9, <1>10, <1>11, <1>12, <1>13

(* The arithmetic of an i64 is that of the integers within its range.      *)
LEMMA Wraps ==
  ASSUME NEW x \in Word
  PROVE  Wrap(x) = x
<1>1. MaxWord \in Nat /\ x \in Int /\ x + MaxWord + 1 \in 0..(2 * (MaxWord + 1) - 1)
  BY EnergyAssumption DEF EnergyAssumption, Word
<1>2. (x + MaxWord + 1) % (2 * (MaxWord + 1)) = x + MaxWord + 1
  BY <1>1
<1> QED
  BY <1>1, <1>2 DEF Wrap

(* The branches of calculate_tick agree with each other.                   *)
LEMMA ModesOrdered ==
  ASSUME NEW p \in Nat, NEW c \in Nat, NEW k, NEW s \in Int,
         NEW q \in Nat, NEW d \in Nat, NEW l, NEW r \in Int,
         {p, c, q, d} \subseteq Word,
         p <= q, d <= c, s <= r
  PROVE  Severity(ModeOf(q, d, l, r)) <= Severity(ModeOf(p, c, k, s))
<1>1. c - p \in Word /\ d - q \in Word
  BY EnergyAssumption DEF EnergyAssumption, Word
<1>2. Wrap(c - p) = c - p /\ Wrap(d - q) = d - q
  BY <1>1, Wraps
<1>3. /\ ModeOf(p, c, k, s) = CASE c - p > 0 /\ s >= c - p -> "Deficit"
            [] c - p > 0 /\ s < c - p -> "Critical"
            [] c - p <= 0 /\ p > c /\ k > s -> "Surplus"
            [] OTHER -> "Normal"
      /\ ModeOf(q, d, l, r) = CASE d - q > 0 /\ r >= d - q -> "Deficit"
            [] d - q > 0 /\ r < d - q -> "Critical"
            [] d - q <= 0 /\ q > d /\ l > r -> "Surplus"
            [] OTHER -> "Normal"
  BY <1>2 DEF ModeOf
<1> QED
  BY <1>3 DEF Severity
(* The totals of a grid are such sums.                                     *)
LEMMA Productions ==
  ASSUME NEW g, IsFiniteSet(DOMAIN g), NEW v, \A n \in DOMAIN g : v[n] = Production(g[n]) /\ v[n] \in Int
  PROVE  \E it : Sums(it, DOMAIN g, v) /\ Total(Production, g) = it[DOMAIN g]
<1> DEFINE E(it) == [s \in SUBSET DOMAIN g |->
             IF s = {} THEN 0
             ELSE Production(g[CHOOSE x \in s : TRUE]) + it[s \ {CHOOSE x \in s : TRUE}]]
           iter == CHOOSE it : it = E(it)
<1>1. \A it : IsSum(it, DOMAIN g, v) <=> it = E(it)
  <2>1. \A s \in SUBSET DOMAIN g : s # {} => v[First(s)] = Production(g[First(s)])
    BY FirstRest
  <2> QED
    BY <2>1 DEF IsSum, First, Rest
<1>2. Total(Production, g) = iter[DOMAIN g]
  BY DEF Total, MapThenSumSet, MapThenFoldSet
<1> HIDE DEF E
<1>3. \E it : it = E(it)
  BY <1>1, SumExists DEF Sums
<1>4. iter = E(iter)
  BY <1>3
<1> HIDE DEF iter
<1>5. PICK it : Sums(it, DOMAIN g, v)
  BY SumExists
<1>6. \A s \in SUBSET DOMAIN g : iter[s] = it[s]
  BY <1>1, <1>4, <1>5, SumsAgree DEF Sums
<1> QED
  BY <1>2, <1>5, <1>6

(* The same for consumption.                                               *)
LEMMA Consumptions ==
  ASSUME NEW g, IsFiniteSet(DOMAIN g), NEW v, \A n \in DOMAIN g : v[n] = Consumption(g[n]) /\ v[n] \in Int
  PROVE  \E it : Sums(it, DOMAIN g, v) /\ Total(Consumption, g) = it[DOMAIN g]
<1> DEFINE E(it) == [s \in SUBSET DOMAIN g |->
             IF s = {} THEN 0
             ELSE Consumption(g[CHOOSE x \in s : TRUE]) + it[s \ {CHOOSE x \in s : TRUE}]]
           iter == CHOOSE it : it = E(it)
<1>1. \A it : IsSum(it, DOMAIN g, v) <=> it = E(it)
  <2>1. \A s \in SUBSET DOMAIN g : s # {} => v[First(s)] = Consumption(g[First(s)])
    BY FirstRest
  <2> QED
    BY <2>1 DEF IsSum, First, Rest
<1>2. Total(Consumption, g) = iter[DOMAIN g]
  BY DEF Total, MapThenSumSet, MapThenFoldSet
<1> HIDE DEF E
<1>3. \E it : it = E(it)
  BY <1>1, SumExists DEF Sums
<1>4. iter = E(iter)
  BY <1>3
<1> HIDE DEF iter
<1>5. PICK it : Sums(it, DOMAIN g, v)
  BY SumExists
<1>6. \A s \in SUBSET DOMAIN g : iter[s] = it[s]
  BY <1>1, <1>4, <1>5, SumsAgree DEF Sums
<1> QED
  BY <1>2, <1>5, <1>6

(* The same for stored energy.                                             *)
LEMMA StoredTotals ==
  ASSUME NEW g, IsFiniteSet(DOMAIN g), NEW v, \A n \in DOMAIN g : v[n] = Stored(g[n]) /\ v[n] \in Int
  PROVE  \E it : Sums(it, DOMAIN g, v) /\ Total(Stored, g) = it[DOMAIN g]
<1> DEFINE E(it) == [s \in SUBSET DOMAIN g |->
             IF s = {} THEN 0
             ELSE Stored(g[CHOOSE x \in s : TRUE]) + it[s \ {CHOOSE x \in s : TRUE}]]
           iter == CHOOSE it : it = E(it)
<1>1. \A it : IsSum(it, DOMAIN g, v) <=> it = E(it)
  <2>1. \A s \in SUBSET DOMAIN g : s # {} => v[First(s)] = Stored(g[First(s)])
    BY FirstRest
  <2> QED
    BY <2>1 DEF IsSum, First, Rest
<1>2. Total(Stored, g) = iter[DOMAIN g]
  BY DEF Total, MapThenSumSet, MapThenFoldSet
<1> HIDE DEF E
<1>3. \E it : it = E(it)
  BY <1>1, SumExists DEF Sums
<1>4. iter = E(iter)
  BY <1>3
<1> HIDE DEF iter
<1>5. PICK it : Sums(it, DOMAIN g, v)
  BY SumExists
<1>6. \A s \in SUBSET DOMAIN g : iter[s] = it[s]
  BY <1>1, <1>4, <1>5, SumsAgree DEF Sums
<1> QED
  BY <1>2, <1>5, <1>6

(* A sum of natural numbers is one.                                        *)
LEMMA SumNatural ==
  ASSUME NEW S, NEW v, NEW it, Sums(it, S, v), \A x \in S : v[x] >= 0
  PROVE  it[S] \in Nat
<1>1. PICK jt : Sums(jt, {}, v)
  BY FS_EmptySet, SumExists
<1>2. jt[{}] = 0
  BY <1>1, SumUnfolds DEF Sums
<1>3. jt[{}] <= it[S]
  BY <1>1, SumsOrdered
<1>4. it[S] \in Int
  BY DEF Sums
<1> QED
  BY <1>2, <1>3, <1>4

(* A better grid has better totals.                                        *)
LEMMA TotalsOrdered ==
  ASSUME NEW g, IsFiniteSet(DOMAIN g), g \in [DOMAIN g -> NodeRow],
         NEW h, IsFiniteSet(DOMAIN h), h \in [DOMAIN h -> NodeRow],
         Better(g, h), \A n \in DOMAIN h \ DOMAIN g : Stored(h[n]) >= 0
  PROVE  /\ Total(Production, g) \in Nat /\ Total(Production, h) \in Nat
         /\ Total(Consumption, g) \in Nat /\ Total(Consumption, h) \in Nat
         /\ Total(Stored, g) \in Int /\ Total(Stored, h) \in Int
         /\ Total(Production, g) <= Total(Production, h)
         /\ Total(Consumption, h) <= Total(Consumption, g)
         /\ Total(Stored, g) <= Total(Stored, h)
         /\ DOMAIN g = {} => Total(Production, g) = 0 /\ Total(Consumption, g) = 0
                             /\ Total(Stored, g) = 0
<1>1. \A x \in NodeRow : Production(x) \in Nat /\ Consumption(x) \in Nat /\ Stored(x) \in Int
  BY EnergyAssumption DEF EnergyAssumption, NodeRow, Word, Production, Consumption, Stored
<1>2. /\ \A n \in DOMAIN g : /\ Production(g[n]) \in Nat /\ Consumption(g[n]) \in Nat
                             /\ Stored(g[n]) \in Int
      /\ \A n \in DOMAIN h : /\ Production(h[n]) \in Nat /\ Consumption(h[n]) \in Nat
                             /\ Stored(h[n]) \in Int
  BY <1>1
<1>3. DOMAIN g \subseteq DOMAIN h
  BY DEF Better
<1>4. /\ Total(Production, g) \in Nat /\ Total(Production, h) \in Nat
      /\ Total(Production, g) <= Total(Production, h)
      /\ DOMAIN g = {} => Total(Production, g) = 0
  <2> DEFINE v == [n \in DOMAIN g |-> Production(g[n])]
             w == [n \in DOMAIN h |-> Production(h[n])]
  <2>1. /\ \A n \in DOMAIN g : v[n] = Production(g[n]) /\ v[n] \in Int
        /\ \A n \in DOMAIN h : w[n] = Production(h[n]) /\ w[n] \in Int
    BY <1>2
  <2>2. /\ \A n \in DOMAIN g : v[n] <= w[n]
        /\ \A n \in DOMAIN g : v[n] >= 0
        /\ \A n \in DOMAIN h : w[n] >= 0
    BY <1>2, <1>3 DEF Better
  <2> HIDE DEF v, w
  <2>3. PICK it : Sums(it, DOMAIN g, v) /\ Total(Production, g) = it[DOMAIN g]
    BY <2>1, Productions
  <2>4. PICK jt : Sums(jt, DOMAIN h, w) /\ Total(Production, h) = jt[DOMAIN h]
    BY <2>1, Productions
  <2>5. it[DOMAIN g] <= jt[DOMAIN h]
    BY <1>3, <2>2, <2>3, <2>4, SumsOrdered
  <2>6. it[DOMAIN g] \in Nat /\ jt[DOMAIN h] \in Nat
    BY <2>2, <2>3, <2>4, SumNatural
  <2>7. it[{}] = 0
    BY <2>3, SumUnfolds DEF Sums
  <2> QED
    BY <2>3, <2>4, <2>5, <2>6, <2>7
<1>5. /\ Total(Consumption, g) \in Nat /\ Total(Consumption, h) \in Nat
      /\ Total(Consumption, h) <= Total(Consumption, g)
      /\ DOMAIN g = {} => Total(Consumption, g) = 0
  <2> DEFINE v == [n \in DOMAIN g |-> Consumption(g[n])]
             w == [n \in DOMAIN h |-> Consumption(h[n])]
  <2>1. /\ \A n \in DOMAIN g : v[n] = Consumption(g[n]) /\ v[n] \in Int
        /\ \A n \in DOMAIN h : w[n] = Consumption(h[n]) /\ w[n] \in Int
    BY <1>2
  <2>2. /\ \A n \in DOMAIN g : w[n] <= v[n]
        /\ \A n \in DOMAIN h \ DOMAIN g : w[n] <= 0
        /\ \A n \in DOMAIN g : v[n] >= 0
        /\ \A n \in DOMAIN h : w[n] >= 0
    BY <1>2, <1>3 DEF Better
  <2> HIDE DEF v, w
  <2>3. PICK it : Sums(it, DOMAIN g, v) /\ Total(Consumption, g) = it[DOMAIN g]
    BY <2>1, Consumptions
  <2>4. PICK jt : Sums(jt, DOMAIN h, w) /\ Total(Consumption, h) = jt[DOMAIN h]
    BY <2>1, Consumptions
  <2>5. jt[DOMAIN h] <= it[DOMAIN g]
    BY <1>3, <2>2, <2>3, <2>4, SumsOrdered
  <2>6. it[DOMAIN g] \in Nat /\ jt[DOMAIN h] \in Nat
    BY <2>2, <2>3, <2>4, SumNatural
  <2>7. it[{}] = 0
    BY <2>3, SumUnfolds DEF Sums
  <2> QED
    BY <2>3, <2>4, <2>5, <2>6, <2>7
<1>6. /\ Total(Stored, g) \in Int /\ Total(Stored, h) \in Int
      /\ Total(Stored, g) <= Total(Stored, h)
      /\ DOMAIN g = {} => Total(Stored, g) = 0
  <2> DEFINE v == [n \in DOMAIN g |-> Stored(g[n])]
             w == [n \in DOMAIN h |-> Stored(h[n])]
  <2>1. /\ \A n \in DOMAIN g : v[n] = Stored(g[n]) /\ v[n] \in Int
        /\ \A n \in DOMAIN h : w[n] = Stored(h[n]) /\ w[n] \in Int
    BY <1>2
  <2>2. /\ \A n \in DOMAIN g : v[n] <= w[n]
        /\ \A n \in DOMAIN h \ DOMAIN g : w[n] >= 0
    BY <1>2, <1>3 DEF Better
  <2> HIDE DEF v, w
  <2>3. PICK it : Sums(it, DOMAIN g, v) /\ Total(Stored, g) = it[DOMAIN g]
    BY <2>1, StoredTotals
  <2>4. PICK jt : Sums(jt, DOMAIN h, w) /\ Total(Stored, h) = jt[DOMAIN h]
    BY <2>1, StoredTotals
  <2>5. it[DOMAIN g] <= jt[DOMAIN h]
    BY <1>3, <2>2, <2>3, <2>4, SumsOrdered
  <2>6. it[DOMAIN g] \in Int /\ jt[DOMAIN h] \in Int
    BY <2>3, <2>4 DEF Sums
  <2>7. it[{}] = 0
    BY <2>3, SumUnfolds DEF Sums
  <2> QED
    BY <2>3, <2>4, <2>5, <2>6, <2>7
<1> QED
  BY <1>4, <1>5, <1>6

(* So its mode is no worse, as long as the totals fit.                     *)
LEMMA GridOrdered ==
  ASSUME NEW g, IsFiniteSet(DOMAIN g), g \in [DOMAIN g -> NodeRow],
         NEW h, IsFiniteSet(DOMAIN h), h \in [DOMAIN h -> NodeRow],
         Better(g, h), \A n \in DOMAIN h \ DOMAIN g : Stored(h[n]) >= 0,
         InRange(g), InRange(h)
  PROVE  Severity(GridMode(h)) <= Severity(GridMode(g))
<1> DEFINE p == Total(Production, g)
           c == Total(Consumption, g)
           s == Total(Stored, g)
           q == Total(Production, h)
           d == Total(Consumption, h)
           r == Total(Stored, h)
           k == Wrap(Total(Capacity, g))
           l == Wrap(Total(Capacity, h))
<1>1. /\ p \in Nat /\ c \in Nat /\ s \in Int /\ q \in Nat /\ d \in Nat /\ r \in Int
      /\ p <= q /\ d <= c /\ s <= r
      /\ DOMAIN g = {} => p = 0 /\ c = 0 /\ s = 0
  BY TotalsOrdered
<1>2. {p, c, s, q, d, r} \subseteq Word
  BY DEF InRange
<1>3. Wrap(p) = p /\ Wrap(c) = c /\ Wrap(s) = s /\ Wrap(q) = q /\ Wrap(d) = d /\ Wrap(r) = r
  BY <1>2, Wraps
<1>4. /\ GridMode(g) = IF DOMAIN g = {} THEN "Normal" ELSE ModeOf(Wrap(p), Wrap(c), k, Wrap(s))
      /\ GridMode(h) = IF DOMAIN h = {} THEN "Normal" ELSE ModeOf(Wrap(q), Wrap(d), l, Wrap(r))
  BY DEF GridMode, CalculateTick, LatestState
<1> HIDE DEF p, c, s, q, d, r, k, l
<1>5. Severity(ModeOf(q, d, l, r)) <= Severity(ModeOf(p, c, k, s))
  BY <1>1, <1>2, ModesOrdered
<1>6. Severity("Normal") = 0 /\ \A m : Severity(m) \in 0..2
  BY DEF Severity
<1>7. DOMAIN h = {} => DOMAIN g = {}
  BY DEF Better
<1>8. CASE DOMAIN g = {}
  <2>1. ModeOf(p, c, k, s) \in {"Normal", "Surplus"}
    <3>1. c - p = 0 /\ Wrap(c - p) = 0
      BY <1>1, <1>8, Wraps, EnergyAssumption DEF EnergyAssumption, Word
    <3> QED
      BY <3>1 DEF ModeOf
  <2>2. Severity(ModeOf(p, c, k, s)) = 0
    BY <2>1 DEF Severity
  <2> QED
    BY <1>3, <1>4, <1>5, <1>6, <1>8, <2>2
<1>9. CASE DOMAIN g # {}
  BY <1>3, <1>4, <1>5, <1>7, <1>9
<1> QED
  BY <1>8, <1>9

(* What a new row holds is nothing.                                        *)
LEMMA NewRows ==
  ASSUME IInv, [Next]_vars
  PROVE  \A n \in DOMAIN nodes' \ DOMAIN nodes : Stored(nodes'[n]) >= 0
<1>1. CASE UNCHANGED nodes
  BY <1>1
<1>2. ASSUME NEW n \in Nodes, NEW r \in Registrations, Register(n, r)
      PROVE  \A m \in DOMAIN nodes' \ DOMAIN nodes : nodes'[m].stored = 0
  BY <1>2 DEF Register
<1>3. ASSUME NEW t \in Tasks, UpdateNode(t)
      PROVE  DOMAIN nodes' = DOMAIN nodes
  BY <1>3 DEF UpdateNode
<1>4. ASSUME NEW s \in Servers, Tick(s) \/ BreakOff(s) \/ Panic(s)
      PROVE  UNCHANGED nodes
  BY <1>4 DEF Tick, ComputeMode, AppendEvent, Publish, BreakOff, Panic
<1>5. CASE Observe
  BY <1>1, <1>2, <1>3, <1>5 DEF Observe, FindNode, RefuseUpdate, Stored
<1> QED
  BY <1>1, <1>4, <1>5 DEF Next, vars

(* A change for the better never makes the grid look worse, for any number *)
(* of nodes and whatever they report, as long as the totals fit an i64.    *)
THEOREM NeverWorse == Spec => NoRegression
<1>1. ASSUME IInv, IInv', [Next]_vars, Better(nodes, nodes'), InRange(nodes), InRange(nodes')
      PROVE  Severity(GridMode(nodes')) <= Severity(GridMode(nodes))
  <2>1. /\ IsFiniteSet(DOMAIN nodes) /\ nodes \in [DOMAIN nodes -> NodeRow]
        /\ IsFiniteSet(DOMAIN nodes') /\ nodes' \in [DOMAIN nodes' -> NodeRow]
    BY <1>1 DEF IInv, TypeOK, NodeRow, NodeTypes, Word
  <2>2. \A n \in DOMAIN nodes' \ DOMAIN nodes : Stored(nodes'[n]) >= 0
    BY <1>1, NewRows
  <2> QED
    BY <1>1, <2>1, <2>2, GridOrdered
<1>2. IInv /\ IInv' /\ [Next]_vars =>
        [Better(nodes, nodes') /\ InRange(nodes) /\ InRange(nodes') =>
           Severity(GridMode(nodes')) <= Severity(GridMode(nodes))]_vars
  BY <1>1
<1> QED
  BY <1>2, Invariance, PTL DEF Spec, NoRegression

=============================================================================
