------------------------------- MODULE Energy -------------------------------
(***************************************************************************)
(* EnergyService and EnergySimulationService: nodes of the power grid are  *)
(* registered and report observations, and the scheduler of every server   *)
(* computes the mode of the grid and announces one that is not normal.     *)
(* Health and efficiency are 1.0 and a node is enabled from its            *)
(* registration on, since nothing changes them.                            *)
(***************************************************************************)
EXTENDS Integers, FiniteSets, FiniteSetsExt, Functions

CONSTANTS
  Nodes,            \* ids of nodes, generated by the server
  Registrations,    \* the register_energy_node calls that are made
  Observations,     \* the report_energy_observation calls that are made
  Tasks,            \* server tasks that run report_observation
  Servers,          \* the servers; the scheduler of each runs the ticks
  MaxWord,          \* i64::MAX
  MaxObservations,  \* bound: accepted observations
  MaxCrashes        \* bound: ticks that break off or fail

NodeTypes == {"PRODUCER", "CONSUMER", "STORAGE", "HYBRID"}
Word == (-MaxWord - 1)..MaxWord

ASSUME EnergyAssumption ==
  /\ MaxWord \in Nat /\ MaxObservations \in Nat /\ MaxCrashes \in Nat
  /\ Registrations \subseteq [type : NodeTypes, capacity : Word, room : Word]
  /\ Observations \subseteq
       [node : Nodes, production : Word, consumption : Word, stored : Word]

VARIABLES
  nodes,      \* rows of energy_nodes, by id; `room` is max_stored_wh
  accepted,   \* how many observations of each node were answered with Ok
  pc,         \* where each task is
  job,        \* the observation a task reports
  seen,       \* the revision of the node a task has read
  place,      \* where each server's tick is
  mode,       \* the mode a tick has computed
  logged,     \* the modes that EnergyModeChanged rows of domain_events tell
  published,  \* the modes that were handed to the publisher
  crashes     \* ticks that broke off or failed so far

taskVars == <<pc, job, seen>>
tickVars == <<place, mode, logged, published, crashes>>
vars == <<nodes, accepted, taskVars, tickVars>>

Modes == {"Normal", "Surplus", "Deficit", "Critical"}
NoJob == [node |-> 0]

Init ==
  /\ nodes = [n \in {} |-> NoJob]
  /\ accepted = [n \in Nodes |-> 0]
  /\ pc = [t \in Tasks |-> "idle"]
  /\ job = [t \in Tasks |-> NoJob]
  /\ seen = [t \in Tasks |-> 0]
  /\ place = [s \in Servers |-> "idle"]
  /\ mode = [s \in Servers |-> "Normal"]
  /\ logged = {}
  /\ published = {}
  /\ crashes = 0

-----------------------------------------------------------------------------
(* calculate_tick, over the rows g that list_active_nodes returns, in any  *)
(* order.                                                                  *)

Production(x) == IF x.type \in {"PRODUCER", "HYBRID"} THEN x.production ELSE 0
Consumption(x) == IF x.type \in {"CONSUMER", "HYBRID"} THEN x.consumption ELSE 0
Capacity(x) == IF x.type \in {"STORAGE", "HYBRID"} THEN x.room ELSE 0

Stored(x) == IF x.type \in {"STORAGE", "HYBRID"} THEN x.stored ELSE 0

Total(Of(_), g) == MapThenSumSet(LAMBDA n : Of(g[n]), DOMAIN g)

(* The sums are of type i64 and not checked.                               *)
Wrap(x) == ((x + MaxWord + 1) % (2 * (MaxWord + 1))) - MaxWord - 1

(* Mutant: the reserve is compared the wrong way round.                    *)
SwappedModeOf(production, consumption, capacity, stored) ==
  LET shortfall == Wrap(consumption - production) IN
  CASE shortfall > 0 /\ stored < shortfall -> "Deficit"
    [] shortfall > 0 /\ stored >= shortfall -> "Critical"
    [] shortfall <= 0 /\ production > consumption /\ capacity > stored -> "Surplus"
    [] OTHER -> "Normal"

ModeOf(production, consumption, capacity, stored) ==
  LET shortfall == Wrap(consumption - production) IN
  CASE shortfall > 0 /\ stored >= shortfall -> "Deficit"
    [] shortfall > 0 /\ stored < shortfall -> "Critical"
    [] shortfall <= 0 /\ production > consumption /\ capacity > stored -> "Surplus"
    [] OTHER -> "Normal"

CalculateTick(current, g) ==
  IF DOMAIN g = {} THEN current
  ELSE ModeOf(Wrap(Total(Production, g)), Wrap(Total(Consumption, g)),
              Wrap(Total(Capacity, g)), Wrap(Total(Stored, g)))

(* No total leaves the range of an i64.                                    *)
InRange(g) ==
  {Total(Production, g), Total(Consumption, g), Total(Capacity, g), Total(Stored, g)}
    \subseteq Word

(* Some order of the rows has a sum on the way that is out of range.       *)
MayOverflow(g) == \E S \in SUBSET DOMAIN g : ~InRange(Restrict(g, S))

-----------------------------------------------------------------------------
(* register_node: one INSERT, of a new id.  (register_energy_node answers  *)
(* with yet another id, which no row has.)                                 *)
Register(n, r) ==
  /\ n \notin DOMAIN nodes
  /\ r.capacity >= 0                              \* energy_non_negative
  /\ nodes' = [m \in DOMAIN nodes \cup {n} |->
       IF m = n THEN [type |-> r.type, room |-> r.room, production |-> 0,
                      consumption |-> 0, stored |-> 0, revision |-> 0]
       ELSE nodes[m]]
  /\ UNCHANGED <<accepted, taskVars, tickVars>>

(* report_observation: a SELECT, and an UPDATE at the revision it has      *)
(* read.  The revision that the client expects is not looked at.           *)
FindNode(t, o) ==
  /\ pc[t] = "idle"
  /\ o.node \in DOMAIN nodes
  /\ pc' = [pc EXCEPT ![t] = "update"]
  /\ job' = [job EXCEPT ![t] = o]
  /\ seen' = [seen EXCEPT ![t] = nodes[o.node].revision]
  /\ UNCHANGED <<nodes, accepted, tickVars>>

(* Mutants: UPDATE ... WHERE id = $6; no energy_non_negative.              *)
AlwaysCurrent(t) == TRUE
AnyReading(t) == TRUE

UpToDate(t) == nodes[job[t].node].revision = seen[t]
NonNegative(t) == job[t].production >= 0 /\ job[t].consumption >= 0

EndReport(t) ==
  /\ pc[t] = "update"
  /\ pc' = [pc EXCEPT ![t] = "idle"]
  /\ job' = [job EXCEPT ![t] = NoJob]
  /\ seen' = [seen EXCEPT ![t] = 0]
  /\ UNCHANGED tickVars

AllAccepted == MapThenSumSet(LAMBDA n : accepted[n], Nodes)

UpdateNode(t) ==
  LET n == job[t].node IN
  /\ EndReport(t)
  /\ UpToDate(t)
  /\ NonNegative(t)
  /\ AllAccepted < MaxObservations
  /\ nodes' = [nodes EXCEPT
       ![n] = [type |-> @.type, room |-> @.room, production |-> job[t].production,
               consumption |-> job[t].consumption, stored |-> job[t].stored,
               revision |-> seen[t] + 1]]
  /\ accepted' = [accepted EXCEPT ![n] = @ + 1]

(* RevisionConflict, a violated constraint, or a task that is dropped.     *)
RefuseUpdate(t) == EndReport(t) /\ UNCHANGED <<nodes, accepted>>

-----------------------------------------------------------------------------
(* execute_tick.  get_latest_state and save_state do not use the table     *)
(* energy_state: every tick starts from the same state.                    *)
LatestState == "Normal"

Leave(s) ==
  /\ place' = [place EXCEPT ![s] = "idle"]
  /\ mode' = [mode EXCEPT ![s] = "Normal"]

(* Mutant: what domain_events tells already is not announced.              *)
NotLogged(new) == new # LatestState /\ new \notin logged

Changed(new) == new # LatestState

ComputeMode(s) ==
  LET new == CalculateTick(LatestState, nodes) IN
  /\ place[s] = "idle"
  /\ Changed(new)
  /\ place' = [place EXCEPT ![s] = "log"]
  /\ mode' = [mode EXCEPT ![s] = new]
  /\ UNCHANGED <<nodes, accepted, taskVars, logged, published, crashes>>

(* Mutant: an error of the INSERT is logged and passed over.               *)
AppendOrGoOn(s) ==
  /\ place[s] = "log"
  /\ place' = [place EXCEPT ![s] = "publish"]
  /\ logged' \in {logged, logged \cup {mode[s]}}
  /\ UNCHANGED <<nodes, accepted, taskVars, mode, published, crashes>>

AppendEvent(s) ==
  /\ place[s] = "log"
  /\ place' = [place EXCEPT ![s] = "publish"]
  /\ logged' = logged \cup {mode[s]}
  /\ UNCHANGED <<nodes, accepted, taskVars, mode, published, crashes>>

Publish(s) ==
  /\ place[s] = "publish"
  /\ published' = published \cup {mode[s]}
  /\ Leave(s)
  /\ UNCHANGED <<nodes, accepted, taskVars, logged, crashes>>

(* The tick ends with an error of the database or the publisher, or the    *)
(* server restarts.                                                        *)
BreakOff(s) ==
  /\ place[s] # "idle"
  /\ crashes < MaxCrashes
  /\ crashes' = crashes + 1
  /\ Leave(s)
  /\ UNCHANGED <<nodes, accepted, taskVars, logged, published>>

(* A build with overflow checks panics instead of wrapping, and the        *)
(* scheduler's task is gone until the server restarts.                     *)
Panic(s) ==
  /\ place[s] = "idle"
  /\ MayOverflow(nodes)
  /\ place' = [place EXCEPT ![s] = "stopped"]
  /\ UNCHANGED <<nodes, accepted, taskVars, mode, logged, published, crashes>>

Observe ==
  \/ \E n \in Nodes, r \in Registrations : Register(n, r)
  \/ \E t \in Tasks, o \in Observations : FindNode(t, o)
  \/ \E t \in Tasks : UpdateNode(t) \/ RefuseUpdate(t)

Tick(s) == ComputeMode(s) \/ AppendEvent(s) \/ Publish(s)

Next == Observe \/ \E s \in Servers : Tick(s) \/ BreakOff(s) \/ Panic(s)

Spec == Init /\ [][Next]_vars

(* The timer of the scheduler starts a tick again and again.               *)
FairSpec == Spec /\ \A s \in Servers : WF_vars(Tick(s))

-----------------------------------------------------------------------------
(* Properties.                                                             *)

NodeRow ==
  [type : NodeTypes, room : Word, production : 0..MaxWord, consumption : 0..MaxWord,
   stored : Word, revision : Nat]

(* The type of every variable; no node produces or consumes less than 0.   *)
TypeOK ==
  /\ DOMAIN nodes \subseteq Nodes
  /\ IsFiniteSet(DOMAIN nodes)
  /\ nodes \in [DOMAIN nodes -> NodeRow]
  /\ accepted \in [Nodes -> Nat]
  /\ pc \in [Tasks -> {"idle", "update"}]
  /\ job \in [Tasks -> Observations \cup {NoJob}]
  /\ seen \in [Tasks -> Nat]
  /\ place \in [Servers -> {"idle", "log", "publish", "stopped"}]
  /\ mode \in [Servers -> Modes]
  /\ logged \subseteq Modes
  /\ published \subseteq Modes
  /\ crashes \in Nat

(* Every observation that was accepted made a version of its own of the    *)
(* row: none was written over one that its task had not seen               *)
(* (ARCHITECTURE.md, "Optimistic locking (revision)").                     *)
RevisionsCount ==
  \A n \in Nodes :
    accepted[n] = IF n \in DOMAIN nodes THEN nodes[n].revision ELSE 0

(* The queue never tells what the event log does not know, whatever breaks *)
(* off between the two.                                                    *)
LogCoversQueue == published \subseteq logged

Severity(m) == CASE m = "Critical" -> 2 [] m = "Deficit" -> 1 [] OTHER -> 0

(* The grid h has what g has and more: nodes, production, stored energy,   *)
(* and no more consumption.                                                *)
Better(g, h) ==
  /\ DOMAIN g \subseteq DOMAIN h
  /\ \A n \in DOMAIN g :
       /\ Production(h[n]) >= Production(g[n])
       /\ Consumption(h[n]) <= Consumption(g[n])
       /\ Stored(h[n]) >= Stored(g[n])
  /\ \A n \in DOMAIN h \ DOMAIN g : Consumption(h[n]) = 0

(* As long as the totals fit, a change for the better never makes the grid *)
(* look worse: the branches of calculate_tick agree with each other.       *)
GridMode(g) == CalculateTick(LatestState, g)

NoRegression ==
  [][Better(nodes, nodes') /\ InRange(nodes) /\ InRange(nodes') =>
       Severity(GridMode(nodes')) <= Severity(GridMode(nodes))]_vars

(* A critical grid that stays so is announced, although ticks break off,   *)
(* as long as some server's scheduler runs.                                *)
Emergency ==
  /\ GridMode(nodes) = "Critical"
  /\ ~MayOverflow(nodes)
  /\ \E s \in Servers : place[s] # "stopped"

AlarmRaised == <>[]Emergency => <>("Critical" \in published)

(* The inductive invariant: a task that is about to write has read a row   *)
(* that is there, and what is about to be published has been logged.       *)
TaskInv ==
  \A t \in Tasks : pc[t] = "update" =>
    job[t] \in Observations /\ job[t].node \in DOMAIN nodes

LogInv == \A s \in Servers : place[s] = "publish" => mode[s] \in logged

IInv == TypeOK /\ TaskInv /\ LogInv /\ RevisionsCount /\ LogCoversQueue

=============================================================================
