# TLA+ verification of the STG Ashland core backend

TLA+ models of the Rust backend under `src/stg-backend`: modules that TLC
checks on small instances, and proofs that TLAPS checks for all instances.
Paths below are relative to `src/stg-backend` unless they start with `src/`.

## 1. Inventory

Several servers run the same binary over one PostgreSQL database. Each has a
gRPC front (tonic) and one simulation scheduler (`crates/stg-server/src/main.rs`).
No state that matters lives in memory: the components meet in the tables, their
row locks, unique indexes and advisory locks. All code runs at PostgreSQL's
default isolation, READ COMMITTED.

| component | state it keeps | operations | hard because |
|---|---|---|---|
| Money transfers: `EconomyService`, `execute_transfer_atomic` (infrastructure `lib.rs` 451-780) | `wallets`, `economy_transactions` and their entries, `processed_requests`, `domain_events`, `outbox_events` | `transfer_money` | concurrent transfers on the same rows, two row locks, retries under an idempotency key while the first try runs or after its record was cleaned up, overflow of `i64`, a dropped task at any await |
| Resource conversions: `ConversionService`, `PostgresConversionRepository` (899-1465) | `resource_conversion_reservations`, `conversion_rules`, the tables above | prepare, commit, abort | a reservation committed under two keys, abort against commit, expiry, the same wallet in two conversions, the locks of three tables |
| Idempotency log: `ProcessedRequestsCleanupSystem` (2150-2220) | `processed_requests` | delete what is older than 24 h | a retry may come after the deletion |
| Player sessions: `SessionService`, `PostgresSessionRepository` | `sessions`, `player_transitions`, advisory lock per player | create, heartbeat, terminate, reconnect, begin_transition, sweep of stale sessions | revision checks on copies read earlier, `FOR UPDATE` re-evaluation, a unique partial index as the last guard, two clocks of time-out, dropped tasks |
| Outbox: `OutboxWorker` (1762-1953) | `outbox_events` | claim a batch, publish, record | several pollers (`SKIP LOCKED`), publishing outside of any transaction, crash between claim and record, back-off, events that cannot be read |
| Scheduler: `SimulationScheduler`, `PostgresTickRepository` | `simulation_ticks`, advisory lock per tick number | `execute_one_tick` | several servers, the lock of one statement, upsert over another server's record, failing systems, database errors taken for "no row" or "no lock" |
| Player registration: `PlayerService` | `players`, `wallets`, `domain_events` | `register_player`, `get_player_snapshot` | three writes without a transaction, two calls for one player at once, a call that stops between two writes |
| Energy: `EnergyService`, `EnergySimulationService` | `energy_nodes`, events of a changed mode in `domain_events` | register, observe, tick | two reports that read one revision, sums that are not checked, a tick of every server that breaks off between log and publisher |
| Transition tickets: `TransitionService` | events in `domain_events` | begin, claim, commit, abort | nothing: the repository names a column that the schema does not have, so that every call ends in an error |
| gRPC layer (`crates/stg-api`) | none | parse, call one service, format | every error of a transfer becomes `InsufficientFunds` for the client |
| Unit of work (`transaction_manager.rs`, `application/src/transaction.rs`) | an open transaction | commit, roll back | used by sessions; its outbox storage and event collector are used by nobody |
| Server, health, observability, localisation, generated protocol code, front end | none that matters | | |

How they interact. The scheduler of a server calls the session sweep, the
outbox worker and the cleanup among its seven systems. Transfers and
conversions insert outbox rows in their own transaction; the worker of any
server picks them up. The cleanup deletes rows that transfers and conversions
look at. Session operations have no RPC yet: `SessionService` is called by the
scheduler (sweep) and the tests.

What makes each correct:

- transfers: no money made, lost or moved twice; no lost update; a client's "ok"
  is about its own transfer, and a key is refused only where it has moved money;
  nobody waits for ever;
- conversions: a reservation is paid once or never, agrees with its status, and
  the answers to commit and abort can be relied on;
- sessions: one active session per player, no resurrection by a stale writer, no
  expiry of a session that was renewed, no session past its deadline for ever;
- outbox: an event in one worker's hands, delivered at most once, and in the end;
- scheduler: consecutive numbers that do not go back, no number passed over, records
  that tell what ran and failures that do not stop the other systems, progress;
- players: two registrations never leave a player half registered, and he is
  announced once, under the name that is stored;
- energy: no observation overwritten unseen, a mode that follows from the totals,
  an emergency announced, and nothing announced that the log does not have.

The hazards that follow from this, each at its line and with the properties
that would catch it, are in `PROJECT.json`.

## 2. Modules

| module | models | extends |
|---|---|---|
| `EconomyStore` | the tables of the economy and PostgreSQL's locks on them, the cleanup | |
| `Transfers` | `transfer_money` / `execute_transfer_atomic` | `EconomyStore` |
| `Ledger` | what the economy promises: a transfer is one atomic step | |
| `Conversions` | prepare, commit, abort of conversions | `EconomyStore` |
| `Exchange` | what a conversion promises: an offer is paid in one step, once, or closed for ever | |
| `Economy` | transfers and conversions over the same tables: composes `Transfers` and `Conversions` | `EconomyStore` |
| `Players` | registration and snapshot of players; the calls for transition tickets | |
| `Sessions` | the session operations and the sweep | |
| `Outbox` | events, claims, publishing, crashes | |
| `Scheduler` | ticks of several servers | |
| `Energy` | nodes of the grid, their observations, the tick that computes the mode | |
| `MC...` | the small instances that TLC checks | the module of that name |
| `TransfersProofs`, `ConversionsProofs`, `EconomyProofs`, `PlayersProofs`, `SessionsProofs`, `OutboxProofs`, `SchedulerProofs`, `EnergyProofs` | proofs for all instances | the module of that name, `TLAPS` |

Conventions. A *task* is one call running on some server; `pc` says before which
of its statements it is. A step is one statement that others can see or must
wait for; statements that touch only rows the task has locked belong to the step
of the next visible one, which for a database transaction is its COMMIT. A row
lock is a variable (`locks`, `rowLocks`, `advisory`), and the insert of a unique
key that is not committed yet makes a second inserter wait (`keyLocks`).
`Crash(t)` drops a task between any two steps: a cancelled request, a broken
connection or a stopped server; the database rolls back, the client has no
answer. Clients are arbitrary: any call of the configured set at any time,
again and again, so that retries, duplicates, reordering and reuse of keys are
behaviours and not special cases.

State and code:

- **EconomyStore / Transfers.** `wallets[x]` is a row with balance and revision;
  `ledger` the committed transactions in order (an id is a position) with their
  two entries; `processed` the idempotency log. `job` is the request, `seen` the
  rows read under `FOR UPDATE`, `reply` the answer. The actions follow
  `execute_transfer_atomic` from top to bottom: `AnswerProcessed`,
  `RejectWallets`, `LockFirst`, `LockSecond`, `RejectMoney`,
  `RejectDuplicate` / `InsertTransaction` (the INSERT with the unique request
  id), `CommitTransfer`. `Fingerprint` has the fields the hash has, the
  correlation id included.
- **Conversions.** `reservations[i]` is a row; `asked` is the direction the
  client wanted and `direction` the column, which always holds `"UNKNOWN"`.
  `lapsed` says that `expires_at` is past. `paidFor` is a history variable: the
  reservation a ledger row was committed for. The actions of a commit are
  `AnswerProcessed`, `RejectReservation` / `ExpireReservation` /
  `LockReservation`, `LockWallet`, `RejectMoney`, `InsertTransaction`,
  `CommitConversion`, which waits for the foreign key's lock of the system wallet.
  `reply` is what the client sees: of a prepare the row and the change of the
  resource, which only the call that made the row gets; of a commit the
  transaction; of an abort that it was aborted, whatever the status was.
  `AbstractExchange` maps a reservation to an offer with its status, player and
  price, and forgets locks, keys and responses.
- **Economy.** `Movers` run transfers and `Converters` run conversions over the
  one store. `Move` is a step of `Transfers`, `Convert` one of `Conversions`, both
  by INSTANCE with their own `pc`, `job`, `seen` and `reply`. The tables, the keys
  and the locks of `EconomyStore` are shared.
- **Players.** `players`, `purses` and `log` are the rows of three tables, `queue`
  what the publisher has accepted. `SavePlayer`, `SaveWallet`, `AppendEvent` and
  `Publish` are the four awaits of `register_player`; each commits on its own.
  `BreakOff` ends a call after any of them, with an error for the client or
  without an answer, and `broken` (a history variable) keeps whose registration
  that was. `AnswerRegister` is the early return for a player who is there: nothing
  repairs what is missing. `BeginTransition`, `ClaimTransition`, `EndTransition`
  answer with an error (`TicketError`): `PostgresTransitionRepository` names a
  column `event_type` of `domain_events` in every statement, no migration adds it,
  and `find_by_ticket` finds nothing.
- **Sessions.** `sessions` holds the rows in order of `created_at`. `create` and
  `reconnect` are two steps and an insert: `FindForUpdate` takes the snapshot,
  `Settle...` is the transaction once the lock is granted, on the rows that still
  match (`StillOpen`), `Save` is the INSERT outside the transaction. `heartbeat`
  and `terminate` read (`ReadSession`) and write back under the revision check
  (`WriteSession`, `UpToDate`). `LockPlayer`, `TransitionNew`, `TransitionOwned`
  are `begin_transition_atomic`. `UniqueActiveIndex` tells the index of the
  migrations from the one in `POSTGRES_DDL_SCHEMA`, which is not unique.
- **Outbox.** `wait` is what is left until `available_at`. `SelectBatch` and
  `Claim` are the claim transaction; `PublishOk`, `PublishError`, `Record...` the
  loop, in which the UPDATE may fail and is then only logged. `Backoff` keeps the
  wrap-around of `2_u64.pow` in a release build.
- **Scheduler.** `ReadLatest` / `ReadError` choose the number, `Acquire` and
  `Release` are the two ends of the lock's one statement, `RunSystem` one system
  that ends well or not, `SkipRest` the early end at the limit of failures, `Finish`
  the end of the loop, `Save` the upsert of the whole `Record`: its status and the
  outcome of every system that ran. What differs between records of one status
  otherwise (durations, counts, ids) is left out. A server without the lock writes
  a record without outcomes (`Skip`). MAX of an empty table is NULL, which is read as
  an error and so counts as no tick, too.
- **Energy.** `nodes` are the rows; `FindNode` is the SELECT of an observation and
  `UpdateNode` / `RefuseUpdate` its UPDATE at the revision it read (the revision
  the client expects is not looked at). `register_energy_node` answers with a
  fresh id that no row has; `Register` inserts the row, and a client that observes
  it knows the id from elsewhere. `CalculateTick` is `calculate_tick` with health
  and efficiency 1.0, which nothing changes, and `Wrap` the `i64` of a release
  build; `Panic` is the other build. `get_latest_state` always answers the initial
  state and `save_state` does nothing: every tick that finds a mode other than
  `Normal` announces it again (`ComputeMode`, `AppendEvent`, `Publish`), and a
  return to `Normal` is never announced. The event goes to the log and to the
  publisher directly, not by way of the outbox. `BreakOff` ends a tick at an
  error, and restarts a server that has stopped.

A definition introduced by a comment that begins with "Mutant" is a plausible
bug of the definition after it. The specifications do not use it; it takes the
place of that definition in a run that must then fail, which shows that the
property can tell the difference (`mutants` in `PROJECT.json`).

## 3. What is checked

| run | instance | shows |
|---|---|---|
| `transfers` | 2 tasks, 3 wallets, 3 keys, 8 calls: opposite transfers, one that cannot be paid, one that does not fit, reused keys, a retry under another correlation id, refusals | types and ranges, `UniqueRequests`, `StoredResponsesMatch`, `AnswersMatch`, that `Transfers` implements `Ledger`, and that every call ends (`Answered`) |
| `conversions` | 2 tasks, 2 reservations, 2 keys: two keys for one reservation, one key for two, no wallet, nothing to pay, overflow, a conversion of the system wallet's owner | `PaidOnce`, `AnswersHonest`, `DeadlockNeedsSystem`, and that `Conversions` implements `Exchange` |
| `economy` | 2 movers, 1 converter, 2 keys, 1 reservation, 3 wallets: two opposite transfers and one from the system wallet, next to a conversion that may use the key of a transfer | `OneEffectPerKey`, `AnswersHonest` over both kinds of calls, `Reconciled`, `DeadlockNeedsSystem` |
| `players` | 2 tasks, 2 players, three names for one of them, one of those too long for its column; all calls for tickets | `RegistrationTrail`, `AnswersHonest` |
| `sessions` | 2 tasks, 1 player, 2 servers, 2 rows, clock 0..2 | `AtMostOneActive`, `Lifecycle`, `ExpiryJustified`, `DeadlinesAdvance`, `StaleSessionsExpire` |
| `outbox` | 2 workers, 3 events (one unreadable), batches of 2, 1 crash | `ClaimedOnce`, `DeliveredOnce`, `StatusHonest`, `ReadableSettles` |
| `scheduler` | 2 servers, 3 ticks, 2 systems, 1 fault | `NoGaps`, `NoTickSkipped`, `TicksIncrease`, `FailuresIsolated`, `TicksAdvance` |
| `energy` | 2 nodes, 2 tasks, 2 servers, an `i64` of 3 bits, 2 observations, 1 crash; registrations and readings that the table refuses | `RevisionsCount`, `LogCoversQueue`, `NoRegression`, `AlarmRaised` |

Runs that TLC must find violated: the repository says what the code does not do.

| run | said | done |
|---|---|---|
| `conversions_direction` | `crates/stg-infrastructure/src/lib.rs:1294` "CurrencyToResource: we take player money (debit wallet)" | the direction column is always `"UNKNOWN"`, so that the player is paid |
| `sessions_overdue` | `SESSION_ARCHITECTURE.md:153` "Sessions owned by crashed server eventually expire" | the sweep passes over `TRANSITIONING` |
| `outbox_lost` | `ARCHITECTURE.md:134` "Outbox worker resumes from last committed position" | a row left in `PROCESSING` is never selected again |
| `scheduler_twice` | `SIMULATION_ENGINE.md:133` "... guarantee exactly-once execution." | the lock ends with its statement, and the record is an upsert |

Other statements of the documents that the code does not keep have no violated run
of their own, since a passing run already shows what the code does:

| said | done | shown by |
|---|---|---|
| `ARCHITECTURE.md:67-68`, 96, 135: the energy tick runs on one server only, under the advisory lock 42 | no such lock exists; the energy tick is one of the systems that every server runs | `ExactlyOnce` in `scheduler_twice` |
| `SIMULATION_ENGINE.md:101`: `tick_number` is "Monotonically increasing" | a number that cannot be read counts as 1, and a tick whose record is lost is run again under its number | `TicksIncrease`, which holds with these two exceptions and not without either |
| `SIMULATION_ENGINE.md:111`: systems are skipped if `max_failures_per_tick` is "exceeded" | they are skipped when it is reached | `FailuresIsolated`: a FAILED record lists exactly that many failures |
| `SESSION_ARCHITECTURE.md:46`: a heartbeat takes Reconnected back to Active | `heartbeat` leaves the state | `Lifecycle`, which forbids the step |
| `SESSION_ARCHITECTURE.md:48-49`: commit and abort of a transition take Transitioning back to Active | no operation does; `restore_from_transition` has no caller | `Lifecycle`, which forbids the step |

**What the properties of records and refusals say.** `FailuresIsolated` relates the
table to the runs: a row is COMPLETED with every system COMPLETED,
PARTIAL_FAILURE with every system listed and one to `MaxFailures` of them failed, or
FAILED with an early end at exactly `MaxFailures`, and some server has run its
number; or it is the record of a refused server. Since two servers may write one
row, a status and outcomes of two runs mixed would show. `AnswersMatch` says of a
refusal for a key that a transaction with this key moved money; it does not say
that a transfer that was made is never refused to its own client. That happens,
where the retry has another correlation id or comes after the cleanup, and follows
from the fingerprint and the retention of 24 hours.

**Where tasks may wait in a circle.** Transfers lock wallets by increasing id, and
a conversion locks one wallet and then, by the foreign key of its ledger entry,
the system wallet, whose id is the smallest. `Answered` shows that transfers alone
never wait in a circle. `DeadlockNeedsSystem` says of conversions, and of both
together, that every circle has a conversion that waits for the system wallet,
held by a transfer from or to its owner or by a conversion of his. Such circles
can be reached: a transfer holds the system wallet and waits for the player's
while a conversion holds the player's and waits for the system wallet; or two
conversions do, of which one pays the system wallet's owner. PostgreSQL's deadlock
detection then rolls one of them back, which is the `Crash` of the model. The
order by which transfers avoid circles holds for the rest of the economy; the
lock that a foreign key takes is the one place where it is not kept.

**Bounds and why they are enough.** Two tasks contend for every lock and race
every check. A circle of three waiters happens in `economy` only, whose three tasks are of both
kinds; for more tasks, `DeadlockNeedsSystem` is proved.
Two keys or reservations make reuse, one more event than a batch makes queueing.
`MaxNow`, `MaxSessions`, `MaxRevision` bound the session runs; the clock goes past
one deadline and past that of a renewed session. `Timeout` 1 and `TransitionTimeout` 2
in `sessions` (the configuration may make either the longer one; by default both
are 300 s) let a heartbeat shorten the deadline of a session that a transition
created, the one case `DeadlinesAdvance` leaves out. In `Outbox`, `MaxEvents`,
`MaxConversions`, `MaxAttempts`, `MaxCrashes` bound the run, and `MaxBackoff` 1,
`WordSize` 2, `PoisonDelay` 2 make the cap and the wrap of the back-off happen
within them. In `Scheduler`, `MaxTicks` and `MaxFaults` do; a failure limit of 1
with 2 systems makes the early end happen (in the server it is 10 with 7 systems,
and never does). In `Energy`, `MaxWord` 3 lets two readings leave the range of a sum,
`MaxObservations` 2 lets a node be observed twice, or both nodes once, which reaches
every mode, and `MaxCrashes` 1 breaks off a tick at either place or restarts a
server. Deadlock checking is off in `Outbox.cfg` and `Scheduler.cfg`:
their bounds stop the system, as when every event is settled. Symmetry of tasks
is used in `conversions` and `economy`, which check no liveness (the abstract
specification in `conversions` states none, and treats all tasks alike).

**Fairness.** Transfers: strong fairness of the lock-taking steps, since PostgreSQL
queues waiters of a row and of a unique key in the order of arrival, weak fairness
of the rest of a call. Sessions: weak fairness of the sweep, which the scheduler
runs in every tick. Outbox: weak fairness of polling, of a worker's loop and of
time. Scheduler: weak fairness of each server's step, driven by its timer; faults
and restarts are never fair, and bounded. Energy: weak fairness of each server's
tick, which the scheduler's timer starts again and again. No client, failure or crash is assumed
to happen.

**An assumption on data.** Prices of conversion rules are natural numbers
(`ConversionsAssumption`): the column `unit_price_minor` has no CHECK, and no code
of the repository writes rules. The third value of `ConversionDirection`,
`Unspecified`, is a call of the `conversions` run: no rule is found for it.

## 4. What is proved

For all values of the constants under the named assumptions (`...Assumption` in
each module; TLC evaluates them for its instances). Every module has an inductive
invariant `IInv`; `Invariance` is Init => IInv, IInv /\ [Next]_vars => IInv', and
the other theorems follow from it.

- **TransfersProofs**: `TypeCorrect`, `AtMostOnce`, `HonestResponses`,
  `AnswersHonest`, `NoLostUpdate`, and `Refinement`: `Spec => ImplementsLedger`.
  The properties alone are not inductive; `IInv` adds what a task knows at each
  place: `RowInv` (it holds the lock of the first row from `lock_second` on, of
  both from `insert` on), `FreshReads` (what it read is current while it holds
  the lock), `CommitInv` (at `commit` it holds its key, nobody has committed
  it, and the balances it read suffice) and `LogInv` (every row of the log, of
  either kind, has a transaction under its key). So the COMMIT is a `Post` of the ledger,
  and every other step leaves wallets and ledger alone.
- **ConversionsProofs**: `TypeCorrect`, `OnePayment` (`PaidOnce`), `HonestAnswers`
  (`AnswersHonest`), `CirclesThroughSystem` (`DeadlockNeedsSystem`), and
  `Refinement`: `Spec => ImplementsExchange`. `RowInv`,
  `WalletInv` and `KeyInv` say what a committing task holds and knows, place by
  place: the reservation is PREPARED and locked, the wallet locked and as read,
  the key its own. `ResponseInv` ties each stored response to the reservation it
  paid for; `ReplyInv` keeps an aborted reservation from being paid later. So a
  COMMIT is a `Pay` of the exchange, an abort or an expiry a `Close`, the INSERT
  of a reservation an `Offer`, and every other step a stutter.
- **EconomyProofs**: `OneEffect` (`OneEffectPerKey`), `HonestAnswers`
  (`AnswersHonest`), `Reconciliation` (`Reconciled`), `OnePayment` (`PaidOnce` of
  the conversions, next to transfers), `CirclesThroughSystem`
  (`DeadlockNeedsSystem`); see below.
- **PlayersProofs**: `TypeCorrect`, `TrailComplete` (`RegistrationTrail`),
  `HonestAnswers` (`AnswersHonest`). `WorkInv`: a task past the INSERT of the player
  works on him alone, his registration has not broken off, and what is saved of
  it is what the task's place says.
- **SessionsProofs**: `TypeCorrect`, `OneSession` (`AtMostOneActive` where
  `UniqueActiveIndex` holds), `LifecycleHolds`, `ExpiryIsJustified`,
  `DeadlinesOnlyAdvance`. `DraftInv` says what a stale copy means: as long as its
  revision fits the row, it was derived from the row as it is (`DerivedFrom`);
  the action properties follow from that for the writing step and from the row
  locks for the others. Nothing is assumed of which timeout is the longer one.
- **OutboxProofs**: `TypeCorrect`, `NoDoubleClaim`, `AtMostOnceDelivery`,
  `HonestStatus`, `AttemptsCurrent`. `BatchInv` gives the status and the number
  of deliveries of each row a worker holds, by its place in the loop.
- **SchedulerProofs**: `TypeCorrect`, `RecordsComplete`, `NoneSkipped`,
  `NumbersIncrease`, `Isolation`. `NumberInv`: all numbers below that of a server
  in a tick are recorded; `RunInv` and `HistoryInv`: a number is recorded only
  when somebody has it in hand or has run it, and a server's past is recorded;
  `PastInv`: also after faults, every number below one that a server ran is
  recorded; `PipelineInv`: counter and status of a tick in work agree with its
  outcomes, and what a server is about to record is honest.
- **EnergyProofs**: `TypeCorrect` (no node ever has a negative reading of
  production or consumption, and the table is finite), `NoObservationLost`
  (`RevisionsCount`), `LogFirst` (`LogCoversQueue`), `NeverWorse` (`NoRegression`).
  `TaskInv`: the row a task is about to write exists; `LogInv`: what a tick is about
  to publish is in the log.

`FreshReads` of `Transfers` and `FreshAttempts` of `Outbox` are proved and no longer
have a run: they are conjuncts of the invariants that the other theorems rest on.

**The economy from its two halves.** The invariant of `Economy` is that of
`Transfers`, that of `Conversions` and `Reconciled`; neither of the first two is
proved again. `EconomyStore` states `Interference`, what the tasks of one kind can
rely on while those of the other kind take a step: the rows and keys they hold
stay theirs and unchanged, nobody frees them, and a transaction that comes to the
ledger has the type of the other kind and a key that no one of them holds.
`TransfersProofs` and `ConversionsProofs` each show twice what is needed of it:
`InterferenceIInv`, that `IInv` survives such a step, and `StepInterference`, that
their own steps are such steps for everybody else. For the second, `HeldInv` had to
join both invariants: a task holds the locks that its place says and no others, so
that its COMMIT or its crash frees nothing of another task. Since `ResponsesOf`
keeps the stored responses of the two kinds apart by `operation_type`, as the code's
lookup does, the answers of each kind stay true of it.

The proof modules are used by INSTANCE (`TP`, `CP`), with the tasks and the
variables of `Economy` for theirs. Their assumptions on the constants are proved
from `EconomyAssumption` (`Parameters`), and `SameTransfers`, `SameConversions`
that the instances speak of the same actions and invariants as `T` and `C`.

`Reconciled` needs no sum: an account of a wallet is a function that gives its
balance after each transaction, from the first balance to the present one. A
commit extends the account by one entry (`Booked`), any other step leaves it
(`NothingBooked`); what a commit adds is right because the balance was read under
the lock that is still held (`FreshReads`, `WalletInv`).

**The circles.** Take a finite set of tasks each of which waits for one of the set,
and let no conversion among them wait for the system wallet (`CircleHasSystem`).
Whoever holds a key is past all other locks, so nobody of the set waits for a key;
so the wallets that the set holds are the smaller ones of transfers that wait for
their greater one, and there is such a transfer. The one whose smaller wallet is
the greatest of all (`Largest`, from the well-foundedness of strict inclusion on
finite sets) waits for a holder with a greater one, a contradiction. `HeldInv` says
what a holder can be doing (`Holders`). For conversions alone the order reservation,
wallet, key, system wallet suffices, and the set need not be finite.

**The sums of a tick.** `NeverWorse` compares the totals of a grid before and after
a step, for any number of nodes. The totals are folds (`MapThenSumSet`), and the
provers have no induction over a set; what holds of a fold is shown by the smallest
set for which it would not hold (`SmallestSet`, from the same well-foundedness as
`Largest`). That gives the sums over every subset as a function (`SumExists`), that
they do not depend on the order of the rows (`AnyOrder`), and that greater summands
have no smaller sum (`SumsOrdered`). So the totals are ordered like the readings
(`TotalsOrdered`), totals that fit are what the `i64`s hold (`Wraps`), and the branches
of `calculate_tick` are taken in the order of severity (`ModesOrdered`).

Only model-checked: liveness (`Answered`, `StaleSessionsExpire`,
`ReadableSettles`, `TicksAdvance`, `AlarmRaised`), since ENABLED is out of the
prover's reach. Every safety property of a passing run is a theorem.

## 5. Not modelled

- texts, localisation, authentication, metrics, health, configuration, the
  scheduler's dashboard, generated code, the front end: no state of the system;
- several currencies: a module is about the wallets of one;
- `commit_transaction_with_balances`, `restore_from_transition`,
  `PostgresOutboxStorage`, `DomainEventCollector`, `start_loop`, `shutdown`:
  nothing calls them;
- a session `update` at revision 0: every operation raises the revision first;
- `domain_events` of transfers and conversions: written with the outbox row in one
  transaction, read by nobody but the transition tickets;
- `report_node_observation`: nothing calls it; `get_energy_state`, which answers the
  initial state; the rounding of `f64` for totals beyond 2^53;
- `get_world_snapshot`, `get_world_revision`, `get_economy_state`: they read only;
- `update` of a player or a wallet, which nothing calls;
- a life of transition tickets beyond the error every call ends in;
- the stream of the game servers: `connect` answers that it is not implemented.

## 6. Plan

All modules of the plan are written: `EconomyStore`, `Transfers`, `Ledger`,
`Conversions`, `Exchange`, `Economy` for the money, then `Sessions`, `Outbox`,
`Scheduler`, `Energy` and `Players`, with their proofs. What would come next:

1. The commit of a transfer and of a conversion in `Economy` as steps of the two
   abstract specifications over the shared wallets.
2. Transition tickets with a life of their own, once the schema has a table for them.
