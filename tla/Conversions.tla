---------------------------- MODULE Conversions -----------------------------
(***************************************************************************)
(* ConversionService and PostgresConversionRepository: a player converts a *)
(* resource into currency, or currency into a resource, with a reservation *)
(* that is prepared at a price, and then committed, aborted or expired.    *)
(* Server tasks run the calls concurrently, and clients may send any call  *)
(* at any time and again.  A step is one statement that others can see or  *)
(* must wait for, as in Transfers, with which it shares the tables.        *)
(***************************************************************************)
EXTENDS EconomyStore

CONSTANTS
  Tasks,         \* server tasks that run conversions
  Reservations,  \* reservation ids: the keys of the prepare calls
  Players,       \* the registered players; a player and his wallet have one id
  Rules,         \* the enabled conversion rule of each direction
  SystemWallet,  \* the nil UUID, the other side of every conversion
  Requests       \* the calls that are made, see ConversionCalls

Directions == {"UNSPECIFIED", "RESOURCE_TO_CURRENCY", "CURRENCY_TO_RESOURCE"}

ConversionCalls ==
  [op : {"prepare"}, id : Reservations, wallet : Int, units : Int, direction : Directions]
    \cup [op : {"commit"}, id : Reservations, key : Keys]
    \cup [op : {"abort"}, id : Reservations]

(* No code writes conversion_rules and no CHECK limits its columns: that a *)
(* price is not negative is an assumption about whoever fills the table.   *)
ASSUME ConversionsAssumption ==
  /\ Tasks \subseteq Owners
  /\ Wallets \subseteq Players /\ Players \subseteq Int
  /\ DOMAIN Rules \subseteq Directions
  /\ Rules \in [DOMAIN Rules -> [price : Nat, min : Int, max : Int]]
  /\ SystemWallet \in Int
  /\ Requests \subseteq ConversionCalls

VARIABLES
  reservations,  \* committed rows of resource_conversion_reservations, by id
  rowLocks,      \* who holds the FOR UPDATE lock of a reservation
  paidFor,       \* the reservation each conversion in ledger was committed for
  pc,            \* where each task is
  job,           \* the call a task runs, or ran last
  seen,          \* the wallet row a task has read under its lock
  reply          \* what the task's last call was answered

taskVars == <<pc, job, seen, reply>>
vars == <<storeVars, reservations, rowLocks, paidFor, taskVars>>

Statuses == {"PREPARED", "COMMITTED", "ABORTED", "EXPIRED"}

(* `direction` is the column, `asked` what the client asked for, which the *)
(* table does not keep; `lapsed` says that expires_at has passed.          *)
Reservation ==
  [status : Statuses, wallet : Int, price : Nat,
   direction : {"UNKNOWN"}, asked : Directions, lapsed : BOOLEAN]

NoJob == [op |-> "none"]
NothingSeen == [balance |-> 0, revision |-> 0]

(* The answers of the three calls: a reservation, with what the server of  *)
(* the game shall do to the resource; a transaction; and that the          *)
(* reservation is not going to be paid.  The status is in none of them.    *)
Replies ==
  [result : {"none", "ok", "error"}, tx : Nat, wallet : Int, price : Nat, mutation : Int]
NoReply == [result |-> "none", tx |-> 0, wallet |-> 0, price |-> 0, mutation |-> 0]
Error == [NoReply EXCEPT !.result = "error"]
Quoted(r, mutation) ==
  [result |-> "ok", tx |-> 0, wallet |-> r.wallet, price |-> r.price, mutation |-> mutation]
Paid(tx) == [result |-> "ok", tx |-> tx, wallet |-> 0, price |-> 0, mutation |-> 0]
Aborted == [NoReply EXCEPT !.result = "ok"]

Init ==
  /\ StoreInit
  /\ reservations = [i \in {} |-> NoJob]
  /\ rowLocks = [i \in Reservations |-> NoOwner]
  /\ paidFor = [n \in {} |-> NoJob]
  /\ pc = [t \in Tasks |-> "idle"]
  /\ job = [t \in Tasks |-> NoJob]
  /\ seen = [t \in Tasks |-> NothingSeen]
  /\ reply = [t \in Tasks |-> NoReply]

Known(i) == i \in DOMAIN reservations

Goto(t, label) == pc' = [pc EXCEPT ![t] = label]

Take(t, c) ==
  /\ pc[t] = "idle"
  /\ job' = [job EXCEPT ![t] = c]

Finish(t, r) ==
  /\ Goto(t, "idle")
  /\ seen' = [seen EXCEPT ![t] = NothingSeen]
  /\ reply' = [reply EXCEPT ![t] = r]

Await(t, c, label) ==
  /\ Take(t, c)
  /\ Goto(t, label)
  /\ reply' = [reply EXCEPT ![t] = NoReply]
  /\ UNCHANGED <<storeVars, reservations, rowLocks, paidFor, seen>>

(* Mutant: the reservation stays locked by a transaction nobody ends.      *)
KeepRow(t) == ReleaseLocks(t) /\ UNCHANGED rowLocks

(* The call ends; its database transaction is over and frees its locks.    *)
Release(t) ==
  /\ ReleaseLocks(t)
  /\ rowLocks' = [i \in Reservations |-> IF rowLocks[i] = t THEN NoOwner ELSE rowLocks[i]]

Rollback(t, r) ==
  /\ Finish(t, r)
  /\ Release(t)
  /\ UNCHANGED <<wallets, ledger, processed, reservations, paidFor, job>>

-----------------------------------------------------------------------------
(* prepare_conversion: the checks, a SELECT of the reservation, and an     *)
(* INSERT of its own.                                                      *)

(* The rule of the resource in this direction, if there is an enabled one. *)
HasRule(c) == c.direction \in DOMAIN Rules

Price(c) == c.units * Rules[c.direction].price

Offered(c) ==
  /\ c.units > 0
  /\ c.wallet \in Players
  /\ HasRule(c)
  /\ c.units \in Rules[c.direction].min..Rules[c.direction].max

(* What happens to the player's resource once the reservation is paid.     *)
Mutation(c) ==
  CASE c.direction = "RESOURCE_TO_CURRENCY" -> -c.units
    [] c.direction = "CURRENCY_TO_RESOURCE" -> c.units
    [] OTHER -> 0

NewReservation(c) ==
  [status |-> "PREPARED", wallet |-> c.wallet, price |-> Price(c),
   direction |-> "UNKNOWN", asked |-> c.direction, lapsed |-> FALSE]

(* A reservation that is there is the answer, whatever it is for; the row  *)
(* does not keep the mutation, and the answer has none.                    *)
AnswerPrepare(t, c) ==
  /\ c.op = "prepare"
  /\ Take(t, c)
  /\ \/ ~Offered(c) /\ Finish(t, Error)
     \/ Offered(c) /\ Known(c.id) /\ Finish(t, Quoted(reservations[c.id], 0))
     \/ Offered(c) /\ ~Known(c.id) /\ Price(c) > MaxBalance /\ Finish(t, Error)
  /\ UNCHANGED <<storeVars, reservations, rowLocks, paidFor>>

BeginPrepare(t, c) ==
  /\ c.op = "prepare"
  /\ Offered(c)
  /\ ~Known(c.id)
  /\ Price(c) <= MaxBalance
  /\ Await(t, c, "insert")

(* Mutant: INSERT ... ON CONFLICT DO NOTHING.                              *)
InsertOrIgnore(t) ==
  LET c == job[t] IN
  /\ pc[t] = "insert"
  /\ Finish(t, Quoted(NewReservation(c), Mutation(c)))
  /\ reservations' = [i \in DOMAIN reservations \cup {c.id} |->
       IF Known(i) THEN reservations[i] ELSE NewReservation(c)]
  /\ UNCHANGED <<storeVars, rowLocks, paidFor, job>>

(* The id is the primary key.                                              *)
InsertReservation(t) ==
  LET c == job[t] IN
  /\ pc[t] = "insert"
  /\ IF Known(c.id)
     THEN Finish(t, Error) /\ UNCHANGED reservations
     ELSE /\ Finish(t, Quoted(NewReservation(c), Mutation(c)))
          /\ reservations' = [i \in DOMAIN reservations \cup {c.id} |->
               IF i = c.id THEN NewReservation(c) ELSE reservations[i]]
  /\ UNCHANGED <<storeVars, rowLocks, paidFor, job>>

-----------------------------------------------------------------------------
(* commit_conversion: the idempotency log, then the lock of the            *)
(* reservation, of the player's wallet and, when the ledger entries are    *)
(* inserted, of the system wallet they refer to.                           *)

CommitFingerprint(c) == <<"COMMIT", c.id>>

(* Mutant: the key alone decides.                                          *)
SameKey(p, c) == TRUE

SameCommit(p, c) ==
  p.operation_type = "RESOURCE_CONVERSION" /\ p.fingerprint = CommitFingerprint(c)

AnswerProcessed(t, c) ==
  /\ c.op = "commit"
  /\ Take(t, c)
  /\ \E p \in processed :
       /\ p.request_id = c.key
       /\ Finish(t, IF SameCommit(p, c) THEN Paid(p.tx) ELSE Error)
  /\ UNCHANGED <<storeVars, reservations, rowLocks, paidFor>>

BeginCommit(t, c) ==
  /\ c.op = "commit"
  /\ \A p \in processed : p.request_id # c.key
  /\ Await(t, c, "reserve")

Mine(t) == reservations[job[t].id]
SetStatus(i, status) == reservations' = [reservations EXCEPT ![i].status = status]

(* Mutant: the reservation is read without FOR UPDATE.                     *)
Unlocked(i) == TRUE

RowFree(i) == rowLocks[i] = NoOwner

(* SELECT ... FOR UPDATE of the reservation.  It must be PREPARED and in   *)
(* time; one past its time is marked, and that is committed.               *)
Committable(t) == Mine(t).status = "PREPARED"

RejectReservation(t) ==
  /\ pc[t] = "reserve"
  /\ \/ ~Known(job[t].id)
     \/ Known(job[t].id) /\ RowFree(job[t].id) /\ ~Committable(t)
  /\ Rollback(t, Error)

ExpireReservation(t) ==
  /\ pc[t] = "reserve"
  /\ Known(job[t].id)
  /\ RowFree(job[t].id)
  /\ Committable(t)
  /\ Mine(t).lapsed
  /\ SetStatus(job[t].id, "EXPIRED")
  /\ Finish(t, Error)
  /\ UNCHANGED <<storeVars, rowLocks, paidFor, job>>

LockReservation(t) ==
  /\ pc[t] = "reserve"
  /\ Known(job[t].id)
  /\ RowFree(job[t].id)
  /\ Committable(t)
  /\ ~Mine(t).lapsed
  /\ rowLocks' = [rowLocks EXCEPT ![job[t].id] = t]
  /\ Goto(t, "wallet")
  /\ UNCHANGED <<storeVars, reservations, paidFor, job, seen, reply>>

RejectWallet(t) ==
  /\ pc[t] = "wallet"
  /\ Mine(t).wallet \notin Wallets
  /\ Rollback(t, Error)

WalletFree(x) == locks[x] = NoOwner

LockWallet(t) ==
  LET x == Mine(t).wallet IN
  /\ pc[t] = "wallet"
  /\ x \in Wallets
  /\ WalletFree(x)
  /\ locks' = [locks EXCEPT ![x] = t]
  /\ seen' = [seen EXCEPT ![t] = wallets[x]]
  /\ Goto(t, "pay")
  /\ UNCHANGED <<wallets, ledger, processed, keyLocks, reservations, rowLocks, paidFor, job, reply>>

-----------------------------------------------------------------------------
(* The new balance, and the INSERT of the transaction, which waits for     *)
(* another task that is inserting the key.                                 *)

IsDebit(t) == Mine(t).direction = "CURRENCY_TO_RESOURCE"

NewBalance(t) ==
  IF IsDebit(t) THEN seen[t].balance - Mine(t).price ELSE seen[t].balance + Mine(t).price

(* Mutant: the sum is not checked.                                         *)
AlwaysFits(t) == TRUE

(* The balance covers the price, or checked_add does not overflow.         *)
Fits(t) == NewBalance(t) \in 0..MaxBalance

Payable(t) == pc[t] = "pay" /\ Fits(t)

RejectMoney(t) ==
  /\ pc[t] = "pay"
  /\ ~Fits(t)
  /\ Rollback(t, Error)

RejectDuplicate(t) ==
  /\ Payable(t)
  /\ keyLocks[job[t].key] = NoOwner
  /\ KeyTaken(job[t].key)
  /\ Rollback(t, Error)

InsertTransaction(t) ==
  /\ Payable(t)
  /\ keyLocks[job[t].key] = NoOwner
  /\ ~KeyTaken(job[t].key)
  /\ keyLocks' = [keyLocks EXCEPT ![job[t].key] = t]
  /\ Goto(t, "entries")
  /\ UNCHANGED <<wallets, ledger, processed, locks, reservations, rowLocks, paidFor, job, seen, reply>>

(* An entry of 0 breaks entry_non_zero; an entry of a system wallet that   *)
(* nobody has created breaks the foreign key.                              *)
RejectEntries(t) ==
  /\ pc[t] = "entries"
  /\ Mine(t).price = 0 \/ SystemWallet \notin Wallets
  /\ Rollback(t, Error)

(* The foreign key locks the system wallet's row for the rest of the       *)
(* transaction, which waits for no one after that: the INSERT and the      *)
(* COMMIT are one step.  The system wallet's balance is not updated.       *)
CommitConversion(t) ==
  LET x == Mine(t).wallet
      tx == Len(ledger) + 1
  IN
  /\ pc[t] = "entries"
  /\ Mine(t).price # 0
  /\ SystemWallet \in Wallets
  /\ locks[SystemWallet] \in {NoOwner, t}
  /\ wallets' = [wallets EXCEPT
       ![x] = [balance |-> NewBalance(t), revision |-> seen[t].revision + 1]]
  /\ ledger' = Append(ledger,
       [request_id |-> job[t].key, tx_type |-> "RESOURCE_CONVERSION",
        source |-> IF IsDebit(t) THEN x ELSE SystemWallet,
        dest |-> IF IsDebit(t) THEN SystemWallet ELSE x,
        amount |-> Mine(t).price])
  /\ SetStatus(job[t].id, "COMMITTED")
  /\ paidFor' = [n \in DOMAIN paidFor \cup {tx} |->
       IF n = tx THEN job[t].id ELSE paidFor[n]]
  /\ processed' = processed \cup
       {[request_id |-> job[t].key, operation_type |-> "RESOURCE_CONVERSION",
         fingerprint |-> CommitFingerprint(job[t]), tx |-> tx]}
  /\ Release(t)
  /\ Finish(t, Paid(tx))
  /\ UNCHANGED job

-----------------------------------------------------------------------------
(* abort_conversion: lock the reservation, abort it if it is PREPARED,     *)
(* and COMMIT.  The SELECT after that finds the row, and its status is not *)
(* part of the answer: one that has expired is answered like an abort.     *)

(* Mutant: whatever is not aborted yet can be.                             *)
NotAborted(t) == Mine(t).status # "ABORTED"

Abortable(t) == Mine(t).status = "PREPARED"

BeginAbort(t, c) == c.op = "abort" /\ Await(t, c, "abort")

RejectAbort(t) ==
  /\ pc[t] = "abort"
  /\ \/ ~Known(job[t].id)
     \/ /\ Known(job[t].id)
        /\ RowFree(job[t].id)
        /\ Mine(t).status = "COMMITTED"
  /\ Rollback(t, Error)

AbortReservation(t) ==
  /\ pc[t] = "abort"
  /\ Known(job[t].id)
  /\ RowFree(job[t].id)
  /\ \/ /\ Abortable(t)
        /\ SetStatus(job[t].id, "ABORTED")
     \/ /\ Mine(t).status \in {"ABORTED", "EXPIRED"}
        /\ UNCHANGED reservations
  /\ Finish(t, Aborted)
  /\ UNCHANGED <<storeVars, rowLocks, paidFor, job>>

-----------------------------------------------------------------------------
(* The clock passes a reservation's expires_at; only a PREPARED one is     *)
(* ever asked for it.                                                      *)
Lapse ==
  \E i \in DOMAIN reservations :
    /\ reservations[i].status = "PREPARED"
    /\ ~reservations[i].lapsed
    /\ reservations' = [reservations EXCEPT ![i].lapsed = TRUE]
    /\ UNCHANGED <<storeVars, rowLocks, paidFor, taskVars>>

(* The task is dropped; what it has not committed is rolled back.          *)
Crash(t) ==
  /\ pc[t] # "idle"
  /\ Rollback(t, NoReply)

Receive(t, c) ==
  \/ AnswerPrepare(t, c) \/ BeginPrepare(t, c)
  \/ AnswerProcessed(t, c) \/ BeginCommit(t, c)
  \/ BeginAbort(t, c)

TaskStep(t) ==
  \/ InsertReservation(t)
  \/ RejectReservation(t) \/ ExpireReservation(t) \/ LockReservation(t)
  \/ RejectWallet(t) \/ LockWallet(t)
  \/ RejectMoney(t) \/ RejectDuplicate(t) \/ InsertTransaction(t)
  \/ RejectEntries(t) \/ CommitConversion(t)
  \/ RejectAbort(t) \/ AbortReservation(t)

Next ==
  \/ \E t \in Tasks, c \in Requests : Receive(t, c)
  \/ \E t \in Tasks : TaskStep(t) \/ Crash(t)
  \/ Lapse
  \/ CleanupProcessed /\ UNCHANGED <<reservations, rowLocks, paidFor, taskVars>>

Spec == Init /\ [][Next]_vars

-----------------------------------------------------------------------------
(* Properties.                                                             *)

ConversionFingerprints == {<<"COMMIT", i>> : i \in Reservations}
ConversionRows == {n \in DOMAIN ledger : ledger[n].tx_type = "RESOURCE_CONVERSION"}

(* The type of every variable; balances stay in the range of an i64.       *)
TypeOK ==
  /\ wallets \in [Wallets -> WalletRow]
  /\ ledger \in Seq(LedgerRow)
  /\ ResponsesOf("RESOURCE_CONVERSION") \subseteq
       [request_id : Keys, operation_type : {"RESOURCE_CONVERSION"},
        fingerprint : ConversionFingerprints, tx : Nat]
  /\ locks \in [Wallets -> Owners \cup {NoOwner}]
  /\ keyLocks \in [Keys -> Owners \cup {NoOwner}]
  /\ DOMAIN reservations \subseteq Reservations
  /\ reservations \in [DOMAIN reservations -> Reservation]
  /\ rowLocks \in [Reservations -> Tasks \cup {NoOwner}]
  /\ paidFor \in [ConversionRows -> Reservations]
  /\ pc \in [Tasks -> {"idle", "insert", "reserve", "wallet", "pay", "entries", "abort"}]
  /\ job \in [Tasks -> Requests \cup {NoJob}]
  /\ seen \in [Tasks -> WalletRow]
  /\ reply \in [Tasks -> Replies]

(* A reservation is paid exactly when it is COMMITTED, and once, however   *)
(* many commits race for it, under one key or several.                     *)
PaidOnce ==
  /\ \A m, n \in DOMAIN paidFor : paidFor[m] = paidFor[n] => m = n
  /\ \A n \in DOMAIN paidFor :
       Known(paidFor[n]) /\ reservations[paidFor[n]].status = "COMMITTED"
  /\ \A i \in DOMAIN reservations :
       reservations[i].status = "COMMITTED" => \E n \in DOMAIN paidFor : paidFor[n] = i

(* A commit that is answered names the transaction that paid for its       *)
(* reservation; after an answered abort nobody ever pays for it.           *)
CommitHonest(t) ==
  /\ reply[t].tx \in DOMAIN paidFor
  /\ ledger[reply[t].tx].request_id = job[t].key
  /\ paidFor[reply[t].tx] = job[t].id

AbortHonest(t) == \A n \in DOMAIN paidFor : paidFor[n] # job[t].id

(* An answered prepare tells the price and the player of the row, be it of *)
(* this call or of an earlier one with its key; only an answer to the call *)
(* that made the row tells the game to touch the resource.                 *)
PrepareHonest(t) ==
  /\ Known(job[t].id)
  /\ reply[t].wallet = reservations[job[t].id].wallet
  /\ reply[t].price = reservations[job[t].id].price
  /\ reply[t].mutation # 0 =>
       /\ reply[t].wallet = job[t].wallet
       /\ reply[t].price = Price(job[t])
       /\ \A u \in Tasks \ {t} :
            (reply[u].mutation # 0 /\ job[u].op = "prepare") => job[u].id # job[t].id

(* What a client is told stays true, whatever the others do after it.      *)
AnswersHonest ==
  \A t \in Tasks : reply[t].result = "ok" =>
    /\ job[t].op = "commit" => CommitHonest(t)
    /\ job[t].op = "abort" => AbortHonest(t)
    /\ job[t].op = "prepare" => PrepareHonest(t)

(* The inductive invariant: what a task that is not idle is about, which   *)
(* rows and key it holds, no others, and what it knows of them; and what   *)
(* stands behind the answers that were given and the responses that are    *)
(* stored.                                                                 *)
JobInv ==
  \A t \in Tasks :
    /\ pc[t] # "idle" => job[t] \in Requests
    /\ pc[t] = "insert" =>
         job[t].op = "prepare" /\ Offered(job[t]) /\ Price(job[t]) <= MaxBalance
    /\ pc[t] \in {"reserve", "wallet", "pay", "entries"} => job[t].op = "commit"
    /\ pc[t] = "abort" => job[t].op = "abort"

RowInv ==
  \A t \in Tasks : pc[t] \in {"wallet", "pay", "entries"} =>
    /\ Known(job[t].id)
    /\ rowLocks[job[t].id] = t
    /\ Mine(t).status = "PREPARED"

WalletInv ==
  \A t \in Tasks : pc[t] \in {"pay", "entries"} =>
    /\ Mine(t).wallet \in Wallets
    /\ locks[Mine(t).wallet] = t
    /\ seen[t] = wallets[Mine(t).wallet]

KeyInv ==
  \A t \in Tasks : pc[t] = "entries" =>
    /\ keyLocks[job[t].key] = t
    /\ ~KeyTaken(job[t].key)
    /\ Fits(t)

HeldInv ==
  \A t \in Tasks :
    /\ \A i \in Reservations : rowLocks[i] = t =>
         pc[t] \in {"wallet", "pay", "entries"} /\ i = job[t].id
    /\ \A x \in Wallets : locks[x] = t =>
         pc[t] \in {"pay", "entries"} /\ x = Mine(t).wallet
    /\ \A k \in Keys : keyLocks[k] = t => pc[t] = "entries" /\ k = job[t].key

PriceInv == \A i \in DOMAIN reservations : reservations[i].price <= MaxBalance

ResponseInv ==
  \A p \in ResponsesOf("RESOURCE_CONVERSION") :
    /\ p.tx \in DOMAIN paidFor
    /\ ledger[p.tx].request_id = p.request_id
    /\ p.fingerprint = <<"COMMIT", paidFor[p.tx]>>

ReplyInv ==
  \A t \in Tasks :
    /\ reply[t].mutation # 0 => reply[t].result = "ok" /\ job[t].op = "prepare"
    /\ (reply[t].result = "ok" /\ job[t].op = "abort") =>
         /\ Known(job[t].id)
         /\ Mine(t).status \in {"ABORTED", "EXPIRED"}

IInv ==
  /\ TypeOK
  /\ JobInv
  /\ RowInv
  /\ WalletInv
  /\ KeyInv
  /\ HeldInv
  /\ PriceInv
  /\ ResponseInv
  /\ ReplyInv
  /\ PaidOnce
  /\ AnswersHonest

(* Conversions implements the abstract exchange: a reservation is its      *)
(* offer, and what it is made of beside that no client can tell.  An offer *)
(* that is paid or closed stays so, at its price, and is paid once.        *)
AbstractExchange == INSTANCE Exchange WITH
  Offers <- Reservations,
  offers <- [i \in DOMAIN reservations |->
              [status |-> reservations[i].status, wallet |-> reservations[i].wallet,
               price |-> reservations[i].price]],
  balances <- [x \in Wallets |-> wallets[x].balance]

ImplementsExchange == AbstractExchange!Spec

(* Whom a task waits for; its own locks are no obstacle.                   *)
WaitsFor(t) ==
  CASE pc[t] \in {"reserve", "abort"} -> rowLocks[job[t].id]
    [] pc[t] = "wallet" /\ Mine(t).wallet \in Wallets -> locks[Mine(t).wallet]
    [] Payable(t) -> keyLocks[job[t].key]
    [] pc[t] = "entries" /\ SystemWallet \in Wallets /\ locks[SystemWallet] # t ->
         locks[SystemWallet]
    [] OTHER -> NoOwner

(* Conversions wait for each other in a circle only where one of them pays *)
(* the owner of the system wallet: it holds that wallet and waits for the  *)
(* key that another one has inserted, which waits for the wallet.  And     *)
(* nobody waits for a lock that a call has left behind.                    *)
DeadlockNeedsSystem ==
  /\ \A S \in (SUBSET Tasks) \ {{}} : (\A t \in S : WaitsFor(t) \in S) =>
       \E t, h \in S :
         /\ pc[t] = "entries" /\ pc[h] = "pay"
         /\ Mine(h).wallet = SystemWallet /\ WaitsFor(t) = h
  /\ \A t \in Tasks : WaitsFor(t) \in Tasks => pc[WaitsFor(t)] # "idle"

(* "CurrencyToResource: we take player money (debit wallet)"               *)
(* (commit_conversion_atomic): the money of such a conversion comes from   *)
(* the player.                                                             *)
DirectionRespected ==
  \A n \in DOMAIN paidFor :
    reservations[paidFor[n]].asked = "CURRENCY_TO_RESOURCE" =>
      ledger[n].source = reservations[paidFor[n]].wallet

=============================================================================
