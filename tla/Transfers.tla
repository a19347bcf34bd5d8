----------------------------- MODULE Transfers ------------------------------
(***************************************************************************)
(* EconomyService::transfer_money and execute_transfer_atomic: concurrent  *)
(* server tasks, each running one call of a client in one database         *)
(* transaction.  Clients may send any call at any time and again, so that  *)
(* retries, duplicates and calls that reuse a key are all behaviours.      *)
(*                                                                         *)
(* A step is one statement that others can see or must wait for.  The      *)
(* statements between taking the second row lock and the first INSERT, and *)
(* those between the INSERT and the COMMIT, touch only rows the task has   *)
(* locked, and are part of the step that ends with the INSERT or COMMIT.   *)
(***************************************************************************)
EXTENDS EconomyStore

CONSTANTS
  Tasks,   \* server tasks that run transfers
  Calls    \* the calls clients make

ASSUME TransfersAssumption ==
  /\ Tasks \subseteq Owners
  /\ Calls # {}
  /\ Calls \subseteq [key : Keys, from : Int, to : Int, amount : Int, correlation : Nat]

VARIABLES
  pc,      \* where each task is
  job,     \* the call a task runs, or ran last
  seen,    \* the wallet rows a task has read under its locks
  reply    \* what the task's last call was answered

taskVars == <<pc, job, seen, reply>>
vars == <<storeVars, taskVars>>

Errors == {"InvalidAmount", "IdempotencyConflict", "PlayerNotFound", "SameWallet",
           "InsufficientFunds", "ArithmeticOverflow", "DuplicateKey"}

Replies == [result : {"none", "ok"} \cup Errors, tx : Nat]
NoReply == [result |-> "none", tx |-> 0]
Ok(tx) == [result |-> "ok", tx |-> tx]
Error(e) == [result |-> e, tx |-> 0]

NothingSeen == [x \in Wallets |-> [balance |-> 0, revision |-> 0]]

(* Mutant: the fingerprint leaves the source account out.                  *)
SourcelessFingerprint(c) == <<c.to, c.amount, c.correlation>>

(* calculate_fingerprint hashes the whole call, the correlation id of the  *)
(* request included (and the server and currency, the same in all calls).  *)
Fingerprint(c) == <<c.from, c.to, c.amount, c.correlation>>

Source(t) == job[t].from
Dest(t) == job[t].to

(* Mutant: the rows are locked in the order of the call.                   *)
SourceFirst(t) == Source(t)

First(t) == IF Source(t) < Dest(t) THEN Source(t) ELSE Dest(t)
Second(t) == IF First(t) = Source(t) THEN Dest(t) ELSE Source(t)

Init ==
  /\ StoreInit
  /\ pc = [t \in Tasks |-> "idle"]
  /\ job = [t \in Tasks |-> CHOOSE c \in Calls : TRUE]
  /\ seen = [t \in Tasks |-> NothingSeen]
  /\ reply = [t \in Tasks |-> NoReply]

Goto(t, label) == pc' = [pc EXCEPT ![t] = label]

(* The task returns `r` to its client; what it read is gone.               *)
Finish(t, r) ==
  /\ Goto(t, "idle")
  /\ seen' = [seen EXCEPT ![t] = NothingSeen]
  /\ reply' = [reply EXCEPT ![t] = r]

-----------------------------------------------------------------------------
(* The calls that end before they lock anything: an amount that is not     *)
(* positive, a key that processed_requests holds, a player without wallet. *)

Take(t, c) ==
  /\ pc[t] = "idle"
  /\ job' = [job EXCEPT ![t] = c]

RejectAmount(t, c) ==
  /\ Take(t, c)
  /\ c.amount <= 0
  /\ Finish(t, Error("InvalidAmount"))
  /\ UNCHANGED storeVars

(* A processed request of the same type and fingerprint is answered from   *)
(* its stored response; any other use of its key is refused.               *)
AnswerProcessed(t, c) ==
  /\ Take(t, c)
  /\ c.amount > 0
  /\ \E p \in processed :
       /\ p.request_id = c.key
       /\ Finish(t, IF /\ p.operation_type = "PLAYER_TRANSFER"
                       /\ p.fingerprint = Fingerprint(c)
                    THEN Ok(p.tx)
                    ELSE Error("IdempotencyConflict"))
  /\ UNCHANGED storeVars

NotProcessed(c) == \A p \in processed : p.request_id # c.key

RejectWallets(t, c) ==
  /\ Take(t, c)
  /\ c.amount > 0
  /\ NotProcessed(c)
  /\ \/ /\ ~({c.from, c.to} \subseteq Wallets)
        /\ Finish(t, Error("PlayerNotFound"))
     \/ /\ {c.from, c.to} \subseteq Wallets
        /\ c.from = c.to
        /\ Finish(t, Error("SameWallet"))
  /\ UNCHANGED storeVars

BeginTransfer(t, c) ==
  /\ Take(t, c)
  /\ c.amount > 0
  /\ NotProcessed(c)
  /\ {c.from, c.to} \subseteq Wallets
  /\ c.from # c.to
  /\ Goto(t, "lock_first")
  /\ reply' = [reply EXCEPT ![t] = NoReply]
  /\ UNCHANGED <<storeVars, seen>>

-----------------------------------------------------------------------------
(* SELECT ... FOR UPDATE of the two rows, the smaller wallet id first.     *)

(* Mutant: the SELECT has no FOR UPDATE.                                   *)
ReadRow(t, x) ==
  /\ seen' = [seen EXCEPT ![t][x] = wallets[x]]
  /\ UNCHANGED locks

LockRow(t, x) ==
  /\ locks[x] = NoOwner
  /\ locks' = [locks EXCEPT ![x] = t]
  /\ seen' = [seen EXCEPT ![t][x] = wallets[x]]

LockFirst(t) ==
  /\ pc[t] = "lock_first"
  /\ LockRow(t, First(t))
  /\ Goto(t, "lock_second")
  /\ UNCHANGED <<wallets, ledger, processed, keyLocks, job, reply>>

LockSecond(t) ==
  /\ pc[t] = "lock_second"
  /\ LockRow(t, Second(t))
  /\ Goto(t, "insert")
  /\ UNCHANGED <<wallets, ledger, processed, keyLocks, job, reply>>

-----------------------------------------------------------------------------
(* The money calculation on the locked rows, and the INSERT of the         *)
(* transaction, which waits for another task that is inserting the key.    *)

(* Mutants: the balance, or the checked addition, is not checked.          *)
AlwaysAffordable(t) == TRUE
AlwaysFits(t) == TRUE

Affordable(t) == seen[t][Source(t)].balance >= job[t].amount
Fits(t) == seen[t][Dest(t)].balance + job[t].amount <= MaxBalance

Rollback(t, r) ==
  /\ Finish(t, r)
  /\ ReleaseLocks(t)
  /\ UNCHANGED <<wallets, ledger, processed, job>>

RejectMoney(t) ==
  /\ pc[t] = "insert"
  /\ \/ ~Affordable(t) /\ Rollback(t, Error("InsufficientFunds"))
     \/ Affordable(t) /\ ~Fits(t) /\ Rollback(t, Error("ArithmeticOverflow"))

Payable(t) == pc[t] = "insert" /\ Affordable(t) /\ Fits(t)

RejectDuplicate(t) ==
  /\ Payable(t)
  /\ keyLocks[job[t].key] = NoOwner
  /\ KeyTaken(job[t].key)
  /\ Rollback(t, Error("DuplicateKey"))

(* Mutant: the processed request is saved at once, outside the transaction. *)
InsertAndSaveRequest(t) ==
  /\ Payable(t)
  /\ keyLocks[job[t].key] = NoOwner
  /\ ~KeyTaken(job[t].key)
  /\ processed' = processed \cup
       {[request_id |-> job[t].key, operation_type |-> "PLAYER_TRANSFER",
         fingerprint |-> Fingerprint(job[t]), tx |-> Len(ledger) + 1]}
  /\ keyLocks' = [keyLocks EXCEPT ![job[t].key] = t]
  /\ Goto(t, "commit")
  /\ UNCHANGED <<wallets, ledger, locks, job, seen, reply>>

InsertTransaction(t) ==
  /\ Payable(t)
  /\ keyLocks[job[t].key] = NoOwner
  /\ ~KeyTaken(job[t].key)
  /\ keyLocks' = [keyLocks EXCEPT ![job[t].key] = t]
  /\ Goto(t, "commit")
  /\ UNCHANGED <<wallets, ledger, processed, locks, job, seen, reply>>

(* COMMIT: the two wallets, computed from the rows read under lock, the    *)
(* transaction with its entries and the processed request, all at once.    *)
CommitTransfer(t) ==
  LET c == job[t]
      s == Source(t)
      d == Dest(t)
      tx == Len(ledger) + 1
  IN
  /\ pc[t] = "commit"
  /\ wallets' = [wallets EXCEPT
       ![s] = [balance |-> seen[t][s].balance - c.amount, revision |-> seen[t][s].revision + 1],
       ![d] = [balance |-> seen[t][d].balance + c.amount, revision |-> seen[t][d].revision + 1]]
  /\ ledger' = Append(ledger, [request_id |-> c.key, tx_type |-> "PLAYER_TRANSFER",
                               source |-> s, dest |-> d, amount |-> c.amount])
  /\ processed' = processed \cup
       {[request_id |-> c.key, operation_type |-> "PLAYER_TRANSFER",
         fingerprint |-> Fingerprint(c), tx |-> tx]}
  /\ ReleaseLocks(t)
  /\ Finish(t, Ok(tx))
  /\ UNCHANGED job

(* The task is dropped: the client disconnects, the connection fails or    *)
(* the server stops.  The database rolls back; nobody gets an answer.      *)
Crash(t) ==
  /\ pc[t] # "idle"
  /\ Rollback(t, NoReply)

-----------------------------------------------------------------------------
TaskStep(t) ==
  \/ LockFirst(t) \/ LockSecond(t)
  \/ RejectMoney(t) \/ RejectDuplicate(t) \/ InsertTransaction(t) \/ CommitTransfer(t)

Receive(t, c) ==
  \/ RejectAmount(t, c) \/ AnswerProcessed(t, c) \/ RejectWallets(t, c) \/ BeginTransfer(t, c)

Next ==
  \/ \E t \in Tasks, c \in Calls : Receive(t, c)
  \/ \E t \in Tasks : TaskStep(t) \/ Crash(t)
  \/ CleanupProcessed /\ UNCHANGED taskVars

Spec == Init /\ [][Next]_vars

(* PostgreSQL grants a row lock, and lets a waiting inserter go on, in the  *)
(* order of arrival: a task that can take its lock again and again gets it. *)
FairSpec ==
  /\ Spec
  /\ \A t \in Tasks :
       /\ SF_vars(LockFirst(t))
       /\ SF_vars(LockSecond(t))
       /\ SF_vars(InsertTransaction(t))
       /\ SF_vars(RejectDuplicate(t))
       /\ WF_vars(RejectMoney(t))
       /\ WF_vars(CommitTransfer(t))

-----------------------------------------------------------------------------
(* Properties.                                                             *)

StoredRequest ==
  [request_id : Keys, operation_type : {"PLAYER_TRANSFER"},
   fingerprint : {Fingerprint(c) : c \in Calls}, tx : Nat]

(* The type of every variable; balances are never negative and never       *)
(* exceed i64::MAX.                                                        *)
TypeOK ==
  /\ wallets \in [Wallets -> WalletRow]
  /\ ledger \in Seq(LedgerRow)
  /\ ResponsesOf("PLAYER_TRANSFER") \subseteq StoredRequest
  /\ locks \in [Wallets -> Owners \cup {NoOwner}]
  /\ keyLocks \in [Keys -> Owners \cup {NoOwner}]
  /\ pc \in [Tasks -> {"idle", "lock_first", "lock_second", "insert", "commit"}]
  /\ job \in [Tasks -> Calls]
  /\ seen \in [Tasks -> [Wallets -> WalletRow]]
  /\ reply \in [Tasks -> Replies]

(* However many tasks run a call, and however often it is retried, with    *)
(* its processed_requests row still there or already cleaned up, a request *)
(* id moves money at most once (ARCHITECTURE.md, duplicate detection).     *)
UniqueRequests ==
  \A i, j \in DOMAIN ledger : ledger[i].request_id = ledger[j].request_id => i = j

(* A stored response belongs to the committed transaction of its own key   *)
(* and payload: processed_requests never runs ahead of the ledger.         *)
StoredResponsesMatch ==
  \A p \in ResponsesOf("PLAYER_TRANSFER") :
    /\ p.tx \in DOMAIN ledger
    /\ ledger[p.tx].request_id = p.request_id
    /\ ledger[p.tx].tx_type = "PLAYER_TRANSFER"
    /\ p.fingerprint[1] = ledger[p.tx].source
    /\ p.fingerprint[2] = ledger[p.tx].dest
    /\ p.fingerprint[3] = ledger[p.tx].amount

(* A client that is told "ok" is given the one transaction that did what   *)
(* it asked for, be it done for this call or for an earlier try of it; and *)
(* one that is refused for its key is refused because a transaction with   *)
(* that key has moved money: no key is used up without one, though a call  *)
(* breaks off, its log row is cleaned up or another one reuses the key.    *)
OksMatch ==
  \A t \in Tasks : reply[t].result = "ok" =>
    /\ reply[t].tx \in DOMAIN ledger
    /\ LET row == ledger[reply[t].tx]
       IN  /\ row.request_id = job[t].key
           /\ row.tx_type = "PLAYER_TRANSFER"
           /\ row.source = Source(t)
           /\ row.dest = Dest(t)
           /\ row.amount = job[t].amount

Posted(k) == \E i \in DOMAIN ledger : ledger[i].request_id = k

RefusalsMatch ==
  \A t \in Tasks :
    reply[t].result \in {"IdempotencyConflict", "DuplicateKey"} => Posted(job[t].key)

AnswersMatch == OksMatch /\ RefusalsMatch

(* The rows a task computes new balances from are still the current ones   *)
(* when it writes them: nobody changes a row while the task holds it.      *)
FreshReads ==
  \A t \in Tasks, x \in Wallets : locks[x] = t => seen[t][x] = wallets[x]

(* Whom a task waits for.                                                  *)
WaitsFor(t) ==
  CASE pc[t] = "lock_first" -> locks[First(t)]
    [] pc[t] = "lock_second" -> locks[Second(t)]
    [] Payable(t) -> keyLocks[job[t].key]
    [] OTHER -> NoOwner

(* The inductive invariant: what a task that is not idle is about, which   *)
(* rows and keys it holds, no others, what it found before it inserted,    *)
(* and that a logged request, of either kind, has a transaction.           *)
JobInv ==
  \A t \in Tasks : pc[t] # "idle" =>
    /\ Source(t) \in Wallets
    /\ Dest(t) \in Wallets
    /\ Source(t) # Dest(t)
    /\ job[t].amount > 0

RowInv ==
  \A t \in Tasks :
    /\ pc[t] \in {"lock_second", "insert", "commit"} => locks[First(t)] = t
    /\ pc[t] \in {"insert", "commit"} => locks[Second(t)] = t

HeldInv ==
  \A t \in Tasks :
    /\ \A x \in Wallets : locks[x] = t =>
         \/ pc[t] = "lock_second" /\ x = First(t)
         \/ pc[t] \in {"insert", "commit"} /\ x \in {First(t), Second(t)}
    /\ \A k \in Keys : keyLocks[k] = t => pc[t] = "commit" /\ k = job[t].key

CommitInv ==
  \A t \in Tasks : pc[t] = "commit" =>
    /\ keyLocks[job[t].key] = t
    /\ ~KeyTaken(job[t].key)
    /\ Affordable(t)
    /\ Fits(t)

LogInv == \A p \in processed : Posted(p.request_id)

IInv ==
  /\ TypeOK
  /\ JobInv
  /\ RowInv
  /\ HeldInv
  /\ FreshReads
  /\ CommitInv
  /\ UniqueRequests
  /\ StoredResponsesMatch
  /\ LogInv
  /\ AnswersMatch

(* Transfers implements the abstract ledger: each committed transfer is    *)
(* one step of it, taken with the balances of that moment.                 *)
AbstractLedger == INSTANCE Ledger
ImplementsLedger == AbstractLedger!Spec

(* Every call gets an answer or is dropped: nobody waits for ever.         *)
Answered == \A t \in Tasks : pc[t] # "idle" ~> pc[t] = "idle"

=============================================================================
