---------------------------- MODULE EconomyStore ----------------------------
(***************************************************************************)
(* The PostgreSQL tables of the economy, and the locks a transaction takes *)
(* on them, as the repositories of stg-infrastructure use them: wallets,   *)
(* economy_transactions (with their entries), processed_requests, the      *)
(* FOR UPDATE row locks on wallets and the wait of a second inserter on a  *)
(* unique index.  The database runs at READ COMMITTED, PostgreSQL's        *)
(* default, which no code changes: what a transaction has not committed is *)
(* seen by nobody else, and a row read FOR UPDATE is the latest committed  *)
(* one.                                                                    *)
(***************************************************************************)
EXTENDS Integers, Sequences

CONSTANTS
  Owners,          \* the database transactions in progress, one per busy task
  NoOwner,         \* owner of a lock nobody holds
  Keys,            \* idempotency keys (request ids)
  Wallets,         \* wallet ids of one currency; numbers, since UUIDs are ordered
  InitialBalance,  \* balances when the economy starts
  MaxBalance       \* i64::MAX

ASSUME EconomyStoreAssumption ==
  /\ NoOwner \notin Owners
  /\ Wallets \subseteq Int
  /\ MaxBalance \in Nat
  /\ InitialBalance \in [Wallets -> 0..MaxBalance]

VARIABLES
  wallets,     \* committed rows of wallets: balance and revision
  ledger,      \* committed economy_transactions with their two entries; the id is the position
  processed,   \* committed rows of processed_requests
  locks,       \* who holds the FOR UPDATE lock of a wallet row
  keyLocks     \* who has inserted a request id that is not committed yet

storeVars == <<wallets, ledger, processed, locks, keyLocks>>

WalletRow == [balance : 0..MaxBalance, revision : Nat]

(* A transaction takes `amount` from `source` and gives it to `dest`: its  *)
(* entries are -amount and +amount (create_and_validate sums them to 0).   *)
LedgerRow ==
  [request_id : Keys, tx_type : {"PLAYER_TRANSFER", "RESOURCE_CONVERSION"},
   source : Wallets, dest : Wallets, amount : 1..MaxBalance]

StoreInit ==
  /\ wallets = [x \in Wallets |-> [balance |-> InitialBalance[x], revision |-> 0]]
  /\ ledger = <<>>
  /\ processed = {}
  /\ locks = [x \in Wallets |-> NoOwner]
  /\ keyLocks = [k \in Keys |-> NoOwner]

(* Mutant: economy_transactions has no UNIQUE request_id.                  *)
KeyProcessed(k) == \E p \in processed : p.request_id = k

(* request_id is UNIQUE in economy_transactions and the primary key of     *)
(* processed_requests: an insert of a taken key fails.                     *)
KeyTaken(k) ==
  \/ \E i \in DOMAIN ledger : ledger[i].request_id = k
  \/ \E p \in processed : p.request_id = k

(* The responses that operations of one kind have stored.                  *)
ResponsesOf(kind) == {p \in processed : p.operation_type = kind}

(* COMMIT, ROLLBACK, or the rollback of a dropped connection.              *)
ReleaseLocks(o) ==
  /\ locks' = [x \in Wallets |-> IF locks[x] = o THEN NoOwner ELSE locks[x]]
  /\ keyLocks' = [k \in Keys |-> IF keyLocks[k] = o THEN NoOwner ELSE keyLocks[k]]

(* ProcessedRequestsCleanupSystem deletes the rows older than the          *)
(* retention of 24 hours.  Time is abstract: any row may have got old.     *)
CleanupProcessed ==
  \E p \in processed :
    /\ processed' = processed \ {p}
    /\ UNCHANGED <<wallets, ledger, locks, keyLocks>>

-----------------------------------------------------------------------------
(* What the tasks `mine`, whose transactions are of one kind, can rely on  *)
(* while tasks of the other kind take a step: that nobody touches the rows *)
(* and the keys they hold or frees them, that a balance stays in range,    *)
(* and that a transaction that comes to the ledger, and its response, are  *)
(* of the other kind and have a key of their own.                          *)
LocksKept(mine) ==
  /\ locks' \in [Wallets -> Owners \cup {NoOwner}]
  /\ keyLocks' \in [Keys -> Owners \cup {NoOwner}]
  /\ \A t \in mine :
       /\ \A x \in Wallets : locks'[x] = t <=> locks[x] = t
       /\ \A k \in Keys : keyLocks'[k] = t <=> keyLocks[k] = t

ForeignCommit(mine, kind) ==
  \E row \in LedgerRow :
    /\ row.tx_type # kind
    /\ ~KeyTaken(row.request_id)
    /\ keyLocks[row.request_id] \notin mine
    /\ ledger' = Append(ledger, row)
    /\ \A p \in processed' \ processed :
         p.operation_type # kind /\ p.request_id = row.request_id

Interference(mine, kind) ==
  /\ LocksKept(mine)
  /\ wallets' \in [Wallets -> WalletRow]
  /\ \A x \in Wallets : locks[x] \in mine => wallets'[x] = wallets[x]
  /\ \/ ledger' = ledger /\ processed' \subseteq processed
     \/ ForeignCommit(mine, kind)

=============================================================================
