-------------------------- MODULE TransfersProofs ---------------------------
(***************************************************************************)
(* Proofs about Transfers for any number of tasks, wallets, keys and calls *)
(* and any balances.                                                       *)
(***************************************************************************)
EXTENDS Transfers, TLAPS

USE EconomyStoreAssumption, TransfersAssumption

-----------------------------------------------------------------------------
(* Values that are assigned have the types TypeOK gives their variables.   *)
LEMMA ReplyTypes ==
  /\ NothingSeen \in [Wallets -> WalletRow]
  /\ NoReply \in Replies
  /\ \A e \in Errors : Error(e) \in Replies /\ Error(e).result = e /\ e # "ok"
  /\ \A n \in Nat : Ok(n) \in Replies
  BY DEF NothingSeen, WalletRow, NoReply, Replies, Errors, Error, Ok

-----------------------------------------------------------------------------
(* The initial state satisfies the inductive invariant.                    *)
LEMMA InitIInv == Init => IInv
<1> SUFFICES ASSUME Init PROVE IInv
  OBVIOUS
<1> USE DEF Init, StoreInit
<1>1. TypeOK
  BY ReplyTypes DEF TypeOK, ResponsesOf, WalletRow
<1>2. JobInv /\ RowInv /\ HeldInv /\ CommitInv
  BY DEF JobInv, RowInv, HeldInv, CommitInv
<1>3. FreshReads
  BY DEF FreshReads
<1>4. UniqueRequests /\ StoredResponsesMatch /\ LogInv
  BY DEF UniqueRequests, StoredResponsesMatch, ResponsesOf, LogInv
<1>5. AnswersMatch
  BY DEF AnswersMatch, OksMatch, RefusalsMatch, NoReply
<1> QED
  BY <1>1, <1>2, <1>3, <1>4, <1>5 DEF IInv

(* What is Posted stays so while the ledger only grows.                    *)
LEMMA RefusalsKept ==
  ASSUME IInv, UNCHANGED <<job, reply>>, \A k : Posted(k) => Posted(k)'
  PROVE  RefusalsMatch'
  BY DEF IInv, AnswersMatch, RefusalsMatch

-----------------------------------------------------------------------------
(* The balances a task writes at its commit are in range, since it has     *)
(* checked them on rows that nobody has changed since.                     *)
LEMMA CommitInRange ==
  ASSUME TypeOK, JobInv, RowInv, FreshReads, CommitInv, NEW t \in Tasks, pc[t] = "commit"
  PROVE  /\ seen[t][Source(t)] = wallets[Source(t)]
         /\ seen[t][Dest(t)] = wallets[Dest(t)]
         /\ job[t] \in Calls
         /\ job[t].key \in Keys
         /\ job[t].amount \in 1..MaxBalance
         /\ Source(t) \in Wallets
         /\ Dest(t) \in Wallets
         /\ Source(t) # Dest(t)
         /\ wallets[Source(t)].balance - job[t].amount \in 0..MaxBalance
         /\ wallets[Dest(t)].balance + job[t].amount \in 0..MaxBalance
         /\ locks[Source(t)] = t
         /\ locks[Dest(t)] = t
<1>1. job[t] \in Calls /\ job[t].key \in Keys /\ job[t].amount \in Int
  BY DEF TypeOK
<1>2. Source(t) \in Wallets /\ Dest(t) \in Wallets /\ Source(t) # Dest(t) /\ job[t].amount > 0
  BY DEF JobInv
<1>3. locks[Source(t)] = t /\ locks[Dest(t)] = t
  BY DEF RowInv, First, Second
<1>4. seen[t][Source(t)] = wallets[Source(t)] /\ seen[t][Dest(t)] = wallets[Dest(t)]
  BY <1>2, <1>3 DEF FreshReads
<1>5. wallets[Source(t)] \in WalletRow /\ wallets[Dest(t)] \in WalletRow
  BY <1>2 DEF TypeOK
<1>6. wallets[Source(t)].balance >= job[t].amount
      /\ wallets[Dest(t)].balance + job[t].amount <= MaxBalance
  BY <1>4 DEF CommitInv, Affordable, Fits
<1> QED
  BY <1>1, <1>2, <1>3, <1>4, <1>5, <1>6 DEF WalletRow

(* The state a committed transfer leaves, in terms of the state before.    *)
LEMMA CommitEffect ==
  ASSUME IInv, NEW t \in Tasks, CommitTransfer(t)
  PROVE  AbstractLedger!Post(job[t].key, Source(t), Dest(t), job[t].amount)
<1>1. pc[t] = "commit"
  BY DEF CommitTransfer
<1>2. /\ seen[t][Source(t)] = wallets[Source(t)]
      /\ seen[t][Dest(t)] = wallets[Dest(t)]
      /\ Source(t) # Dest(t)
  BY <1>1, CommitInRange DEF IInv
<1>3. AbstractLedger!Unused(job[t].key) /\ Affordable(t) /\ Fits(t)
  BY <1>1 DEF IInv, CommitInv, KeyTaken, AbstractLedger!Unused
<1>4. wallets' = [wallets EXCEPT
        ![Source(t)] = [balance |-> @.balance - job[t].amount, revision |-> @.revision + 1],
        ![Dest(t)] = [balance |-> @.balance + job[t].amount, revision |-> @.revision + 1]]
  BY <1>2 DEF CommitTransfer
<1>5. ledger' = Append(ledger, [request_id |-> job[t].key, tx_type |-> "PLAYER_TRANSFER",
                                source |-> Source(t), dest |-> Dest(t), amount |-> job[t].amount])
  BY DEF CommitTransfer
<1> QED
  BY <1>2, <1>3, <1>4, <1>5 DEF AbstractLedger!Post, Affordable, Fits

-----------------------------------------------------------------------------
(* A call that ends before it locks anything: the task was idle, holds     *)
(* nothing, what it answers as "ok" is a stored response, and a refusal is *)
(* for a key that has a transaction.                                       *)
LEMMA AnswerIInv ==
  ASSUME IInv, NEW t \in Tasks, NEW c \in Calls, NEW r \in Replies,
         Take(t, c), Finish(t, r), UNCHANGED storeVars,
         r.result = "ok" => \E p \in ResponsesOf("PLAYER_TRANSFER") :
                              /\ p.request_id = c.key
                              /\ p.fingerprint = Fingerprint(c)
                              /\ r.tx = p.tx,
         r.result \in {"IdempotencyConflict", "DuplicateKey"} => Posted(c.key)
  PROVE  IInv'
<1> USE DEF Take, Finish, Goto, storeVars
<1>1. TypeOK'
  BY ReplyTypes DEF IInv, TypeOK, ResponsesOf
<1>2. JobInv'
  BY DEF IInv, TypeOK, JobInv, Source, Dest
<1>3. RowInv'
  BY DEF IInv, TypeOK, RowInv, First, Second, Source, Dest
<1>4. HeldInv'
  <2>1. ASSUME NEW u \in Tasks, u # t
        PROVE  First(u)' = First(u) /\ Second(u)' = Second(u) /\ pc'[u] = pc[u] /\ job'[u] = job[u]
    BY <2>1 DEF IInv, TypeOK, First, Second, Source, Dest
  <2>2. (\A x \in Wallets : locks[x] # t) /\ (\A k \in Keys : keyLocks[k] # t)
    BY DEF IInv, HeldInv
  <2> QED
    BY <2>1, <2>2 DEF IInv, HeldInv
<1>5. FreshReads'
  BY DEF IInv, TypeOK, FreshReads, HeldInv
<1>6. CommitInv'
  BY SMTT(30) DEF IInv, TypeOK, CommitInv, KeyTaken, Affordable, Fits, Source, Dest
<1>7. UniqueRequests' /\ StoredResponsesMatch' /\ LogInv'
  BY DEF IInv, UniqueRequests, StoredResponsesMatch, ResponsesOf, LogInv, Posted
<1>8. OksMatch'
  <2> SUFFICES ASSUME NEW u \in Tasks, reply'[u].result = "ok"
               PROVE  /\ reply'[u].tx \in DOMAIN ledger
                      /\ ledger[reply'[u].tx].request_id = job'[u].key
                      /\ ledger[reply'[u].tx].tx_type = "PLAYER_TRANSFER"
                      /\ ledger[reply'[u].tx].source = job'[u].from
                      /\ ledger[reply'[u].tx].dest = job'[u].to
                      /\ ledger[reply'[u].tx].amount = job'[u].amount
    BY DEF OksMatch, Source, Dest
  <2>1. CASE u = t
    <3>1. reply'[u] = r /\ job'[u] = c
      BY <2>1 DEF IInv, TypeOK
    <3>2. PICK p \in ResponsesOf("PLAYER_TRANSFER") : /\ p.request_id = c.key
                                                      /\ p.fingerprint = Fingerprint(c)
                                                      /\ r.tx = p.tx
      BY <3>1
    <3> QED
      BY <3>1, <3>2 DEF IInv, StoredResponsesMatch, Fingerprint
  <2>2. CASE u # t
    BY <2>2 DEF IInv, TypeOK, AnswersMatch, OksMatch, Source, Dest
  <2> QED
    BY <2>1, <2>2
<1>9. RefusalsMatch'
  BY DEF IInv, TypeOK, AnswersMatch, RefusalsMatch, Posted
<1> QED
  BY <1>1, <1>2, <1>3, <1>4, <1>5, <1>6, <1>7, <1>8, <1>9 DEF IInv, AnswersMatch

(* A call that passes the checks holds nothing yet.                        *)
LEMMA BeginIInv ==
  ASSUME IInv, NEW t \in Tasks, NEW c \in Calls, BeginTransfer(t, c)
  PROVE  IInv'
<1> USE DEF BeginTransfer, Take, Goto, storeVars
<1>1. TypeOK'
  BY ReplyTypes DEF IInv, TypeOK, ResponsesOf
<1>2. JobInv'
  BY DEF IInv, TypeOK, JobInv, Source, Dest
<1>3. RowInv'
  BY DEF IInv, TypeOK, RowInv, First, Second, Source, Dest
<1>4. HeldInv'
  <2>1. ASSUME NEW u \in Tasks, u # t
        PROVE  First(u)' = First(u) /\ Second(u)' = Second(u) /\ pc'[u] = pc[u] /\ job'[u] = job[u]
    BY <2>1 DEF IInv, TypeOK, First, Second, Source, Dest
  <2>2. (\A x \in Wallets : locks[x] # t) /\ (\A k \in Keys : keyLocks[k] # t)
    BY DEF IInv, HeldInv
  <2> QED
    BY <2>1, <2>2 DEF IInv, HeldInv
<1>5. FreshReads'
  BY DEF IInv, FreshReads
<1>6. CommitInv'
  BY SMTT(30) DEF IInv, TypeOK, CommitInv, KeyTaken, Affordable, Fits, Source, Dest
<1>7. UniqueRequests' /\ StoredResponsesMatch' /\ LogInv'
  BY DEF IInv, UniqueRequests, StoredResponsesMatch, ResponsesOf, LogInv, Posted
<1>8. AnswersMatch'
  BY DEF IInv, TypeOK, AnswersMatch, OksMatch, RefusalsMatch, Posted, Source, Dest, NoReply
<1> QED
  BY <1>1, <1>2, <1>3, <1>4, <1>5, <1>6, <1>7, <1>8 DEF IInv

(* A call is answered at once or begins.                                   *)
LEMMA ReceiveIInv ==
  ASSUME IInv, NEW t \in Tasks, NEW c \in Calls, Receive(t, c)
  PROVE  IInv'
<1>1. CASE RejectAmount(t, c)
  BY <1>1, AnswerIInv, ReplyTypes DEF RejectAmount, Errors
<1>2. CASE AnswerProcessed(t, c)
  <2>1. PICK p \in processed :
          /\ p.request_id = c.key
          /\ Finish(t, IF /\ p.operation_type = "PLAYER_TRANSFER"
                          /\ p.fingerprint = Fingerprint(c)
                       THEN Ok(p.tx) ELSE Error("IdempotencyConflict"))
    BY <1>2 DEF AnswerProcessed
  <2>3. CASE p.operation_type = "PLAYER_TRANSFER" /\ p.fingerprint = Fingerprint(c)
    <3>1. p \in ResponsesOf("PLAYER_TRANSFER") /\ p.tx \in Nat
      BY <2>3 DEF IInv, TypeOK, StoredRequest, ResponsesOf
    <3>2. Ok(p.tx) \in Replies /\ Ok(p.tx).tx = p.tx
      BY <3>1, ReplyTypes DEF Ok
    <3> QED
      BY <1>2, <2>1, <2>3, <3>1, <3>2, AnswerIInv DEF AnswerProcessed, Ok
  <2>4. CASE ~(p.operation_type = "PLAYER_TRANSFER" /\ p.fingerprint = Fingerprint(c))
    <3>1. Posted(c.key)
      BY <2>1 DEF IInv, LogInv
    <3> QED
      BY <1>2, <2>1, <2>4, <3>1, AnswerIInv, ReplyTypes DEF AnswerProcessed, Errors
  <2> QED
    BY <2>3, <2>4
<1>3. CASE RejectWallets(t, c)
  <2>1. PICK e \in {"PlayerNotFound", "SameWallet"} : Finish(t, Error(e))
    BY <1>3 DEF RejectWallets
  <2> QED
    BY <1>3, <2>1, AnswerIInv, ReplyTypes DEF RejectWallets, Errors
<1>4. CASE BeginTransfer(t, c)
  BY <1>4, BeginIInv
<1> QED
  BY <1>1, <1>2, <1>3, <1>4 DEF Receive

-----------------------------------------------------------------------------
(* Taking a free row lock: the row read is the committed one.              *)
LEMMA LockIInv ==
  ASSUME IInv, NEW t \in Tasks, LockFirst(t) \/ LockSecond(t)
  PROVE  IInv'
<1>1. First(t) \in Wallets /\ Second(t) \in Wallets /\ First(t) # Second(t)
  BY DEF IInv, JobInv, First, Second, Source, Dest, LockFirst, LockSecond
<1>2. PICK x \in Wallets :
        /\ locks[x] = NoOwner
        /\ locks' = [locks EXCEPT ![x] = t]
        /\ seen' = [seen EXCEPT ![t][x] = wallets[x]]
        /\ \/ pc[t] = "lock_first" /\ x = First(t) /\ pc' = [pc EXCEPT ![t] = "lock_second"]
           \/ pc[t] = "lock_second" /\ x = Second(t) /\ pc' = [pc EXCEPT ![t] = "insert"]
        /\ UNCHANGED <<wallets, ledger, processed, keyLocks, job, reply>>
  BY <1>1 DEF LockFirst, LockSecond, LockRow, Goto
<1>3. t \in Owners /\ NoOwner \notin Tasks
  OBVIOUS
<1>4. TypeOK'
  <2>1. locks' \in [Wallets -> Owners \cup {NoOwner}]
    BY <1>2, <1>3 DEF IInv, TypeOK
  <2>2. seen' \in [Tasks -> [Wallets -> WalletRow]]
    BY <1>2 DEF IInv, TypeOK
  <2>3. pc' \in [Tasks -> {"idle", "lock_first", "lock_second", "insert", "commit"}]
    BY <1>2 DEF IInv, TypeOK
  <2> QED
    BY <1>2, <2>1, <2>2, <2>3 DEF IInv, TypeOK, ResponsesOf
<1>5. JobInv'
  BY <1>2 DEF IInv, TypeOK, JobInv, Source, Dest
<1>6. RowInv'
  <2> SUFFICES ASSUME NEW u \in Tasks
               PROVE  /\ pc'[u] \in {"lock_second", "insert", "commit"} => locks'[First(u)] = u
                      /\ pc'[u] \in {"insert", "commit"} => locks'[Second(u)] = u
    BY <1>2 DEF RowInv, First, Second, Source, Dest
  <2>1. CASE u = t
    BY <1>1, <1>2, <2>1 DEF IInv, TypeOK, RowInv
  <2>2. CASE u # t
    <3>1. pc'[u] = pc[u] /\ \A y \in Wallets : locks'[y] = u <=> locks[y] = u
      BY <1>2, <1>3, <2>2 DEF IInv, TypeOK
    <3>2. pc[u] # "idle" => First(u) \in Wallets /\ Second(u) \in Wallets
      BY DEF IInv, JobInv, First, Second
    <3> QED
      BY <3>1, <3>2 DEF IInv, RowInv
  <2> QED
    BY <2>1, <2>2
<1>7. HeldInv'
  <2> SUFFICES ASSUME NEW u \in Tasks
               PROVE  /\ \A y \in Wallets : locks'[y] = u =>
                           \/ pc'[u] = "lock_second" /\ y = First(u)
                           \/ pc'[u] \in {"insert", "commit"} /\ y \in {First(u), Second(u)}
                      /\ \A k \in Keys : keyLocks[k] = u => pc'[u] = "commit" /\ k = job[u].key
    BY <1>2 DEF HeldInv, First, Second, Source, Dest
  <2>1. CASE u = t
    <3>1. \A y \in Wallets : locks'[y] = t => y = x \/ locks[y] = t
      BY <1>2 DEF IInv, TypeOK
    <3> QED
      BY <1>2, <2>1, <3>1 DEF IInv, TypeOK, HeldInv
  <2>2. CASE u # t
    <3>1. pc'[u] = pc[u] /\ \A y \in Wallets : locks'[y] = u <=> locks[y] = u
      BY <1>2, <1>3, <2>2 DEF IInv, TypeOK
    <3> QED
      BY <3>1 DEF IInv, HeldInv
  <2> QED
    BY <2>1, <2>2
<1>8. FreshReads'
  <2> SUFFICES ASSUME NEW u \in Tasks, NEW y \in Wallets, locks'[y] = u
               PROVE  seen'[u][y] = wallets[y]
    BY <1>2 DEF FreshReads
  <2>1. CASE u = t /\ y = x
    BY <1>2, <2>1 DEF IInv, TypeOK
  <2>2. CASE ~(u = t /\ y = x)
    <3>1. locks[y] = u /\ seen'[u][y] = seen[u][y]
      BY <1>2, <2>2 DEF IInv, TypeOK
    <3> QED
      BY <3>1 DEF IInv, FreshReads
  <2> QED
    BY <2>1, <2>2
<1>9. CommitInv'
  <2> SUFFICES ASSUME NEW u \in Tasks, pc'[u] = "commit"
               PROVE  /\ keyLocks[job[u].key] = u
                      /\ ~KeyTaken(job[u].key)
                      /\ seen'[u][Source(u)].balance >= job[u].amount
                      /\ seen'[u][Dest(u)].balance + job[u].amount <= MaxBalance
    BY <1>2 DEF CommitInv, Affordable, Fits, Source, Dest, KeyTaken
  <2>1. u # t /\ pc[u] = "commit" /\ seen'[u] = seen[u]
    BY <1>2 DEF IInv, TypeOK
  <2> QED
    BY <2>1 DEF IInv, CommitInv, Affordable, Fits
<1>10. UniqueRequests' /\ StoredResponsesMatch' /\ LogInv' /\ OksMatch'
  BY <1>2 DEF IInv, UniqueRequests, StoredResponsesMatch, ResponsesOf, LogInv, Posted,
              AnswersMatch, OksMatch, Source, Dest
<1>11. RefusalsMatch'
  BY <1>2, RefusalsKept DEF Posted
<1> QED
  BY <1>4, <1>5, <1>6, <1>7, <1>8, <1>9, <1>10, <1>11 DEF IInv, AnswersMatch

(* What a task may roll back with: no "ok", and a refusal for its key only *)
(* where the key is taken.                                                 *)
Justified(t, r) ==
  /\ r.result \notin {"ok", "IdempotencyConflict"}
  /\ r.result = "DuplicateKey" => KeyTaken(job[t].key)

(* A rollback changes nothing that was committed.                          *)
LEMMA RollbackIInv ==
  ASSUME IInv, NEW t \in Tasks, NEW r \in Replies, Rollback(t, r), Justified(t, r)
  PROVE  IInv'
<1> USE DEF Justified, Rollback, ReleaseLocks, Finish, Goto
<1>1. TypeOK'
  BY ReplyTypes DEF IInv, TypeOK, ResponsesOf
<1>2. JobInv'
  BY DEF IInv, TypeOK, JobInv, Source, Dest
<1>3. RowInv'
  BY DEF IInv, TypeOK, JobInv, RowInv, First, Second, Source, Dest
<1>4. HeldInv'
  BY SMTT(30) DEF IInv, TypeOK, HeldInv, First, Second, Source, Dest
<1>5. FreshReads'
  BY DEF IInv, TypeOK, FreshReads
<1>6. CommitInv'
  BY DEF IInv, TypeOK, CommitInv, KeyTaken, Affordable, Fits, Source, Dest
<1>7. UniqueRequests' /\ StoredResponsesMatch' /\ LogInv'
  BY DEF IInv, UniqueRequests, StoredResponsesMatch, ResponsesOf, LogInv, Posted
<1>8. OksMatch'
  BY DEF IInv, TypeOK, AnswersMatch, OksMatch, Source, Dest
<1>9. RefusalsMatch'
  <2>1. r.result = "DuplicateKey" => Posted(job[t].key)
    BY DEF IInv, LogInv, KeyTaken, Posted
  <2> QED
    BY <2>1 DEF IInv, TypeOK, AnswersMatch, RefusalsMatch, Posted
<1> QED
  BY <1>1, <1>2, <1>3, <1>4, <1>5, <1>6, <1>7, <1>8, <1>9 DEF IInv, AnswersMatch

(* The insert of a free key by a task that has checked the money.          *)
LEMMA InsertIInv ==
  ASSUME IInv, NEW t \in Tasks, InsertTransaction(t)
  PROVE  IInv'
<1> USE DEF InsertTransaction, Payable, Goto
<1>1. TypeOK'
  BY DEF IInv, TypeOK, ResponsesOf
<1>2. JobInv'
  BY DEF IInv, TypeOK, JobInv, Source, Dest
<1>3. RowInv'
  BY DEF IInv, TypeOK, RowInv, First, Second, Source, Dest
<1>4. HeldInv'
  BY SMTT(30) DEF IInv, TypeOK, HeldInv, First, Second, Source, Dest
<1>5. FreshReads'
  BY DEF IInv, FreshReads
<1>6. CommitInv'
  <2>1. job[t].key \in Keys
    BY DEF IInv, TypeOK
  <2> QED
    BY SMTT(30), <2>1 DEF IInv, TypeOK, CommitInv, KeyTaken, Affordable, Fits, Source, Dest
<1>7. UniqueRequests' /\ StoredResponsesMatch' /\ LogInv' /\ OksMatch'
  BY DEF IInv, UniqueRequests, StoredResponsesMatch, ResponsesOf, LogInv, Posted, AnswersMatch,
         OksMatch, Source, Dest
<1>8. RefusalsMatch'
  BY RefusalsKept DEF Posted
<1> QED
  BY <1>1, <1>2, <1>3, <1>4, <1>5, <1>6, <1>7, <1>8 DEF IInv, AnswersMatch

(* The commit: only rows the task holds change, to balances in range, and  *)
(* the new ledger row is the first one with its key.                       *)
LEMMA CommitIInv ==
  ASSUME IInv, NEW t \in Tasks, CommitTransfer(t)
  PROVE  IInv'
<1> DEFINE c == job[t]
           n == Len(ledger) + 1
           row == [request_id |-> c.key, tx_type |-> "PLAYER_TRANSFER",
                   source |-> Source(t), dest |-> Dest(t), amount |-> c.amount]
<1>1. /\ pc[t] = "commit"
      /\ ledger' = Append(ledger, row)
      /\ processed' = processed \cup
           {[request_id |-> c.key, operation_type |-> "PLAYER_TRANSFER",
             fingerprint |-> Fingerprint(c), tx |-> n]}
      /\ locks' = [x \in Wallets |-> IF locks[x] = t THEN NoOwner ELSE locks[x]]
      /\ keyLocks' = [k \in Keys |-> IF keyLocks[k] = t THEN NoOwner ELSE keyLocks[k]]
      /\ pc' = [pc EXCEPT ![t] = "idle"]
      /\ seen' = [seen EXCEPT ![t] = NothingSeen]
      /\ reply' = [reply EXCEPT ![t] = Ok(n)]
      /\ job' = job
  BY DEF CommitTransfer, ReleaseLocks, Finish, Goto
<1>2. /\ c \in Calls
      /\ c.key \in Keys
      /\ c.amount \in 1..MaxBalance
      /\ Source(t) \in Wallets
      /\ Dest(t) \in Wallets
      /\ Source(t) # Dest(t)
      /\ wallets[Source(t)].balance - c.amount \in 0..MaxBalance
      /\ wallets[Dest(t)].balance + c.amount \in 0..MaxBalance
      /\ locks[Source(t)] = t
      /\ locks[Dest(t)] = t
  BY <1>1, CommitInRange DEF IInv
<1>3. /\ n \in Nat
      /\ row \in LedgerRow
      /\ ledger \in Seq(LedgerRow)
  BY <1>2 DEF IInv, TypeOK, LedgerRow
<1>4. /\ DOMAIN ledger' = 1..n
      /\ DOMAIN ledger = 1..(n - 1)
      /\ ledger'[n] = row
      /\ \A i \in DOMAIN ledger : ledger'[i] = ledger[i]
  BY <1>1, <1>3
<1>5. /\ wallets' \in [Wallets -> WalletRow]
      /\ \A x \in Wallets : x # Source(t) /\ x # Dest(t) => wallets'[x] = wallets[x]
  <2>1. wallets' = [wallets EXCEPT
          ![Source(t)] = [balance |-> @.balance - c.amount, revision |-> @.revision + 1],
          ![Dest(t)] = [balance |-> @.balance + c.amount, revision |-> @.revision + 1]]
    BY CommitEffect DEF AbstractLedger!Post
  <2>2. \A x \in Wallets : /\ wallets[x] \in WalletRow
                           /\ wallets[x].revision + 1 \in Nat
    BY SMTT(30) DEF IInv, TypeOK, WalletRow
  <2>3. wallets \in [Wallets -> WalletRow]
    BY DEF IInv, TypeOK
  <2> HIDE DEF c
  <2> QED
    BY <1>2, <2>1, <2>2, <2>3 DEF WalletRow
<1> HIDE DEF c, n, row
<1>6. TypeOK'
  <2>1. ledger' \in Seq(LedgerRow)
    BY <1>1, <1>3
  <2>2. ResponsesOf("PLAYER_TRANSFER")' \subseteq StoredRequest
    BY SMTT(30), <1>1, <1>2, <1>3 DEF IInv, TypeOK, StoredRequest, ResponsesOf
  <2>3. reply' \in [Tasks -> Replies]
    BY <1>1, <1>3, ReplyTypes DEF IInv, TypeOK
  <2> QED
    BY <1>1, <1>5, <2>1, <2>2, <2>3, ReplyTypes DEF IInv, TypeOK
<1>7. JobInv'
  BY <1>1 DEF IInv, TypeOK, JobInv, Source, Dest
<1>8. RowInv'
  BY <1>1 DEF IInv, TypeOK, JobInv, RowInv, First, Second, Source, Dest
<1>9. HeldInv'
  BY SMTT(30), <1>1 DEF IInv, TypeOK, HeldInv, First, Second, Source, Dest
<1>10. FreshReads'
  BY <1>1, <1>2, <1>5 DEF IInv, TypeOK, FreshReads
<1>11. CommitInv'
  <2> SUFFICES ASSUME NEW u \in Tasks, pc'[u] = "commit"
               PROVE  /\ keyLocks'[job'[u].key] = u
                      /\ ~KeyTaken(job[u].key)'
                      /\ Affordable(u)'
                      /\ Fits(u)'
    BY <1>1 DEF CommitInv
  <2>1. u # t /\ pc[u] = "commit"
    BY <1>1 DEF IInv, TypeOK
  <2>2. /\ keyLocks[job[u].key] = u
        /\ job[u].key \in Keys
        /\ ~KeyTaken(job[u].key)
        /\ Affordable(u)
        /\ Fits(u)
    BY <2>1 DEF IInv, TypeOK, CommitInv
  <2>3. job[u].key # c.key
    BY <1>1, <2>1, <2>2 DEF IInv, CommitInv, c
  <2>4. ~KeyTaken(job[u].key)'
    <3>1. \A i \in DOMAIN ledger' : ledger'[i].request_id # job[u].key
      BY <1>3, <1>4, <2>2, <2>3 DEF KeyTaken, row
    <3>2. \A p \in processed' : p.request_id # job[u].key
      BY <1>1, <2>2, <2>3 DEF KeyTaken
    <3> QED
      BY <1>1, <3>1, <3>2 DEF KeyTaken
  <2>5. seen'[u] = seen[u] /\ keyLocks'[job[u].key] = u
    BY <1>1, <2>1, <2>2 DEF IInv, TypeOK
  <2> QED
    BY <1>1, <2>2, <2>4, <2>5 DEF Affordable, Fits, Source, Dest
<1>12. \A i \in DOMAIN ledger : ledger[i].request_id # c.key
  BY <1>1 DEF IInv, CommitInv, KeyTaken, c
<1>13. UniqueRequests'
  BY <1>3, <1>4, <1>12 DEF IInv, UniqueRequests, row
<1>14. StoredResponsesMatch'
  <2> SUFFICES ASSUME NEW p \in processed', p.operation_type = "PLAYER_TRANSFER"
               PROVE  /\ p.tx \in DOMAIN ledger'
                      /\ ledger'[p.tx].request_id = p.request_id
                      /\ ledger'[p.tx].tx_type = "PLAYER_TRANSFER"
                      /\ p.fingerprint[1] = ledger'[p.tx].source
                      /\ p.fingerprint[2] = ledger'[p.tx].dest
                      /\ p.fingerprint[3] = ledger'[p.tx].amount
    BY DEF StoredResponsesMatch, ResponsesOf
  <2>1. CASE p \in processed
    BY <1>3, <1>4, <2>1 DEF IInv, StoredResponsesMatch, ResponsesOf
  <2>2. CASE p \notin processed
    BY <1>1, <1>3, <1>4, <2>2 DEF Fingerprint, row, c, Source, Dest
  <2> QED
    BY <2>1, <2>2
<1>15. LogInv' /\ RefusalsMatch'
  <2>1. n \in DOMAIN ledger' /\ ledger'[n].request_id = c.key
    BY <1>3, <1>4 DEF n, row
  <2>2. ASSUME NEW k, Posted(k) PROVE \E i \in DOMAIN ledger' : ledger'[i].request_id = k
    <3>1. PICK i \in DOMAIN ledger : ledger[i].request_id = k
      BY <2>2 DEF Posted
    <3>2. i \in DOMAIN ledger' /\ ledger'[i].request_id = k
      BY <1>3, <1>4, <3>1
    <3> QED
      BY <3>2
  <2>3. LogInv'
    <3> SUFFICES ASSUME NEW p \in processed'
                 PROVE  \E i \in DOMAIN ledger' : ledger'[i].request_id = p.request_id
      BY Zenon DEF LogInv, Posted
    <3>1. p \in processed \/ p.request_id = c.key
      BY <1>1
    <3> QED
      BY <2>1, <2>2, <3>1 DEF IInv, LogInv
  <2>4. job' = job
    BY <1>1
  <2>5. ASSUME NEW u \in Tasks, reply'[u].result \in {"IdempotencyConflict", "DuplicateKey"}
        PROVE  \E i \in DOMAIN ledger' : ledger'[i].request_id = job[u].key
    <3>1. u # t /\ reply'[u] = reply[u]
      BY <1>1, <2>5 DEF IInv, TypeOK, Ok
    <3> QED
      BY <2>2, <2>5, <3>1 DEF IInv, AnswersMatch, RefusalsMatch
  <2>6. RefusalsMatch'
    BY <2>4, <2>5, Zenon DEF RefusalsMatch, Posted
  <2> QED
    BY <2>3, <2>6
<1>16. OksMatch'
  <2> SUFFICES ASSUME NEW u \in Tasks, reply'[u].result = "ok"
               PROVE  /\ reply'[u].tx \in DOMAIN ledger'
                      /\ ledger'[reply'[u].tx].request_id = job[u].key
                      /\ ledger'[reply'[u].tx].tx_type = "PLAYER_TRANSFER"
                      /\ ledger'[reply'[u].tx].source = job[u].from
                      /\ ledger'[reply'[u].tx].dest = job[u].to
                      /\ ledger'[reply'[u].tx].amount = job[u].amount
    BY <1>1 DEF OksMatch, Source, Dest
  <2>1. CASE u = t
    <3>1. reply'[u] = Ok(n)
      BY <1>1, <2>1 DEF IInv, TypeOK
    <3>2. reply'[u].tx = n
      BY <3>1 DEF Ok
    <3>3. n \in DOMAIN ledger' /\ ledger'[n] = row
      BY <1>3, <1>4 DEF n
    <3> QED
      BY <2>1, <3>2, <3>3 DEF row, c, Source, Dest
  <2>2. CASE u # t
    <3>1. reply'[u] = reply[u]
      BY <1>1, <2>2 DEF IInv, TypeOK
    <3>2. /\ reply[u].tx \in DOMAIN ledger
          /\ ledger[reply[u].tx].request_id = job[u].key
          /\ ledger[reply[u].tx].tx_type = "PLAYER_TRANSFER"
          /\ ledger[reply[u].tx].source = job[u].from
          /\ ledger[reply[u].tx].dest = job[u].to
          /\ ledger[reply[u].tx].amount = job[u].amount
      BY <3>1 DEF IInv, AnswersMatch, OksMatch, Source, Dest
    <3>3. DOMAIN ledger \subseteq DOMAIN ledger'
      BY <1>3, <1>4
    <3> QED
      BY <1>4, <3>1, <3>2, <3>3
  <2> QED
    BY <2>1, <2>2
<1> QED
  BY <1>6, <1>7, <1>8, <1>9, <1>10, <1>11, <1>13, <1>14, <1>15, <1>16
     DEF IInv, AnswersMatch

-----------------------------------------------------------------------------
(* The cleanup only forgets stored responses.                              *)
LEMMA CleanupIInv ==
  ASSUME IInv, CleanupProcessed, UNCHANGED taskVars
  PROVE  IInv'
  BY SMTT(30) DEF IInv, TypeOK, JobInv, RowInv, HeldInv, FreshReads, CommitInv, UniqueRequests,
         AnswersMatch, OksMatch, RefusalsMatch, Posted, LogInv, StoredResponsesMatch, ResponsesOf,
         CleanupProcessed, taskVars, KeyTaken, Affordable, Fits, First, Second, Source, Dest

(* What a step does: it ends a rollback, moves a lock, or commits.         *)
LEMMA TaskStepCases ==
  ASSUME NEW t \in Tasks, TaskStep(t) \/ Crash(t)
  PROVE  \/ LockFirst(t) \/ LockSecond(t) \/ InsertTransaction(t) \/ CommitTransfer(t)
         \/ \E r \in Replies : Justified(t, r) /\ Rollback(t, r)
<1> USE DEF Justified
<1>1. NoReply \in Replies /\ NoReply.result = "none"
  BY ReplyTypes DEF NoReply
<1>2. {"InsufficientFunds", "ArithmeticOverflow", "DuplicateKey"} \subseteq Errors
  BY DEF Errors
<1>3. CASE Crash(t)
  BY <1>1, <1>3 DEF Crash
<1>4. CASE RejectMoney(t)
  BY <1>2, <1>4, ReplyTypes DEF RejectMoney
<1>5. CASE RejectDuplicate(t)
  BY <1>2, <1>5, ReplyTypes DEF RejectDuplicate
<1> QED
  BY <1>3, <1>4, <1>5 DEF TaskStep

(* Every step keeps the invariant.                                         *)
LEMMA NextIInv == IInv /\ [Next]_vars => IInv'
<1> SUFFICES ASSUME IInv, [Next]_vars PROVE IInv'
  OBVIOUS
<1>1. CASE UNCHANGED vars
  BY <1>1 DEF IInv, TypeOK, JobInv, RowInv, HeldInv, FreshReads, CommitInv, UniqueRequests,
              AnswersMatch, OksMatch, RefusalsMatch, Posted, LogInv, StoredResponsesMatch,
              ResponsesOf, vars, storeVars, taskVars, KeyTaken, Affordable, Fits, First, Second,
              Source, Dest
<1>2. CASE \E t \in Tasks, c \in Calls : Receive(t, c)
  BY <1>2, ReceiveIInv
<1>3. ASSUME NEW t \in Tasks, TaskStep(t) \/ Crash(t) PROVE IInv'
  <2>1. CASE LockFirst(t) \/ LockSecond(t) \/ InsertTransaction(t) \/ CommitTransfer(t)
    BY <2>1, LockIInv, InsertIInv, CommitIInv
  <2>2. CASE \E r \in Replies : Justified(t, r) /\ Rollback(t, r)
    BY <2>2, RollbackIInv
  <2> QED
    BY <1>3, <2>1, <2>2, TaskStepCases
<1>4. CASE CleanupProcessed /\ UNCHANGED taskVars
  BY <1>4, CleanupIInv
<1> QED
  BY <1>1, <1>2, <1>3, <1>4 DEF Next

(* The inductive invariant: what each task holds, has read and has         *)
(* checked, next to the properties of ledger and answers that rest on it.  *)
THEOREM Invariance == Spec => []IInv
  BY InitIInv, NextIInv, PTL DEF Spec

(* Of all the steps only a commit touches the wallets and the ledger.      *)
LEMMA OnlyCommitsWrite ==
  ASSUME Next
  PROVE  UNCHANGED <<wallets, ledger>> \/ \E t \in Tasks : CommitTransfer(t)
<1>1. ASSUME NEW t \in Tasks, TaskStep(t) \/ Crash(t)
      PROVE  UNCHANGED <<wallets, ledger>> \/ CommitTransfer(t)
  <2>1. (\E r \in Replies : Rollback(t, r)) => UNCHANGED <<wallets, ledger>>
    BY DEF Rollback
  <2>2. LockFirst(t) \/ LockSecond(t) \/ InsertTransaction(t) => UNCHANGED <<wallets, ledger>>
    BY DEF LockFirst, LockSecond, InsertTransaction
  <2> QED
    BY <1>1, <2>1, <2>2, TaskStepCases
<1>2. ASSUME NEW t \in Tasks, NEW c \in Calls, Receive(t, c)
      PROVE  UNCHANGED <<wallets, ledger>>
  BY <1>2 DEF Receive, RejectAmount, AnswerProcessed, RejectWallets, BeginTransfer, storeVars
<1> QED
  BY <1>1, <1>2 DEF Next, CleanupProcessed

-----------------------------------------------------------------------------
(* Transfers next to other tasks over the same tables: a step of another   *)
(* kind of task keeps the invariant, too, and a step of a transfer is one  *)
(* that the others can put up with.                                        *)
LEMMA InterferenceIInv ==
  ASSUME IInv, Interference(Tasks, "PLAYER_TRANSFER"), UNCHANGED taskVars
  PROVE  IInv'
<1> USE DEF taskVars
<1>1. /\ locks' \in [Wallets -> Owners \cup {NoOwner}]
      /\ keyLocks' \in [Keys -> Owners \cup {NoOwner}]
      /\ wallets' \in [Wallets -> WalletRow]
      /\ \A t \in Tasks, x \in Wallets :
           /\ locks'[x] = t <=> locks[x] = t
           /\ locks[x] = t => wallets'[x] = wallets[x]
      /\ \A t \in Tasks, k \in Keys : keyLocks'[k] = t <=> keyLocks[k] = t
  BY DEF Interference, LocksKept
<1>2. /\ ledger' \in Seq(LedgerRow)
      /\ DOMAIN ledger \subseteq DOMAIN ledger'
      /\ \A n \in DOMAIN ledger : ledger'[n] = ledger[n]
      /\ ResponsesOf("PLAYER_TRANSFER")' \subseteq ResponsesOf("PLAYER_TRANSFER")
      /\ UniqueRequests' /\ LogInv'
      /\ \A t \in Tasks, k \in Keys : keyLocks[k] = t /\ ~KeyTaken(k) => ~KeyTaken(k)'
  <2>1. CASE ledger' = ledger /\ processed' \subseteq processed
    BY <2>1 DEF IInv, TypeOK, UniqueRequests, LogInv, Posted, ResponsesOf, KeyTaken
  <2>2. CASE ForeignCommit(Tasks, "PLAYER_TRANSFER")
    <3>1. PICK row \in LedgerRow :
            /\ ~KeyTaken(row.request_id)
            /\ keyLocks[row.request_id] \notin Tasks
            /\ ledger' = Append(ledger, row)
            /\ \A p \in processed' \ processed :
                 p.operation_type # "PLAYER_TRANSFER" /\ p.request_id = row.request_id
      BY <2>2 DEF ForeignCommit
    <3>2. /\ ledger' \in Seq(LedgerRow)
          /\ DOMAIN ledger' = DOMAIN ledger \cup {Len(ledger) + 1}
          /\ \A n \in DOMAIN ledger : ledger'[n] = ledger[n]
          /\ ledger'[Len(ledger) + 1] = row
      BY <3>1 DEF IInv, TypeOK
    <3>3. UniqueRequests'
      BY <3>1, <3>2 DEF IInv, UniqueRequests, KeyTaken
    <3>4. LogInv'
      BY <3>1, <3>2 DEF IInv, LogInv, Posted
    <3>5. \A k : k # row.request_id /\ ~KeyTaken(k) => ~KeyTaken(k)'
      BY <3>1, <3>2 DEF KeyTaken
    <3> QED
      BY <3>1, <3>2, <3>3, <3>4, <3>5 DEF ResponsesOf
  <2> QED
    BY <2>1, <2>2 DEF Interference
<1>3. TypeOK'
  BY <1>1, <1>2 DEF IInv, TypeOK
<1>4. JobInv'
  BY DEF IInv, JobInv, Source, Dest
<1>5. RowInv'
  <2> SUFFICES ASSUME NEW t \in Tasks
               PROVE  /\ pc[t] \in {"lock_second", "insert", "commit"} => locks'[First(t)] = t
                      /\ pc[t] \in {"insert", "commit"} => locks'[Second(t)] = t
    BY DEF RowInv, First, Second, Source, Dest
  <2>1. pc[t] # "idle" => First(t) \in Wallets /\ Second(t) \in Wallets
    BY DEF IInv, JobInv, First, Second
  <2> QED
    BY <1>1, <2>1 DEF IInv, RowInv
<1>6. HeldInv'
  BY <1>1 DEF IInv, HeldInv, First, Second, Source, Dest
<1>7. FreshReads'
  BY <1>1 DEF IInv, FreshReads
<1>8. CommitInv'
  <2>1. \A t \in Tasks : job[t].key \in Keys
    BY DEF IInv, TypeOK
  <2> QED
    BY <1>1, <1>2, <2>1 DEF IInv, CommitInv, Affordable, Fits, Source, Dest
<1>9. StoredResponsesMatch'
  BY <1>2 DEF IInv, StoredResponsesMatch
<1>10. AnswersMatch'
  <2>1. OksMatch'
    BY <1>2 DEF IInv, AnswersMatch, OksMatch, Source, Dest
  <2>2. RefusalsMatch'
    BY <1>2, RefusalsKept DEF Posted
  <2> QED
    BY <2>1, <2>2 DEF AnswersMatch
<1> QED
  BY <1>2, <1>3, <1>4, <1>5, <1>6, <1>7, <1>8, <1>9, <1>10 DEF IInv

(* Locks are taken when they are free, and given back by their owner.      *)
LEMMA ReleaseKept ==
  ASSUME TypeOK, NEW t \in Tasks, ReleaseLocks(t), NEW others, t \notin others, NoOwner \notin others
  PROVE  LocksKept(others)
  BY DEF TypeOK, ReleaseLocks, LocksKept

(* A transfer's commit is a foreign one to the others, and so on: no step  *)
(* of a transfer takes from another task what that task relies on.         *)
LEMMA StepInterference ==
  ASSUME IInv, Next, NEW others \in SUBSET Owners, others \cap Tasks = {}
  PROVE  Interference(others, "RESOURCE_CONVERSION")
<1>1. wallets \in [Wallets -> WalletRow]
  BY DEF IInv, TypeOK
<1>2. CASE UNCHANGED <<wallets, ledger, locks, keyLocks>> /\ processed' \subseteq processed
  BY <1>1, <1>2 DEF IInv, TypeOK, Interference, LocksKept
<1>3. ASSUME NEW t \in Tasks, LockFirst(t) \/ LockSecond(t) \/ InsertTransaction(t)
      PROVE  Interference(others, "RESOURCE_CONVERSION")
  <2>1. First(t) \in Wallets /\ Second(t) \in Wallets /\ job[t].key \in Keys
    BY <1>3 DEF IInv, TypeOK, JobInv, First, Second, Source, Dest, LockFirst, LockSecond,
                InsertTransaction, Payable
  <2>2. LocksKept(others)
    <3>1. t \in Owners /\ t \notin others /\ NoOwner \notin others
      OBVIOUS
    <3>2. CASE \E x \in Wallets : /\ locks[x] = NoOwner /\ locks' = [locks EXCEPT ![x] = t]
                                  /\ keyLocks' = keyLocks
      BY <3>1, <3>2 DEF IInv, TypeOK, LocksKept
    <3>3. CASE \E k \in Keys : /\ keyLocks[k] = NoOwner /\ keyLocks' = [keyLocks EXCEPT ![k] = t]
                               /\ locks' = locks
      BY <3>1, <3>3 DEF IInv, TypeOK, LocksKept
    <3> QED
      BY <1>3, <2>1, <3>2, <3>3 DEF LockFirst, LockSecond, LockRow, InsertTransaction
  <2> QED
    BY <1>1, <1>3, <2>2 DEF LockFirst, LockSecond, LockRow, InsertTransaction, Interference
<1>4. ASSUME NEW t \in Tasks, NEW r \in Replies, Rollback(t, r)
      PROVE  Interference(others, "RESOURCE_CONVERSION")
  BY <1>1, <1>4, ReleaseKept DEF IInv, Rollback, Interference
<1>5. ASSUME NEW t \in Tasks, CommitTransfer(t)
      PROVE  Interference(others, "RESOURCE_CONVERSION")
  <2> DEFINE row == [request_id |-> job[t].key, tx_type |-> "PLAYER_TRANSFER",
                     source |-> Source(t), dest |-> Dest(t), amount |-> job[t].amount]
             p == [request_id |-> job[t].key, operation_type |-> "PLAYER_TRANSFER",
                   fingerprint |-> Fingerprint(job[t]), tx |-> Len(ledger) + 1]
  <2>1. /\ job[t].key \in Keys /\ job[t].amount \in 1..MaxBalance
        /\ Source(t) \in Wallets /\ Dest(t) \in Wallets
        /\ locks[Source(t)] = t /\ locks[Dest(t)] = t
        /\ keyLocks[job[t].key] = t /\ ~KeyTaken(job[t].key)
    BY <1>5, CommitInRange DEF CommitTransfer, IInv, CommitInv
  <2>2. LocksKept(others)
    BY <1>5, ReleaseKept DEF IInv, CommitTransfer
  <2>3. wallets' \in [Wallets -> WalletRow]
    BY <1>5, CommitIInv DEF IInv, TypeOK
  <2>4. \A x \in Wallets : locks[x] \in others => wallets'[x] = wallets[x]
    BY <1>5, <2>1 DEF IInv, TypeOK, CommitTransfer
  <2>5. row \in LedgerRow /\ row.tx_type # "RESOURCE_CONVERSION" /\ row.request_id = job[t].key
    BY <2>1 DEF LedgerRow
  <2>6. /\ ledger' = Append(ledger, row)
        /\ processed' = processed \cup {p}
        /\ p.operation_type # "RESOURCE_CONVERSION" /\ p.request_id = job[t].key
    BY <1>5 DEF CommitTransfer
  <2> HIDE DEF row, p
  <2>7. ForeignCommit(others, "RESOURCE_CONVERSION")
    BY <2>1, <2>5, <2>6 DEF ForeignCommit
  <2> QED
    BY <2>2, <2>3, <2>4, <2>7 DEF Interference
<1>6. ASSUME NEW t \in Tasks, TaskStep(t) \/ Crash(t)
      PROVE  Interference(others, "RESOURCE_CONVERSION")
  <2>1. (\E r \in Replies : Rollback(t, r)) => Interference(others, "RESOURCE_CONVERSION")
    BY <1>4
  <2>2. LockFirst(t) \/ LockSecond(t) \/ InsertTransaction(t) \/ CommitTransfer(t)
          => Interference(others, "RESOURCE_CONVERSION")
    BY <1>3, <1>5
  <2> QED
    BY <1>6, <2>1, <2>2, TaskStepCases
<1>7. ASSUME NEW t \in Tasks, NEW c \in Calls, Receive(t, c)
      PROVE  Interference(others, "RESOURCE_CONVERSION")
  BY <1>2, <1>7 DEF Receive, RejectAmount, AnswerProcessed, RejectWallets, BeginTransfer, storeVars
<1> QED
  BY <1>2, <1>6, <1>7 DEF Next, CleanupProcessed

(* Whom a transfer waits for: the holder of its first row, of its second,  *)
(* which is the greater one, or of its key.                                *)
LEMMA WaitsForLock ==
  ASSUME IInv, NEW t \in Tasks, WaitsFor(t) # NoOwner
  PROVE  /\ pc[t] \in {"lock_first", "lock_second", "insert"}
         /\ First(t) \in Wallets /\ Second(t) \in Wallets /\ First(t) < Second(t)
         /\ pc[t] = "lock_first" => WaitsFor(t) = locks[First(t)]
         /\ pc[t] = "lock_second" => WaitsFor(t) = locks[Second(t)]
         /\ pc[t] = "insert" => job[t].key \in Keys /\ WaitsFor(t) = keyLocks[job[t].key]
<1>1. pc[t] \in {"lock_first", "lock_second", "insert"}
  BY DEF WaitsFor, Payable
<1>2. Source(t) \in Wallets /\ Dest(t) \in Wallets /\ Source(t) # Dest(t)
  BY <1>1 DEF IInv, JobInv
<1>3. First(t) \in Wallets /\ Second(t) \in Wallets /\ First(t) < Second(t)
  <2>1. Source(t) \in Int /\ Dest(t) \in Int
    BY <1>2
  <2> QED
    BY <1>2, <2>1 DEF First, Second
<1>4. /\ pc[t] = "lock_first" => WaitsFor(t) = locks[First(t)]
      /\ pc[t] = "lock_second" => WaitsFor(t) = locks[Second(t)]
      /\ pc[t] = "insert" => WaitsFor(t) = keyLocks[job[t].key]
  BY DEF WaitsFor, Payable
<1>5. job[t].key \in Keys
  BY DEF IInv, TypeOK
<1> QED
  BY <1>1, <1>3, <1>4, <1>5

-----------------------------------------------------------------------------
(* No state of Transfers has a wallet with a negative balance or one that  *)
(* does not fit an i64, and every variable has its type.                   *)
THEOREM TypeCorrect == Spec => []TypeOK
<1>1. IInv => TypeOK
  BY DEF IInv
<1> QED
  BY <1>1, Invariance, PTL

(* A request id moves money at most once, whatever is retried, whatever    *)
(* runs concurrently and whenever the stored responses are cleaned up.     *)
THEOREM AtMostOnce == Spec => []UniqueRequests
<1>1. IInv => UniqueRequests
  BY DEF IInv
<1> QED
  BY <1>1, Invariance, PTL

(* "ok" always names the one transaction that did what the call asked.     *)
THEOREM AnswersHonest == Spec => []AnswersMatch
<1>1. IInv => AnswersMatch
  BY DEF IInv
<1> QED
  BY <1>1, Invariance, PTL

(* A stored response belongs to the one transaction of its key and payload *)
(* and is never there before it.                                           *)
THEOREM HonestResponses == Spec => []StoredResponsesMatch
<1>1. IInv => StoredResponsesMatch
  BY DEF IInv
<1> QED
  BY <1>1, Invariance, PTL

(* Balances are computed from rows that are still current.                 *)
THEOREM NoLostUpdate == Spec => []FreshReads
<1>1. IInv => FreshReads
  BY DEF IInv
<1> QED
  BY <1>1, Invariance, PTL

(* Every behaviour of the SQL transactions is one of the abstract ledger:  *)
(* a commit is a Post, every other step leaves wallets and ledger alone.   *)
THEOREM Refinement == Spec => ImplementsLedger
<1>1. Init => AbstractLedger!Init
  BY DEF Init, StoreInit, AbstractLedger!Init
<1>2. IInv /\ [Next]_vars => [AbstractLedger!Next]_(AbstractLedger!ledgerVars)
  <2> SUFFICES ASSUME IInv, [Next]_vars, ~UNCHANGED <<wallets, ledger>>
               PROVE  AbstractLedger!Next
    BY DEF AbstractLedger!ledgerVars
  <2>1. PICK t \in Tasks : CommitTransfer(t)
    BY OnlyCommitsWrite DEF vars, storeVars
  <2>2. AbstractLedger!Post(job[t].key, Source(t), Dest(t), job[t].amount)
    BY <2>1, CommitEffect
  <2>3. /\ job[t].key \in Keys
        /\ Source(t) \in Wallets
        /\ Dest(t) \in Wallets
        /\ job[t].amount \in 1..MaxBalance
    BY <2>1, CommitInRange DEF IInv, CommitTransfer
  <2> QED
    BY <2>2, <2>3 DEF AbstractLedger!Next
<1> QED
  BY <1>1, <1>2, Invariance, PTL DEF Spec, ImplementsLedger, AbstractLedger!Spec

=============================================================================
