--------------------------- MODULE EconomyProofs ----------------------------
(***************************************************************************)
(* Proofs about Economy for any number of tasks of both kinds, and any     *)
(* wallets, rules and calls.  What one kind of task does is known from the *)
(* proofs of its module: a step of it keeps the invariant of the module,   *)
(* and it is an interference that keeps the invariant of the other.  What  *)
(* is proved here is what the two do to the ledger and the balances, and   *)
(* whom they wait for.                                                     *)
(***************************************************************************)
EXTENDS Economy, FiniteSetTheorems, TLAPS

TP == INSTANCE TransfersProofs WITH
  Tasks <- Movers, pc <- movePc, job <- moveJob, seen <- moveSeen, reply <- moveReply

CP == INSTANCE ConversionsProofs WITH
  Tasks <- Converters, pc <- convPc, job <- convJob, seen <- convSeen, reply <- convReply

USE EconomyStoreAssumption, EconomyAssumption

-----------------------------------------------------------------------------
(* What the proofs about the two modules assume of their constants.        *)
LEMMA Parameters ==
  /\ Movers \subseteq Owners
  /\ Calls # {}
  /\ Calls \subseteq [key : Keys, from : Int, to : Int, amount : Int, correlation : Nat]
  /\ Converters \subseteq Owners
  /\ Wallets \subseteq Players /\ Players \subseteq Int
  /\ DOMAIN Rules \subseteq CP!Directions
  /\ Rules \in [DOMAIN Rules -> [price : Nat, min : Int, max : Int]]
  /\ SystemWallet \in Int
  /\ Requests \subseteq CP!ConversionCalls
  BY DEF CP!Directions, C!Directions, CP!ConversionCalls, C!ConversionCalls

(* Economy's instances of the modules are those that the proofs are about. *)
LEMMA SameTransfers == (T!Init <=> TP!Init) /\ (T!Next <=> TP!Next)
  BY DEF T!StoreInit, TP!StoreInit, T!KeyTaken, TP!KeyTaken, T!ResponsesOf, TP!ResponsesOf,
         T!ReleaseLocks, TP!ReleaseLocks, T!CleanupProcessed, TP!CleanupProcessed, T!storeVars,
         TP!storeVars, T!taskVars, TP!taskVars, T!Errors, TP!Errors, T!NoReply, TP!NoReply,
         T!Ok, TP!Ok, T!Error, TP!Error, T!NothingSeen, TP!NothingSeen, T!Fingerprint,
         TP!Fingerprint, T!Source, TP!Source, T!Dest, TP!Dest, T!First, TP!First, T!Second,
         TP!Second, T!Init, TP!Init, T!Goto, TP!Goto, T!Finish, TP!Finish, T!Take, TP!Take,
         T!RejectAmount, TP!RejectAmount, T!AnswerProcessed, TP!AnswerProcessed, T!NotProcessed,
         TP!NotProcessed, T!RejectWallets, TP!RejectWallets, T!BeginTransfer, TP!BeginTransfer,
         T!LockRow, TP!LockRow, T!LockFirst, TP!LockFirst, T!LockSecond, TP!LockSecond,
         T!Affordable, TP!Affordable, T!Fits, TP!Fits, T!Rollback, TP!Rollback, T!RejectMoney,
         TP!RejectMoney, T!Payable, TP!Payable, T!RejectDuplicate, TP!RejectDuplicate,
         T!InsertTransaction, TP!InsertTransaction, T!CommitTransfer, TP!CommitTransfer,
         T!Crash, TP!Crash, T!TaskStep, TP!TaskStep, T!Receive, TP!Receive, T!Next, TP!Next

LEMMA SameTransfersIInv == (T!IInv <=> TP!IInv) /\ (T!IInv' <=> TP!IInv')
  BY DEF T!WalletRow, TP!WalletRow, T!LedgerRow, TP!LedgerRow, T!KeyTaken, TP!KeyTaken,
         T!ResponsesOf, TP!ResponsesOf, T!Errors, TP!Errors, T!Replies, TP!Replies,
         T!Fingerprint, TP!Fingerprint, T!Source, TP!Source, T!Dest, TP!Dest, T!First, TP!First,
         T!Second, TP!Second, T!Affordable, TP!Affordable, T!Fits, TP!Fits, T!StoredRequest,
         TP!StoredRequest, T!TypeOK, TP!TypeOK, T!UniqueRequests, TP!UniqueRequests,
         T!StoredResponsesMatch, TP!StoredResponsesMatch, T!AnswersMatch, TP!AnswersMatch,
         T!OksMatch, TP!OksMatch, T!RefusalsMatch, TP!RefusalsMatch, T!Posted, TP!Posted,
         T!LogInv, TP!LogInv,
         T!FreshReads, TP!FreshReads, T!JobInv, TP!JobInv, T!RowInv, TP!RowInv, T!HeldInv,
         TP!HeldInv, T!CommitInv, TP!CommitInv, T!IInv, TP!IInv

LEMMA SameConversions == (C!Init <=> CP!Init) /\ (C!Next <=> CP!Next)
  BY DEF C!StoreInit, CP!StoreInit, C!KeyTaken, CP!KeyTaken, C!ResponsesOf, CP!ResponsesOf,
         C!ReleaseLocks, CP!ReleaseLocks, C!CleanupProcessed, CP!CleanupProcessed, C!storeVars,
         CP!storeVars, C!taskVars, CP!taskVars, C!NoJob, CP!NoJob, C!NothingSeen,
         CP!NothingSeen, C!NoReply, CP!NoReply, C!Error, CP!Error, C!Quoted, CP!Quoted, C!Paid,
         CP!Paid, C!Aborted, CP!Aborted, C!Init, CP!Init, C!Known, CP!Known, C!Goto, CP!Goto,
         C!Take, CP!Take, C!Finish, CP!Finish, C!Await, CP!Await, C!Release, CP!Release,
         C!Rollback, CP!Rollback, C!HasRule, CP!HasRule, C!Price, CP!Price, C!Offered,
         CP!Offered, C!Mutation, CP!Mutation, C!NewReservation, CP!NewReservation,
         C!AnswerPrepare, CP!AnswerPrepare, C!BeginPrepare, CP!BeginPrepare,
         C!InsertReservation, CP!InsertReservation, C!CommitFingerprint, CP!CommitFingerprint,
         C!SameCommit, CP!SameCommit, C!AnswerProcessed, CP!AnswerProcessed, C!BeginCommit,
         CP!BeginCommit, C!Mine, CP!Mine, C!SetStatus, CP!SetStatus, C!RowFree, CP!RowFree,
         C!Committable, CP!Committable, C!RejectReservation, CP!RejectReservation,
         C!ExpireReservation, CP!ExpireReservation, C!LockReservation, CP!LockReservation,
         C!RejectWallet, CP!RejectWallet, C!WalletFree, CP!WalletFree, C!LockWallet,
         CP!LockWallet, C!IsDebit, CP!IsDebit, C!NewBalance, CP!NewBalance, C!Fits, CP!Fits,
         C!Payable, CP!Payable, C!RejectMoney, CP!RejectMoney, C!RejectDuplicate,
         CP!RejectDuplicate, C!InsertTransaction, CP!InsertTransaction, C!RejectEntries,
         CP!RejectEntries, C!CommitConversion, CP!CommitConversion, C!Abortable, CP!Abortable,
         C!BeginAbort, CP!BeginAbort, C!RejectAbort, CP!RejectAbort, C!AbortReservation,
         CP!AbortReservation, C!Lapse, CP!Lapse, C!Crash, CP!Crash, C!Receive, CP!Receive,
         C!TaskStep, CP!TaskStep, C!Next, CP!Next

LEMMA SameConversionsIInv == (C!IInv <=> CP!IInv) /\ (C!IInv' <=> CP!IInv')
  BY DEF C!WalletRow, CP!WalletRow, C!LedgerRow, CP!LedgerRow, C!KeyTaken, CP!KeyTaken,
         C!ResponsesOf, CP!ResponsesOf, C!Directions, CP!Directions, C!Statuses, CP!Statuses,
         C!Reservation, CP!Reservation, C!NoJob, CP!NoJob, C!Replies, CP!Replies, C!Known,
         CP!Known, C!HasRule, CP!HasRule, C!Price, CP!Price, C!Offered, CP!Offered, C!Mine,
         CP!Mine, C!IsDebit, CP!IsDebit, C!NewBalance, CP!NewBalance, C!Fits, CP!Fits,
         C!ConversionFingerprints, CP!ConversionFingerprints, C!ConversionRows,
         CP!ConversionRows, C!TypeOK, CP!TypeOK, C!PaidOnce, CP!PaidOnce, C!CommitHonest,
         CP!CommitHonest, C!AbortHonest, CP!AbortHonest, C!PrepareHonest, CP!PrepareHonest,
         C!AnswersHonest, CP!AnswersHonest, C!JobInv, CP!JobInv, C!RowInv, CP!RowInv,
         C!WalletInv, CP!WalletInv, C!KeyInv, CP!KeyInv, C!HeldInv, CP!HeldInv, C!PriceInv,
         CP!PriceInv, C!ResponseInv, CP!ResponseInv, C!ReplyInv, CP!ReplyInv, C!IInv, CP!IInv

-----------------------------------------------------------------------------
(* The initial state satisfies the inductive invariant.                    *)
LEMMA InitIInv == Init => IInv
<1> SUFFICES ASSUME T!Init, C!Init PROVE IInv
  BY DEF Init
<1>1. T!IInv
  BY Parameters, SameTransfers, SameTransfersIInv, TP!InitIInv
<1>2. C!IInv
  BY Parameters, SameConversions, SameConversionsIInv, CP!InitIInv
<1>3. Reconciled
  <2>1. /\ ledger = <<>>
        /\ wallets = [x \in Wallets |-> [balance |-> InitialBalance[x], revision |-> 0]]
    BY DEF T!Init, T!StoreInit
  <2> SUFFICES ASSUME NEW x \in Wallets
               PROVE  /\ \E account \in [0..Len(ledger) -> 0..MaxBalance] : IsAccount(account, x)
                      /\ wallets[x].revision = Cardinality({n \in DOMAIN ledger : x \in Moved(n)})
    BY DEF Reconciled
  <2> DEFINE account == [n \in 0..0 |-> InitialBalance[x]]
  <2>2. account \in [0..Len(ledger) -> 0..MaxBalance] /\ IsAccount(account, x)
    BY <2>1 DEF IsAccount
  <2>3. {n \in DOMAIN ledger : x \in Moved(n)} = {}
    BY <2>1
  <2> QED
    BY <2>1, <2>2, <2>3, FS_EmptySet
<1> QED
  BY <1>1, <1>2, <1>3 DEF IInv

-----------------------------------------------------------------------------
(* A step of one kind of task keeps the invariants of both.                *)
LEMMA MoveKeepsBoth ==
  ASSUME IInv, Move
  PROVE  T!IInv' /\ C!IInv'
<1>1. TP!IInv /\ TP!Next /\ CP!IInv
  BY SameTransfers, SameTransfersIInv, SameConversionsIInv DEF IInv, Move
<1>2. TP!IInv'
  BY <1>1, Parameters, TP!NextIInv
<1>3. TP!Interference(Converters, "RESOURCE_CONVERSION")
  <2>1. Converters \in SUBSET Owners /\ Converters \cap Movers = {}
    OBVIOUS
  <2> QED
    BY <1>1, <2>1, Parameters, TP!StepInterference
<1>4. CP!Interference(Converters, "RESOURCE_CONVERSION")
  BY <1>3 DEF TP!Interference, TP!LocksKept, TP!ForeignCommit, TP!WalletRow, TP!LedgerRow,
              TP!KeyTaken, CP!Interference, CP!LocksKept, CP!ForeignCommit, CP!WalletRow,
              CP!LedgerRow, CP!KeyTaken
<1>5. UNCHANGED <<reservations, rowLocks, paidFor, CP!taskVars>>
  BY DEF Move, reservationVars, converterVars, CP!taskVars
<1>6. CP!IInv'
  BY <1>1, <1>4, <1>5, Parameters, CP!InterferenceIInv
<1> QED
  BY <1>2, <1>6, SameTransfersIInv, SameConversionsIInv

LEMMA ConvertKeepsBoth ==
  ASSUME IInv, Convert
  PROVE  T!IInv' /\ C!IInv'
<1>1. TP!IInv /\ CP!Next /\ CP!IInv
  BY SameConversions, SameTransfersIInv, SameConversionsIInv DEF IInv, Convert
<1>2. CP!IInv'
  BY <1>1, Parameters, CP!NextIInv
<1>3. CP!Interference(Movers, "PLAYER_TRANSFER")
  <2>1. Movers \in SUBSET Owners /\ Movers \cap Converters = {}
    OBVIOUS
  <2> QED
    BY <1>1, <2>1, Parameters, CP!StepInterference
<1>4. TP!Interference(Movers, "PLAYER_TRANSFER")
  BY <1>3 DEF TP!Interference, TP!LocksKept, TP!ForeignCommit, TP!WalletRow, TP!LedgerRow,
              TP!KeyTaken, CP!Interference, CP!LocksKept, CP!ForeignCommit, CP!WalletRow,
              CP!LedgerRow, CP!KeyTaken
<1>5. UNCHANGED TP!taskVars
  BY DEF Convert, moverVars, TP!taskVars
<1>6. TP!IInv'
  BY <1>1, <1>4, <1>5, Parameters, TP!InterferenceIInv
<1> QED
  BY <1>2, <1>6, SameTransfersIInv, SameConversionsIInv

-----------------------------------------------------------------------------
(* The balances stay explained by the ledger: by a step that books nothing *)
(* and by one that appends a transaction.                                  *)
LEMMA NothingBooked ==
  ASSUME Reconciled, UNCHANGED <<wallets, ledger>>,
         \A n \in DOMAIN ledger : Moved(n)' = Moved(n)
  PROVE  Reconciled'
<1>1. \A x, n : n \in DOMAIN ledger => Delta(x, n)' = Delta(x, n)
  BY DEF Delta
<1>2. \A account, x : IsAccount(account, x) => IsAccount(account, x)'
  BY <1>1 DEF IsAccount
<1>3. \A x : {n \in DOMAIN ledger : x \in Moved(n)}' = {n \in DOMAIN ledger : x \in Moved(n)}
  OBVIOUS
<1> QED
  BY <1>2, <1>3 DEF Reconciled

LEMMA Booked ==
  ASSUME Reconciled, ledger \in Seq(LedgerRow), wallets \in [Wallets -> WalletRow],
         NEW row, ledger' = Append(ledger, row),
         NEW last, last = Len(ledger) + 1,
         \A n \in DOMAIN ledger : Moved(n)' = Moved(n),
         wallets' \in [Wallets -> WalletRow],
         \A x \in Wallets :
           /\ wallets'[x].balance = wallets[x].balance + Delta(x, last)'
           /\ wallets'[x].revision = IF x \in Moved(last)'
                                     THEN wallets[x].revision + 1 ELSE wallets[x].revision
  PROVE  Reconciled'
<1>1. /\ Len(ledger) \in Nat /\ Len(ledger') = last
      /\ DOMAIN ledger = 1..Len(ledger) /\ DOMAIN ledger' = DOMAIN ledger \cup {last}
      /\ last \notin DOMAIN ledger
      /\ \A n \in DOMAIN ledger : ledger'[n] = ledger[n]
  OBVIOUS
<1>2. \A x, n : n \in DOMAIN ledger => Delta(x, n)' = Delta(x, n)
  BY <1>1 DEF Delta
<1> SUFFICES ASSUME NEW x \in Wallets
             PROVE  /\ \E account \in [0..last -> 0..MaxBalance] :
                         /\ account[0] = InitialBalance[x]
                         /\ \A n \in 1..last : account[n] = account[n - 1] + Delta(x, n)'
                         /\ account[last] = wallets'[x].balance
                    /\ wallets'[x].revision = Cardinality({n \in DOMAIN ledger' : x \in Moved(n)'})
  <2>1. \A account, x : IsAccount(account, x)' <=>
          /\ account[0] = InitialBalance[x]
          /\ \A n \in 1..last : account[n] = account[n - 1] + Delta(x, n)'
          /\ account[last] = wallets'[x].balance
    BY <1>1 DEF IsAccount
  <2> QED
    BY <1>1, <2>1 DEF Reconciled
<1>3. \E account \in [0..last -> 0..MaxBalance] :
        /\ account[0] = InitialBalance[x]
        /\ \A n \in 1..last : account[n] = account[n - 1] + Delta(x, n)'
        /\ account[last] = wallets'[x].balance
  <2>1. PICK account \in [0..Len(ledger) -> 0..MaxBalance] : IsAccount(account, x)
    BY DEF Reconciled
  <2> DEFINE new == [n \in 0..last |-> IF n = last THEN wallets'[x].balance ELSE account[n]]
  <2>2. new \in [0..last -> 0..MaxBalance]
    BY SMTT(30), <1>1 DEF WalletRow
  <2>3. new[0] = InitialBalance[x] /\ new[last] = wallets'[x].balance
    BY <1>1, <2>1 DEF IsAccount
  <2>4. ASSUME NEW n \in 1..last PROVE new[n] = new[n - 1] + Delta(x, n)'
    <3>1. n - 1 \in 0..Len(ledger) /\ n - 1 # last
      BY <1>1
    <3>2. new[n - 1] = account[n - 1]
      BY <1>1, <3>1
    <3>3. CASE n = last
      <4>1. new[n] = wallets'[x].balance /\ account[n - 1] = wallets[x].balance
        BY <1>1, <2>1, <3>3 DEF IsAccount
      <4>2. wallets'[x].balance = wallets[x].balance + Delta(x, last)'
        OBVIOUS
      <4> HIDE DEF new
      <4> QED
        BY <3>2, <3>3, <4>1, <4>2
    <3>4. CASE n # last
      BY <1>1, <1>2, <2>1, <3>1, <3>2, <3>4 DEF IsAccount
    <3> QED
      BY <3>3, <3>4
  <2> HIDE DEF new
  <2> QED
    BY <2>2, <2>3, <2>4
<1>4. wallets'[x].revision = Cardinality({n \in DOMAIN ledger' : x \in Moved(n)'})
  <2> DEFINE old == {n \in DOMAIN ledger : x \in Moved(n)}
             new == {n \in DOMAIN ledger' : x \in Moved(n)'}
  <2>1. IsFiniteSet(old)
    <3>1. 1 \in Int /\ Len(ledger) \in Int
      BY <1>1
    <3>2. IsFiniteSet(1..Len(ledger))
      BY <3>1, FS_Interval, Zenon
    <3>3. old \in SUBSET (1..Len(ledger))
      BY <1>1
    <3> QED
      BY <3>2, <3>3, FS_Subset
  <2>2. last \notin old /\ wallets[x].revision = Cardinality(old)
    BY <1>1 DEF Reconciled
  <2>3. CASE x \in Moved(last)'
    <3>1. new = old \cup {last}
      BY <1>1, <2>3
    <3>2. wallets'[x].revision = wallets[x].revision + 1
      BY <2>3
    <3> HIDE DEF old, new
    <3>3. Cardinality(old \cup {last}) = Cardinality(old) + 1
      BY <2>1, <2>2, FS_AddElement
    <3> QED
      BY <2>2, <3>1, <3>2, <3>3 DEF new
  <2>4. CASE x \notin Moved(last)'
    <3>1. new = old
      BY <1>1, <2>4
    <3> QED
      BY <2>2, <2>4, <3>1
  <2> QED
    BY <2>3, <2>4
<1> QED
  BY <1>3, <1>4

LEMMA StoreTypes ==
  /\ T!IInv => ledger \in Seq(LedgerRow) /\ wallets \in [Wallets -> WalletRow]
  /\ T!IInv' => wallets' \in [Wallets -> WalletRow]
  BY DEF T!IInv, T!TypeOK, T!LedgerRow, LedgerRow, T!WalletRow, WalletRow

(* A transfer books its amount on both sides.                              *)
LEMMA MoveReconciled ==
  ASSUME IInv, Move
  PROVE  Reconciled'
<1>1. TP!IInv /\ TP!Next /\ Reconciled /\ T!IInv'
  BY SameTransfers, SameTransfersIInv, MoveKeepsBoth DEF IInv, Move
<1>2. reservations' = reservations /\ paidFor' = paidFor
  BY DEF Move, reservationVars
<1>3. CASE UNCHANGED <<wallets, ledger>>
  BY <1>1, <1>2, <1>3, NothingBooked DEF Moved
<1>4. ASSUME NEW m \in Movers, TP!CommitTransfer(m)
      PROVE  Reconciled'
  <2> DEFINE s == TP!Source(m)
             d == TP!Dest(m)
             a == moveJob[m].amount
             row == [request_id |-> moveJob[m].key, tx_type |-> "PLAYER_TRANSFER",
                     source |-> s, dest |-> d, amount |-> a]
  <2>1. /\ ledger \in Seq(LedgerRow) /\ wallets \in [Wallets -> WalletRow]
        /\ wallets' \in [Wallets -> WalletRow]
    BY <1>1, StoreTypes DEF IInv
  <2>2. /\ moveSeen[m][s] = wallets[s] /\ moveSeen[m][d] = wallets[d]
        /\ a \in 1..MaxBalance
        /\ s \in Wallets /\ d \in Wallets /\ s # d
    BY <1>1, <1>4, Parameters, TP!CommitInRange DEF TP!IInv, TP!CommitTransfer
  <2>3. /\ ledger' = Append(ledger, row)
        /\ wallets' = [wallets EXCEPT
             ![s] = [balance |-> moveSeen[m][s].balance - a, revision |-> moveSeen[m][s].revision + 1],
             ![d] = [balance |-> moveSeen[m][d].balance + a, revision |-> moveSeen[m][d].revision + 1]]
    BY <1>4 DEF TP!CommitTransfer
  <2>4. PICK last : last = Len(ledger) + 1
    OBVIOUS
  <2>5. ledger'[last] = row /\ \A n \in DOMAIN ledger : ledger'[n] = ledger[n]
    BY <2>1, <2>3, <2>4
  <2> HIDE DEF s, d, a
  <2>6. \A n \in DOMAIN ledger : Moved(n)' = Moved(n)
    BY <1>2, <2>5 DEF Moved
  <2>7. Moved(last)' = {s, d}
    BY <2>5 DEF Moved
  <2>8. \A x : Delta(x, last)' = IF x = d THEN a ELSE IF x = s THEN -a ELSE 0
    BY <2>2, <2>5, <2>7 DEF Delta
  <2>9. ASSUME NEW x \in Wallets
        PROVE  /\ wallets'[x].balance = wallets[x].balance + Delta(x, last)'
               /\ wallets'[x].revision = IF x \in Moved(last)'
                                         THEN wallets[x].revision + 1 ELSE wallets[x].revision
    <3>1. wallets[x].balance \in Int
      BY <2>1 DEF WalletRow
    <3>2. /\ x = d => wallets'[x] = [balance |-> wallets[d].balance + a, revision |-> wallets[d].revision + 1]
          /\ x = s => wallets'[x] = [balance |-> wallets[s].balance - a, revision |-> wallets[s].revision + 1]
          /\ x \notin {s, d} => wallets'[x] = wallets[x]
      BY <2>1, <2>2, <2>3
    <3> QED
      BY <2>2, <2>7, <2>8, <3>1, <3>2
  <2> HIDE DEF row
  <2> QED
    BY <1>1, <2>1, <2>3, <2>4, <2>6, <2>9, Booked
<1> QED
  BY <1>1, <1>3, <1>4, Parameters, TP!OnlyCommitsWrite

(* A conversion books its price on the player's wallet alone, and leaves   *)
(* every earlier reservation with its player.                              *)
LEMMA ConvertReconciled ==
  ASSUME IInv, Convert
  PROVE  Reconciled'
<1>1. CP!IInv /\ CP!Next /\ Reconciled /\ T!IInv'
  BY SameConversions, SameConversionsIInv, ConvertKeepsBoth DEF IInv, Convert
<1>2. ASSUME NEW n \in DOMAIN ledger, ledger[n].tx_type = "RESOURCE_CONVERSION"
      PROVE  /\ n \in DOMAIN paidFor
             /\ paidFor[n] \in DOMAIN reservations
             /\ paidFor[n] \in DOMAIN reservations'
             /\ reservations'[paidFor[n]].wallet = reservations[paidFor[n]].wallet
  <2>1. n \in DOMAIN paidFor
    BY <1>1, <1>2 DEF CP!IInv, CP!TypeOK, CP!ConversionRows
  <2>2. paidFor[n] \in DOMAIN reservations
    BY <1>1, <2>1 DEF CP!IInv, CP!PaidOnce, CP!Known
  <2> QED
    BY <1>1, <2>1, <2>2, Parameters, CP!OwnersKept
<1>3. CASE UNCHANGED <<wallets, ledger, paidFor>>
  <2>1. \A n \in DOMAIN ledger : Moved(n)' = Moved(n)
    BY <1>2, <1>3 DEF Moved
  <2> QED
    BY <1>1, <1>3, <2>1, NothingBooked
<1>4. ASSUME NEW c \in Converters, CP!CommitConversion(c)
      PROVE  Reconciled'
  <2> DEFINE i == convJob[c].id
             x == CP!Mine(c).wallet
             a == CP!Mine(c).price
             row == [request_id |-> convJob[c].key, tx_type |-> "RESOURCE_CONVERSION",
                     source |-> SystemWallet, dest |-> x, amount |-> a]
  <2>1. /\ ledger \in Seq(LedgerRow) /\ wallets \in [Wallets -> WalletRow]
        /\ wallets' \in [Wallets -> WalletRow]
    BY <1>1, StoreTypes DEF IInv
  <2>2. /\ i \in DOMAIN reservations /\ a \in Int
        /\ x \in Wallets /\ convSeen[c] = wallets[x] /\ ~CP!IsDebit(c)
        /\ CP!NewBalance(c) = wallets[x].balance + a
    <3>1. convPc[c] = "entries"
      BY <1>4 DEF CP!CommitConversion
    <3>2. /\ i \in DOMAIN reservations /\ a \in 0..MaxBalance
          /\ x \in Wallets /\ convSeen[c] = wallets[x] /\ ~CP!IsDebit(c)
          /\ CP!NewBalance(c) = wallets[x].balance + a
      BY <1>1, <3>1, Parameters, CP!CommitFacts
    <3> QED
      BY <3>2
  <2>3. /\ ledger' = Append(ledger, row)
        /\ wallets' = [wallets EXCEPT
             ![x] = [balance |-> wallets[x].balance + a, revision |-> wallets[x].revision + 1]]
        /\ paidFor' = [n \in DOMAIN paidFor \cup {Len(ledger) + 1} |->
             IF n = Len(ledger) + 1 THEN i ELSE paidFor[n]]
    BY <1>4, <2>2 DEF CP!CommitConversion
  <2>4. PICK last : last = Len(ledger) + 1
    OBVIOUS
  <2>5. /\ last \notin DOMAIN ledger
        /\ ledger'[last] = row /\ \A n \in DOMAIN ledger : ledger'[n] = ledger[n]
    BY <2>1, <2>3, <2>4
  <2>6. \A n \in DOMAIN ledger : Moved(n)' = Moved(n)
    <3> SUFFICES ASSUME NEW n \in DOMAIN ledger PROVE Moved(n)' = Moved(n)
      OBVIOUS
    <3>1. ledger'[n] = ledger[n]
      BY <2>5
    <3>2. CASE ledger[n].tx_type = "RESOURCE_CONVERSION"
      <4>1. n \in DOMAIN paidFor /\ reservations'[paidFor[n]].wallet = reservations[paidFor[n]].wallet
        BY <1>2, <3>2
      <4>2. paidFor'[n] = paidFor[n]
        BY <2>3, <2>4, <2>5, <4>1
      <4> QED
        BY <3>1, <3>2, <4>1, <4>2 DEF Moved
    <3>3. CASE ledger[n].tx_type # "RESOURCE_CONVERSION"
      BY <3>1, <3>3 DEF Moved
    <3> QED
      BY <3>2, <3>3
  <2>7. Moved(last)' = {x}
    <3>1. paidFor'[last] = i
      BY <2>3, <2>4
    <3>2. reservations'[i].wallet = x
      BY <1>1, <2>2, Parameters, CP!OwnersKept DEF CP!Mine
    <3> QED
      BY <2>5, <3>1, <3>2 DEF Moved
  <2> HIDE DEF x, a, i
  <2>8. \A y : Delta(y, last)' = IF y = x THEN a ELSE 0
    BY <2>5, <2>7 DEF Delta
  <2>9. ASSUME NEW y \in Wallets
        PROVE  /\ wallets'[y].balance = wallets[y].balance + Delta(y, last)'
               /\ wallets'[y].revision = IF y \in Moved(last)'
                                         THEN wallets[y].revision + 1 ELSE wallets[y].revision
    <3>1. wallets[y].balance \in Int
      BY <2>1 DEF WalletRow
    <3>2. /\ y = x => wallets'[y] = [balance |-> wallets[y].balance + a, revision |-> wallets[y].revision + 1]
          /\ y # x => wallets'[y] = wallets[y]
      BY <2>1, <2>3
    <3> QED
      BY <2>2, <2>7, <2>8, <3>1, <3>2
  <2> HIDE DEF row
  <2> QED
    BY <1>1, <2>1, <2>3, <2>4, <2>6, <2>9, Booked
<1> QED
  BY <1>1, <1>3, <1>4, Parameters, CP!OnlyCommitsWrite

-----------------------------------------------------------------------------
(* Every step keeps the invariant.                                         *)
LEMMA NextIInv == IInv /\ [Next]_vars => IInv'
<1> SUFFICES ASSUME IInv, [Next]_vars PROVE IInv'
  OBVIOUS
<1>1. CASE Move
  BY <1>1, MoveKeepsBoth, MoveReconciled DEF IInv
<1>2. CASE Convert
  BY <1>2, ConvertKeepsBoth, ConvertReconciled DEF IInv
<1>3. CASE UNCHANGED vars
  <2>1. TP!IInv /\ CP!IInv /\ UNCHANGED TP!vars /\ UNCHANGED CP!vars
    BY <1>3, SameTransfersIInv, SameConversionsIInv
       DEF IInv, vars, storeVars, reservationVars, moverVars, converterVars,
           TP!vars, TP!storeVars, TP!taskVars, CP!vars, CP!storeVars, CP!taskVars
  <2>2. TP!IInv' /\ CP!IInv'
    BY <2>1, Parameters, TP!NextIInv, CP!NextIInv
  <2>3. Reconciled'
    BY <1>3, NothingBooked DEF IInv, Moved, vars, storeVars, reservationVars
  <2> QED
    BY <2>2, <2>3, SameTransfersIInv, SameConversionsIInv DEF IInv
<1> QED
  BY <1>1, <1>2, <1>3 DEF Next

(* The inductive invariant: those of Transfers and of Conversions, which   *)
(* hold next to each other, and what both have done to the balances.       *)
THEOREM Invariance == Spec => []IInv
  BY InitIInv, NextIInv, PTL DEF Spec

(* A key moves money once in the whole economy: for any number of          *)
(* transfers and conversions that run next to each other, that are retried *)
(* or share a key, and whenever the idempotency log is cleaned up.         *)
THEOREM OneEffect == Spec => []OneEffectPerKey
<1>1. IInv => OneEffectPerKey
  BY DEF IInv, T!IInv, T!UniqueRequests, OneEffectPerKey
<1> QED
  BY <1>1, Invariance, PTL

(* What a client is told is true of the operation it called, also where    *)
(* clients use one key for a transfer and for a conversion.                *)
THEOREM HonestAnswers == Spec => []AnswersHonest
<1>1. IInv => AnswersHonest
  BY DEF IInv, T!IInv, C!IInv, AnswersHonest
<1> QED
  BY <1>1, Invariance, PTL

(* The ledger explains every balance, none ever left its range, and the    *)
(* revision counts the transactions: no update of one kind of task is lost *)
(* to the other kind.                                                      *)
THEOREM Reconciliation == Spec => []Reconciled
<1>1. IInv => Reconciled
  BY DEF IInv
<1> QED
  BY <1>1, Invariance, PTL

(* What is proved of conversions alone stays true while transfers share    *)
(* the wallets, the ledger and the log: a reservation is paid once.        *)
THEOREM OnePayment == Spec => []C!PaidOnce
<1>1. IInv => C!PaidOnce
  BY DEF IInv, C!IInv
<1> QED
  BY <1>1, Invariance, PTL

-----------------------------------------------------------------------------
(* A finite set has an element with the largest value.                     *)
LEMMA Largest ==
  ASSUME NEW S, IsFiniteSet(S), S # {}, NEW f, \A s \in S : f[s] \in Int
  PROVE  \E m \in S : \A s \in S : f[s] <= f[m]
<1> DEFINE Above(t) == {s \in S : f[s] > f[t]}
           Aboves == {Above(t) : t \in S}
<1>1. IsWellFoundedOn(StrictSubsetOrdering(S), FiniteSubsetsOf(S))
  BY FS_StrictSubsetOrderingWellFounded
<1>2. Aboves \subseteq FiniteSubsetsOf(S) /\ Aboves # {}
  <2>1. \A t \in S : Above(t) \in SUBSET S
    OBVIOUS
  <2>2. \A t \in S : IsFiniteSet(Above(t))
    BY <2>1, FS_Subset
  <2>3. \A t \in S : Above(t) \in FiniteSubsetsOf(S)
    BY <2>1, <2>2 DEF FiniteSubsetsOf
  <2> HIDE DEF Above
  <2> QED
    BY <2>3
<1> HIDE DEF Aboves
<1>3. PICK A \in Aboves : \A B \in Aboves : <<B, A>> \notin StrictSubsetOrdering(S)
  BY <1>1, <1>2, WFMin
<1> USE DEF Aboves
<1>4. PICK m \in S : A = Above(m)
  OBVIOUS
<1>5. Above(m) = {}
  <2> SUFFICES ASSUME NEW s \in S, f[s] > f[m] PROVE FALSE
    OBVIOUS
  <2>1. Above(s) \subseteq Above(m) /\ Above(s) # Above(m)
    OBVIOUS
  <2>2. <<Above(s), Above(m)>> \in StrictSubsetOrdering(S)
    BY <2>1 DEF StrictSubsetOrdering
  <2> QED
    BY <1>3, <1>4, <2>2
<1> QED
  BY <1>5

(* Whom the tasks wait for, as the proofs about the modules tell it.       *)
LEMMA SameWaits ==
  /\ \A m \in Movers : WaitsFor(m) = TP!WaitsFor(m)
  /\ \A c \in Converters : WaitsFor(c) = CP!WaitsFor(c) /\ C!Mine(c) = CP!Mine(c)
<1>1. \A m \in Movers : T!WaitsFor(m) = TP!WaitsFor(m)
  BY DEF T!WaitsFor, TP!WaitsFor, T!First, TP!First, T!Second, TP!Second, T!Source, TP!Source,
         T!Dest, TP!Dest, T!Payable, TP!Payable, T!Affordable, TP!Affordable, T!Fits, TP!Fits
<1>2. \A c \in Converters : C!WaitsFor(c) = CP!WaitsFor(c) /\ C!Mine(c) = CP!Mine(c)
  BY DEF C!WaitsFor, CP!WaitsFor, C!Mine, CP!Mine, C!Payable, CP!Payable, C!Fits, CP!Fits,
         C!NewBalance, CP!NewBalance, C!IsDebit, CP!IsDebit
<1> QED
  BY <1>1, <1>2 DEF WaitsFor

(* What a task that waits waits for, and what a task that is waited for    *)
(* has locked and still does.                                              *)
LEMMA Waiters ==
  ASSUME IInv, NEW o \in Movers \cup Converters, WaitsFor(o) # NoOwner
  PROVE  /\ o \in Movers =>
              /\ movePc[o] \in {"lock_first", "lock_second", "insert"}
              /\ TP!First(o) \in Wallets /\ TP!Second(o) \in Wallets /\ TP!First(o) < TP!Second(o)
              /\ movePc[o] = "lock_first" => WaitsFor(o) = locks[TP!First(o)]
              /\ movePc[o] = "lock_second" => WaitsFor(o) = locks[TP!Second(o)]
              /\ movePc[o] = "insert" => \E k \in Keys : WaitsFor(o) = keyLocks[k]
         /\ o \in Converters =>
              /\ convPc[o] \in {"reserve", "abort", "wallet", "pay", "entries"}
              /\ convPc[o] \in {"reserve", "abort"} =>
                   \E i \in Reservations : WaitsFor(o) = rowLocks[i]
              /\ convPc[o] = "wallet" => \E x \in Wallets : WaitsFor(o) = locks[x]
              /\ convPc[o] = "pay" => \E k \in Keys : WaitsFor(o) = keyLocks[k]
              /\ convPc[o] = "entries" => /\ SystemWallet \in Wallets
                                          /\ WaitsFor(o) = locks[SystemWallet]
                                          /\ WaitsFor(o) # o
<1>1. TP!IInv /\ CP!IInv
  BY SameTransfersIInv, SameConversionsIInv DEF IInv
<1>2. CASE o \in Movers
  BY <1>1, <1>2, Parameters, SameWaits, TP!WaitsForLock
<1>3. CASE o \in Converters
  BY <1>1, <1>3, Parameters, SameWaits, CP!WaitsForLock
<1> QED
  BY <1>2, <1>3

LEMMA Holders ==
  ASSUME IInv
  PROVE  /\ \A m \in Movers :
              /\ \A x \in Wallets : locks[x] = m =>
                   \/ movePc[m] = "lock_second" /\ x = TP!First(m)
                   \/ movePc[m] \in {"insert", "commit"} /\ x \in {TP!First(m), TP!Second(m)}
              /\ \A k \in Keys : keyLocks[k] = m => movePc[m] = "commit"
         /\ \A c \in Converters :
              /\ \A i \in Reservations :
                   rowLocks[i] = c => convPc[c] \in {"wallet", "pay", "entries"}
              /\ \A x \in Wallets :
                   locks[x] = c => convPc[c] \in {"pay", "entries"} /\ x = C!Mine(c).wallet
              /\ \A k \in Keys : keyLocks[k] = c => convPc[c] = "entries"
         /\ \A i \in Reservations : rowLocks[i] \in Converters \cup {NoOwner}
<1>1. TP!IInv /\ CP!IInv
  BY SameTransfersIInv, SameConversionsIInv DEF IInv
<1> QED
  BY <1>1, SameWaits DEF TP!IInv, TP!HeldInv, CP!IInv, CP!HeldInv, CP!TypeOK

-----------------------------------------------------------------------------
(* Tasks that wait for each other.                                         *)
Circle(S) == \A o \in S : WaitsFor(o) \in S

(* Where a conversion waits for the system wallet, its owner is a party to *)
(* the call that holds it.                                                 *)
LEMMA SystemWaiter ==
  ASSUME IInv, NEW S \in SUBSET (Movers \cup Converters), Circle(S),
         NEW c \in S \cap Converters, convPc[c] = "entries"
  PROVE  \E h \in S : WaitsFor(c) = h /\ OnSystemWallet(h)
<1>1. PICK h \in S : WaitsFor(c) = h
  BY DEF Circle
<1>2. SystemWallet \in Wallets /\ locks[SystemWallet] = h /\ h # NoOwner
  BY <1>1, Waiters
<1>3. CASE h \in Movers
  <2>1. SystemWallet \in {TP!First(h), TP!Second(h)}
    BY <1>2, <1>3, Holders
  <2> QED
    BY <1>1, <1>3, <2>1 DEF OnSystemWallet, TP!First, TP!Second, TP!Source, TP!Dest
<1>4. CASE h \in Converters
  <2>1. convPc[h] \in {"pay", "entries"} /\ C!Mine(h).wallet = SystemWallet
    BY <1>2, <1>4, Holders
  <2>2. convPc[h] # "entries"
    <3>1. WaitsFor(h) \in S /\ WaitsFor(h) # NoOwner
      BY DEF Circle
    <3> QED
      BY <1>2, <1>4, <3>1, Waiters
  <2> QED
    BY <1>1, <1>4, <2>1, <2>2 DEF OnSystemWallet
<1> QED
  BY <1>1, <1>3, <1>4

(* Without such a conversion the circle would be one of transfers that     *)
(* hold their smaller wallet and wait for their greater one, and the one   *)
(* among them that has got furthest waits for nobody of them.              *)
LEMMA CircleHasSystem ==
  ASSUME IInv, NEW S \in SUBSET (Movers \cup Converters), S # {}, IsFiniteSet(S), Circle(S)
  PROVE  \E c \in S \cap Converters : convPc[c] = "entries"
<1> SUFFICES ASSUME \A c \in S \cap Converters : convPc[c] # "entries" PROVE FALSE
  OBVIOUS
<1> DEFINE M == {m \in S \cap Movers : movePc[m] = "lock_second"}
<1>1. \A o \in S : WaitsFor(o) \in S /\ WaitsFor(o) # NoOwner
  BY DEF Circle
<1>2. \A o \in S : o \in Movers => movePc[o] \in {"lock_first", "lock_second", "insert"}
  BY <1>1, Waiters
<1>3. \A o \in S, k \in Keys : keyLocks[k] # o
  BY <1>2, Holders
<1>4. /\ \A o \in S \cap Movers : movePc[o] # "insert"
      /\ \A o \in S \cap Converters : convPc[o] # "pay"
  BY <1>1, <1>3, Waiters
<1>5. \A o \in S, x \in Wallets : locks[x] = o => o \in M /\ x = TP!First(o)
  BY <1>2, <1>4, Holders
<1>6. ASSUME NEW m \in M
      PROVE  /\ TP!First(m) \in Int /\ TP!First(m) < TP!Second(m)
             /\ \E h \in M : TP!First(h) = TP!Second(m)
  <2>1. /\ TP!First(m) \in Wallets /\ TP!Second(m) \in Wallets /\ TP!First(m) < TP!Second(m)
        /\ WaitsFor(m) = locks[TP!Second(m)]
    BY <1>1, Waiters
  <2> QED
    BY <1>1, <1>5, <2>1
<1>7. \E m \in M : TRUE
  <2>1. ASSUME NEW o \in S, NEW x \in Wallets, WaitsFor(o) = locks[x] PROVE \E m \in M : TRUE
    BY <1>1, <1>5, <2>1
  <2>2. ASSUME NEW o \in S \cap Converters, convPc[o] = "wallet" PROVE \E m \in M : TRUE
    BY <1>1, <2>1, <2>2, Waiters
  <2>3. ASSUME NEW o \in S \cap Converters, convPc[o] \in {"reserve", "abort"}
        PROVE  \E m \in M : TRUE
    <3>1. PICK i \in Reservations : WaitsFor(o) = rowLocks[i]
      BY <1>1, <2>3, Waiters
    <3>2. WaitsFor(o) \in S \cap Converters /\ convPc[WaitsFor(o)] = "wallet"
      BY <1>1, <1>4, <3>1, Holders
    <3> QED
      BY <2>2, <3>2
  <2>4. ASSUME NEW o \in S \cap Movers PROVE \E m \in M : TRUE
    BY <1>1, <1>2, <1>4, <2>1, <2>4, Waiters
  <2>5. \A o \in S \cap Converters : convPc[o] \in {"reserve", "abort", "wallet"}
    BY <1>1, <1>4, Waiters
  <2> QED
    BY <2>2, <2>3, <2>4, <2>5
<1>8. IsFiniteSet(M)
  BY FS_Subset
<1> DEFINE f == [m \in M |-> TP!First(m)]
<1>9. \A m \in M : f[m] = TP!First(m) /\ f[m] \in Int
  BY <1>6
<1> HIDE DEF M, f
<1>10. PICK m \in M : \A h \in M : f[h] <= f[m]
  BY <1>7, <1>8, <1>9, Largest
<1>11. PICK h \in M : TP!First(h) = TP!Second(m) /\ TP!First(m) < TP!First(h)
  BY <1>6
<1> QED
  BY <1>9, <1>10, <1>11

(* Tasks wait for each other in a circle only where a conversion waits for *)
(* the system wallet, and it is held by a call of its owner: the order in  *)
(* which transfers lock wallets does not help there, since the conversion  *)
(* takes the smallest id of all last.                                      *)
THEOREM CirclesThroughSystem == Spec => []DeadlockNeedsSystem
<1>1. ASSUME IInv PROVE DeadlockNeedsSystem
  <2> SUFFICES ASSUME NEW S \in (SUBSET (Movers \cup Converters)) \ {{}}, IsFiniteSet(S), Circle(S)
               PROVE  \E c \in S \cap Converters, h \in S :
                        convPc[c] = "entries" /\ WaitsFor(c) = h /\ OnSystemWallet(h)
    BY DEF DeadlockNeedsSystem, Circle
  <2>1. PICK c \in S \cap Converters : convPc[c] = "entries"
    BY <1>1, CircleHasSystem
  <2> QED
    BY <1>1, <2>1, SystemWaiter
<1> QED
  BY <1>1, Invariance, PTL

=============================================================================
