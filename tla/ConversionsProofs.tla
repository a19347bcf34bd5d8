------------------------- MODULE ConversionsProofs --------------------------
(***************************************************************************)
(* Proofs about Conversions for any number of tasks, reservations, players *)
(* and calls, and any rules and balances.                                  *)
(***************************************************************************)
EXTENDS Conversions, TLAPS

USE EconomyStoreAssumption, ConversionsAssumption

-----------------------------------------------------------------------------
(* What the calls and the answers are made of.                             *)
LEMMA RequestTypes ==
  ASSUME NEW c \in Requests
  PROVE  /\ c.op \in {"prepare", "commit", "abort"}
         /\ c.id \in Reservations
         /\ c.op = "commit" => c.key \in Keys
         /\ c.op = "prepare" =>
              c.wallet \in Int /\ c.units \in Int /\ c.direction \in Directions
  BY DEF ConversionCalls

LEMMA NatProduct ==
  ASSUME NEW m \in Nat, NEW n \in Nat
  PROVE  m * n \in Nat
  OBVIOUS

LEMMA OfferTypes ==
  ASSUME NEW c \in Requests, c.op = "prepare", Offered(c)
  PROVE  /\ Price(c) \in Nat
         /\ Mutation(c) \in Int
         /\ NewReservation(c) \in Reservation
<1>1. c.units \in Nat /\ c.wallet \in Int /\ c.direction \in Directions
  BY RequestTypes DEF Offered
<1>2. Rules[c.direction].price \in Nat
  BY DEF Offered, HasRule
<1>3. Price(c) \in Nat
  BY <1>1, <1>2, NatProduct DEF Price
<1> QED
  BY <1>1, <1>3 DEF Mutation, NewReservation, Reservation, Statuses

LEMMA ReplyTypes ==
  /\ NoReply \in Replies /\ NoReply.result = "none" /\ NoReply.mutation = 0
  /\ Error \in Replies /\ Error.result = "error" /\ Error.mutation = 0
  /\ Aborted \in Replies /\ Aborted.result = "ok" /\ Aborted.mutation = 0
  /\ \A n \in Nat : /\ Paid(n) \in Replies
                    /\ Paid(n).result = "ok" /\ Paid(n).tx = n /\ Paid(n).mutation = 0
  /\ \A r \in Reservation, m \in Int :
       /\ Quoted(r, m) \in Replies
       /\ Quoted(r, m).result = "ok" /\ Quoted(r, m).mutation = m
       /\ Quoted(r, m).wallet = r.wallet /\ Quoted(r, m).price = r.price
<1> USE DEF NoReply, Replies
<1>1. NoReply \in Replies /\ NoReply.result = "none" /\ NoReply.mutation = 0
  OBVIOUS
<1>2. Error \in Replies /\ Error.result = "error" /\ Error.mutation = 0
  BY DEF Error
<1>3. Aborted \in Replies /\ Aborted.result = "ok" /\ Aborted.mutation = 0
  BY DEF Aborted
<1>4. ASSUME NEW n \in Nat
      PROVE  /\ Paid(n) \in Replies
             /\ Paid(n).result = "ok" /\ Paid(n).tx = n /\ Paid(n).mutation = 0
  BY DEF Paid
<1>5. ASSUME NEW r \in Reservation, NEW m \in Int
      PROVE  /\ Quoted(r, m) \in Replies
             /\ Quoted(r, m).result = "ok" /\ Quoted(r, m).mutation = m
             /\ Quoted(r, m).wallet = r.wallet /\ Quoted(r, m).price = r.price
  BY DEF Quoted, Reservation
<1> QED
  BY <1>1, <1>2, <1>3, <1>4, <1>5

-----------------------------------------------------------------------------
(* The initial state satisfies the inductive invariant.                    *)
LEMMA InitIInv == Init => IInv
<1> SUFFICES ASSUME Init PROVE IInv
  OBVIOUS
<1> USE DEF Init, StoreInit
<1>1. TypeOK
  BY ReplyTypes DEF TypeOK, WalletRow, NothingSeen, ResponsesOf, ConversionRows
<1>2. JobInv /\ RowInv /\ WalletInv /\ KeyInv /\ HeldInv /\ PriceInv /\ ResponseInv
  BY DEF JobInv, RowInv, WalletInv, KeyInv, HeldInv, PriceInv, ResponseInv, ResponsesOf
<1>3. ReplyInv /\ PaidOnce /\ AnswersHonest
  BY DEF ReplyInv, PaidOnce, AnswersHonest, NoReply, Known
<1> QED
  BY <1>1, <1>2, <1>3 DEF IInv

-----------------------------------------------------------------------------
(* A call that is answered at once: a prepare from the row that is there,  *)
(* a commit from its stored response, or any call with an error.           *)
LEMMA AnswerIInv ==
  ASSUME IInv, NEW t \in Tasks, NEW c \in Requests, NEW r \in Replies,
         Take(t, c), Finish(t, r), UNCHANGED <<storeVars, reservations, rowLocks, paidFor>>,
         r.mutation = 0,
         r.result = "ok" =>
           \/ /\ c.op = "prepare"
              /\ Known(c.id)
              /\ r.wallet = reservations[c.id].wallet
              /\ r.price = reservations[c.id].price
           \/ /\ c.op = "commit"
              /\ r.tx \in DOMAIN paidFor
              /\ ledger[r.tx].request_id = c.key
              /\ paidFor[r.tx] = c.id
  PROVE  IInv'
<1> USE DEF Take, Finish, Goto, storeVars
<1>1. TypeOK'
  BY DEF IInv, TypeOK, NothingSeen, WalletRow, ResponsesOf, ConversionRows
<1>2. \A u \in Tasks : /\ u = t => job'[u] = c /\ reply'[u] = r /\ pc'[u] = "idle"
                       /\ u # t => /\ job'[u] = job[u]
                                   /\ reply'[u] = reply[u]
                                   /\ pc'[u] = pc[u]
                                   /\ seen'[u] = seen[u]
  BY DEF IInv, TypeOK
<1>3. JobInv'
  BY <1>2 DEF IInv, JobInv, Offered, HasRule, Price
<1>4. RowInv' /\ WalletInv'
  BY <1>2 DEF IInv, RowInv, WalletInv, Known, Mine
<1>5. KeyInv'
  BY <1>2 DEF IInv, KeyInv, KeyTaken, Fits, NewBalance, IsDebit, Mine
<1>6. HeldInv'
  BY <1>2 DEF IInv, TypeOK, RowInv, HeldInv, Known, Mine
<1>7. PriceInv' /\ ResponseInv' /\ PaidOnce'
  BY DEF IInv, PriceInv, ResponseInv, ResponsesOf, PaidOnce, Known
<1>8. ReplyInv'
  BY <1>2 DEF IInv, ReplyInv, Known, Mine
<1>9. AnswersHonest'
  BY <1>2 DEF IInv, AnswersHonest, CommitHonest, AbortHonest, PrepareHonest, Known, Price
<1> QED
  BY <1>1, <1>3, <1>4, <1>5, <1>6, <1>7, <1>8, <1>9 DEF IInv

(* A call that begins its work.                                            *)
LEMMA AwaitIInv ==
  ASSUME IInv, NEW t \in Tasks, NEW c \in Requests, NEW label,
         Await(t, c, label),
         \/ /\ label = "insert" /\ c.op = "prepare"
            /\ Offered(c) /\ Price(c) <= MaxBalance
         \/ label = "reserve" /\ c.op = "commit"
         \/ label = "abort" /\ c.op = "abort"
  PROVE  IInv'
<1> USE DEF Await, Take, Goto, storeVars
<1>1. TypeOK'
  BY ReplyTypes DEF IInv, TypeOK, ResponsesOf, ConversionRows
<1>2. \A u \in Tasks : /\ u = t => job'[u] = c /\ reply'[u] = NoReply /\ pc'[u] = label
                       /\ u # t => /\ job'[u] = job[u]
                                   /\ reply'[u] = reply[u]
                                   /\ pc'[u] = pc[u]
                       /\ seen'[u] = seen[u]
  BY DEF IInv, TypeOK
<1>3. JobInv'
  BY <1>2 DEF IInv, JobInv, Offered, HasRule, Price
<1>4. RowInv' /\ WalletInv'
  BY <1>2 DEF IInv, RowInv, WalletInv, Known, Mine
<1>5. KeyInv'
  BY <1>2 DEF IInv, KeyInv, KeyTaken, Fits, NewBalance, IsDebit, Mine
<1>6. HeldInv'
  BY <1>2 DEF IInv, TypeOK, RowInv, HeldInv, Known, Mine
<1>7. PriceInv' /\ ResponseInv' /\ PaidOnce'
  BY DEF IInv, PriceInv, ResponseInv, ResponsesOf, PaidOnce, Known
<1>8. ReplyInv'
  BY <1>2, ReplyTypes DEF IInv, ReplyInv, Known, Mine
<1>9. AnswersHonest'
  BY <1>2, ReplyTypes
     DEF IInv, AnswersHonest, CommitHonest, AbortHonest, PrepareHonest, Known, Price
<1> QED
  BY <1>1, <1>3, <1>4, <1>5, <1>6, <1>7, <1>8, <1>9 DEF IInv

-----------------------------------------------------------------------------
(* A new row: nobody has an answer about its id yet that asks for a        *)
(* mutation, since such an answer is about a row.                          *)
LEMMA InsertReservationIInv ==
  ASSUME IInv, NEW t \in Tasks, InsertReservation(t)
  PROVE  IInv'
<1> DEFINE c == job[t]
<1> USE DEF InsertReservation, Finish, Goto, storeVars
<1>1. /\ c \in Requests /\ c.op = "prepare" /\ Offered(c) /\ Price(c) <= MaxBalance
      /\ c.id \in Reservations
  BY RequestTypes DEF IInv, JobInv
<1>2. PICK r \in Replies :
        /\ Finish(t, r)
        /\ \/ r.result = "error" /\ r.mutation = 0 /\ UNCHANGED reservations
           \/ /\ ~Known(c.id)
              /\ r.wallet = NewReservation(c).wallet
              /\ r.price = NewReservation(c).price
              /\ reservations' = [i \in DOMAIN reservations \cup {c.id} |->
                   IF i = c.id THEN NewReservation(c) ELSE reservations[i]]
  BY <1>1, OfferTypes, ReplyTypes
<1>3. /\ DOMAIN reservations \subseteq DOMAIN reservations'
      /\ \A i \in DOMAIN reservations : reservations'[i] = reservations[i]
      /\ \A i \in DOMAIN reservations' :
           i \in DOMAIN reservations \/ (i = c.id /\ reservations'[i] = NewReservation(c))
  BY <1>2 DEF Known
<1>4. \A u \in Tasks : /\ job'[u] = job[u]
                       /\ u = t => reply'[u] = r /\ pc'[u] = "idle"
                       /\ u # t => /\ reply'[u] = reply[u]
                                   /\ pc'[u] = pc[u]
                                   /\ seen'[u] = seen[u]
  BY <1>2 DEF IInv, TypeOK
<1>5. TypeOK'
  <2>1. reservations' \in [DOMAIN reservations' -> Reservation]
        /\ DOMAIN reservations' \subseteq Reservations
    BY <1>1, <1>2, OfferTypes DEF IInv, TypeOK
  <2> QED
    BY <1>2, <2>1 DEF IInv, TypeOK, NothingSeen, WalletRow, ResponsesOf, ConversionRows
<1>6. JobInv'
  BY <1>4 DEF IInv, JobInv, Offered, HasRule, Price
<1>7. RowInv' /\ WalletInv'
  BY <1>3, <1>4 DEF IInv, RowInv, WalletInv, Known, Mine
<1>8. KeyInv'
  BY <1>3, <1>4 DEF IInv, RowInv, KeyInv, KeyTaken, Fits, NewBalance, IsDebit, Mine, Known
<1>9. HeldInv'
  BY <1>3, <1>4 DEF IInv, TypeOK, RowInv, HeldInv, Known, Mine
<1>10. PriceInv' /\ ResponseInv'
  BY <1>1, <1>3 DEF IInv, PriceInv, ResponseInv, ResponsesOf, NewReservation
<1>11. PaidOnce'
  BY <1>2, <1>3 DEF IInv, PaidOnce, NewReservation, Known
<1>12. ReplyInv'
  BY <1>1, <1>2, <1>3, <1>4, ReplyTypes, OfferTypes DEF IInv, ReplyInv, Known, Mine
<1>13. AnswersHonest'
  <2> SUFFICES ASSUME NEW u \in Tasks, reply'[u].result = "ok"
               PROVE  /\ job'[u].op = "commit" => CommitHonest(u)'
                      /\ job'[u].op = "abort" => AbortHonest(u)'
                      /\ job'[u].op = "prepare" => PrepareHonest(u)'
    BY DEF AnswersHonest
  <2>1. job'[u].op = "commit" => CommitHonest(u)'
    BY <1>1, <1>4 DEF IInv, AnswersHonest, CommitHonest
  <2>2. job'[u].op = "abort" => AbortHonest(u)'
    BY <1>1, <1>4 DEF IInv, AnswersHonest, AbortHonest
  <2>3. job'[u].op = "prepare" => PrepareHonest(u)'
    <3>1. CASE u = t
      <4>1. /\ ~Known(c.id) /\ Known(c.id)' /\ reservations'[c.id] = NewReservation(c)
            /\ r.wallet = NewReservation(c).wallet /\ r.price = NewReservation(c).price
        BY <1>2, <1>4, <3>1 DEF Known
      <4>2. \A w \in Tasks \ {t} :
              (reply'[w].mutation # 0 /\ job'[w].op = "prepare") => job'[w].id # c.id
        BY <1>4, <4>1 DEF IInv, ReplyInv, AnswersHonest, PrepareHonest, Known
      <4> HIDE DEF InsertReservation
      <4> QED
        BY <1>1, <1>4, <3>1, <4>1, <4>2 DEF PrepareHonest, Price, NewReservation
    <3>2. CASE u # t
      <4> HIDE DEF InsertReservation
      <4> QED
        BY <1>1, <1>2, <1>3, <1>4, <3>2
           DEF IInv, AnswersHonest, PrepareHonest, ReplyInv, Known
    <3> QED
      BY <3>1, <3>2
  <2> QED
    BY <2>1, <2>2, <2>3
<1> QED
  BY <1>5, <1>6, <1>7, <1>8, <1>9, <1>10, <1>11, <1>12, <1>13 DEF IInv

-----------------------------------------------------------------------------
(* A call that ends with its database transaction rolled back.             *)
LEMMA RollbackIInv ==
  ASSUME IInv, NEW t \in Tasks, NEW r \in {NoReply, Error}, Rollback(t, r)
  PROVE  IInv'
<1> USE DEF Rollback, Finish, Goto, Release, ReleaseLocks
<1>1. r \in Replies /\ r.result # "ok" /\ r.mutation = 0
  BY ReplyTypes
<1>2. TypeOK'
  BY <1>1 DEF IInv, TypeOK, NothingSeen, WalletRow, ResponsesOf, ConversionRows
<1>3. \A u \in Tasks : /\ job'[u] = job[u]
                       /\ u = t => reply'[u] = r /\ pc'[u] = "idle"
                       /\ u # t => /\ reply'[u] = reply[u]
                                   /\ pc'[u] = pc[u]
                                   /\ seen'[u] = seen[u]
  BY DEF IInv, TypeOK
<1>4. /\ \A i \in Reservations : rowLocks[i] # t => rowLocks'[i] = rowLocks[i]
      /\ \A x \in Wallets : locks[x] # t => locks'[x] = locks[x]
      /\ \A k \in Keys : keyLocks[k] # t => keyLocks'[k] = keyLocks[k]
  BY DEF IInv, TypeOK
<1>5. \A u \in Tasks : pc[u] # "idle" => job[u] \in Requests /\ job[u].id \in Reservations
  BY RequestTypes DEF IInv, JobInv
<1>6. JobInv'
  BY <1>3 DEF IInv, JobInv, Offered, HasRule, Price
<1>7. RowInv' /\ WalletInv'
  BY <1>3, <1>4, <1>5 DEF IInv, RowInv, WalletInv, Known, Mine
<1>8. KeyInv'
  <2> SUFFICES ASSUME NEW u \in Tasks, pc'[u] = "entries"
               PROVE  keyLocks'[job[u].key] = u /\ ~KeyTaken(job[u].key)' /\ Fits(u)'
    BY <1>3 DEF KeyInv
  <2>1. pc[u] = "entries" /\ u # t /\ seen'[u] = seen[u] /\ job[u].key \in Keys
    BY <1>3, RequestTypes DEF IInv, JobInv
  <2> QED
    BY <1>3, <1>4, <2>1 DEF IInv, KeyInv, KeyTaken, Fits, NewBalance, IsDebit, Mine
<1>9. HeldInv'
  BY <1>3 DEF IInv, TypeOK, RowInv, HeldInv, Known, Mine
<1>10. PriceInv' /\ ResponseInv' /\ PaidOnce'
  BY DEF IInv, PriceInv, ResponseInv, ResponsesOf, PaidOnce, Known
<1>11. ReplyInv'
  BY <1>1, <1>3 DEF IInv, ReplyInv, Known, Mine
<1>12. AnswersHonest'
  BY <1>1, <1>3 DEF IInv, AnswersHonest, CommitHonest, AbortHonest, PrepareHonest, Known, Price
<1> QED
  BY <1>2, <1>6, <1>7, <1>8, <1>9, <1>10, <1>11, <1>12 DEF IInv

-----------------------------------------------------------------------------
(* A reservation that nobody holds is aborted, or marked as expired.       *)
LEMMA MarkIInv ==
  ASSUME IInv, NEW t \in Tasks, NEW r \in {Error, Aborted},
         NEW status \in {"ABORTED", "EXPIRED"},
         pc[t] \in {"reserve", "abort"},
         Known(job[t].id), RowFree(job[t].id), Mine(t).status = "PREPARED",
         SetStatus(job[t].id, status), Finish(t, r),
         r = Aborted => job[t].op = "abort",
         UNCHANGED <<storeVars, rowLocks, paidFor, job>>
  PROVE  IInv'
<1> DEFINE i == job[t].id
<1> USE DEF Finish, Goto, storeVars, SetStatus
<1>1. i \in Reservations
  BY RequestTypes DEF IInv, JobInv
<1>2. /\ r \in Replies /\ r.mutation = 0
      /\ r.result = "ok" => r = Aborted
  BY ReplyTypes
<1>3. /\ DOMAIN reservations' = DOMAIN reservations
      /\ reservations[i] \in Reservation /\ reservations[i].status = "PREPARED"
      /\ reservations'[i] = [reservations[i] EXCEPT !.status = status]
      /\ \A k \in DOMAIN reservations : k # i => reservations'[k] = reservations[k]
  BY DEF IInv, TypeOK, Known, Mine
<1>4. \A k \in DOMAIN reservations :
        /\ reservations'[k].wallet = reservations[k].wallet
        /\ reservations'[k].price = reservations[k].price
        /\ reservations'[k].direction = reservations[k].direction
  BY <1>3 DEF Reservation
<1>5. reservations'[i].status = status /\ reservations'[i] \in Reservation
  BY <1>3 DEF Reservation, Statuses
<1>6. \A u \in Tasks : /\ job'[u] = job[u]
                       /\ u = t => reply'[u] = r /\ pc'[u] = "idle"
                       /\ u # t => /\ reply'[u] = reply[u]
                                   /\ pc'[u] = pc[u]
                                   /\ seen'[u] = seen[u]
  BY DEF IInv, TypeOK
<1>7. \A u \in Tasks : pc[u] \in {"wallet", "pay", "entries"} => job[u].id # i
  BY DEF IInv, RowInv, RowFree
<1>8. TypeOK'
  <2>1. reservations' \in [DOMAIN reservations' -> Reservation]
    BY <1>3, <1>5 DEF IInv, TypeOK
  <2> QED
    BY <1>2, <1>3, <2>1 DEF IInv, TypeOK, NothingSeen, WalletRow, ResponsesOf, ConversionRows
<1>9. JobInv'
  BY <1>6 DEF IInv, JobInv, Offered, HasRule, Price
<1>10. RowInv' /\ WalletInv'
  BY <1>3, <1>6, <1>7 DEF IInv, RowInv, WalletInv, Known, Mine
<1>11. KeyInv'
  <2> SUFFICES ASSUME NEW u \in Tasks, pc'[u] = "entries"
               PROVE  keyLocks'[job'[u].key] = u /\ ~KeyTaken(job[u].key)' /\ Fits(u)'
    BY DEF KeyInv
  <2>1. pc[u] = "entries" /\ u # t /\ seen'[u] = seen[u] /\ job'[u] = job[u]
    BY <1>6
  <2>2. Mine(u)' = Mine(u)
    BY <1>3, <1>7, <2>1 DEF Mine, IInv, RowInv, Known
  <2> QED
    BY <2>1, <2>2 DEF IInv, KeyInv, KeyTaken, Fits, NewBalance, IsDebit
<1>12. HeldInv'
  BY <1>3, <1>6, <1>7 DEF IInv, TypeOK, RowInv, HeldInv, Known, Mine
<1>13. PriceInv' /\ ResponseInv'
  BY <1>3, <1>4 DEF IInv, PriceInv, ResponseInv, ResponsesOf
<1>14. PaidOnce'
  BY <1>3, <1>5 DEF IInv, PaidOnce, Known
<1>15. ReplyInv'
  <2>1. \A u \in Tasks : (reply'[u].result = "ok" /\ job'[u].op = "abort") =>
          Known(job[u].id)' /\ reservations'[job'[u].id].status \in {"ABORTED", "EXPIRED"}
    BY <1>2, <1>3, <1>5, <1>6 DEF IInv, ReplyInv, Known, Mine
  <2> QED
    BY <1>2, <1>6, <2>1 DEF IInv, ReplyInv, Mine
<1>16. AnswersHonest'
  <2>1. AbortHonest(t)' \/ r # Aborted
    BY <1>3, <1>5, <1>6, <1>14 DEF PaidOnce, AbortHonest
  <2> QED
    BY <1>2, <1>3, <1>4, <1>6, <2>1
       DEF IInv, AnswersHonest, CommitHonest, AbortHonest, PrepareHonest, Known, Price
<1> QED
  BY <1>8, <1>9, <1>10, <1>11, <1>12, <1>13, <1>14, <1>15, <1>16 DEF IInv

(* An abort of what is aborted or expired already.                         *)
LEMMA AbortedIInv ==
  ASSUME IInv, NEW t \in Tasks,
         Known(job[t].id), Mine(t).status \in {"ABORTED", "EXPIRED"},
         job[t].op = "abort", Finish(t, Aborted),
         UNCHANGED <<storeVars, reservations, rowLocks, paidFor, job>>
  PROVE  IInv'
<1> USE DEF Finish, Goto, storeVars
<1>1. TypeOK'
  BY ReplyTypes DEF IInv, TypeOK, NothingSeen, WalletRow, ResponsesOf, ConversionRows
<1>2. \A u \in Tasks : /\ job'[u] = job[u]
                       /\ u = t => reply'[u] = Aborted /\ pc'[u] = "idle"
                       /\ u # t => /\ reply'[u] = reply[u]
                                   /\ pc'[u] = pc[u]
                                   /\ seen'[u] = seen[u]
  BY DEF IInv, TypeOK
<1>3. JobInv'
  BY <1>2 DEF IInv, JobInv, Offered, HasRule, Price
<1>4. RowInv' /\ WalletInv'
  BY <1>2 DEF IInv, RowInv, WalletInv, Known, Mine
<1>5. KeyInv'
  BY <1>2 DEF IInv, KeyInv, KeyTaken, Fits, NewBalance, IsDebit, Mine
<1>6. HeldInv'
  BY <1>2 DEF IInv, TypeOK, RowInv, HeldInv, Known, Mine
<1>7. PriceInv' /\ ResponseInv' /\ PaidOnce'
  BY DEF IInv, PriceInv, ResponseInv, ResponsesOf, PaidOnce, Known
<1>8. ReplyInv'
  BY <1>2, ReplyTypes DEF IInv, ReplyInv, Known, Mine
<1>9. AnswersHonest'
  <2>1. AbortHonest(t)
    BY DEF IInv, PaidOnce, AbortHonest, Mine
  <2> QED
    BY <1>2, <2>1, ReplyTypes
       DEF IInv, AnswersHonest, CommitHonest, AbortHonest, PrepareHonest, Known, Price
<1> QED
  BY <1>1, <1>3, <1>4, <1>5, <1>6, <1>7, <1>8, <1>9 DEF IInv

-----------------------------------------------------------------------------
(* The steps of a commit that take a lock: the lock was free, so nobody    *)
(* else relied on it.                                                      *)
LEMMA LockReservationIInv ==
  ASSUME IInv, NEW t \in Tasks, LockReservation(t)
  PROVE  IInv'
<1> USE DEF LockReservation, Goto, storeVars
<1>1. TypeOK'
  BY DEF IInv, TypeOK, ResponsesOf, ConversionRows
<1>2. \A u \in Tasks : /\ u = t => pc'[u] = "wallet"
                       /\ u # t => pc'[u] = pc[u]
  BY DEF IInv, TypeOK
<1>3. job[t].id \in Reservations
  BY RequestTypes DEF IInv, JobInv
<1>4. JobInv'
  BY <1>2 DEF IInv, JobInv, Offered, HasRule, Price
<1>5. RowInv'
  BY <1>2, <1>3 DEF IInv, TypeOK, RowInv, RowFree, Committable, Known, Mine
<1>6. WalletInv'
  BY <1>2 DEF IInv, WalletInv, Mine
<1>7. KeyInv'
  BY <1>2 DEF IInv, KeyInv, KeyTaken, Fits, NewBalance, IsDebit, Mine
<1>8. HeldInv'
  BY <1>2, <1>3 DEF IInv, TypeOK, RowInv, HeldInv, Known, Mine
<1>9. PriceInv' /\ ResponseInv' /\ PaidOnce' /\ ReplyInv'
  BY DEF IInv, PriceInv, ResponseInv, ResponsesOf, PaidOnce, ReplyInv, Known, Mine
<1>10. AnswersHonest'
  BY DEF IInv, AnswersHonest, CommitHonest, AbortHonest, PrepareHonest, Known, Price
<1> QED
  BY <1>1, <1>4, <1>5, <1>6, <1>7, <1>8, <1>9, <1>10 DEF IInv

LEMMA LockWalletIInv ==
  ASSUME IInv, NEW t \in Tasks, LockWallet(t)
  PROVE  IInv'
<1> USE DEF LockWallet, Goto
<1>1. TypeOK'
  BY DEF IInv, TypeOK, ResponsesOf, ConversionRows
<1>2. \A u \in Tasks : /\ u = t => pc'[u] = "pay"
                       /\ u # t => pc'[u] = pc[u] /\ seen'[u] = seen[u]
  BY DEF IInv, TypeOK
<1>3. JobInv'
  BY <1>2 DEF IInv, JobInv, Offered, HasRule, Price
<1>4. RowInv'
  BY <1>2 DEF IInv, RowInv, Known, Mine
<1>5. WalletInv'
  BY <1>2 DEF IInv, TypeOK, WalletInv, WalletFree, Mine
<1>6. KeyInv'
  <2>1. \A u \in Tasks : pc'[u] = "entries" => (pc[u] = "entries" /\ (Fits(u)' <=> Fits(u)))
    BY <1>2 DEF Fits, NewBalance, IsDebit, Mine
  <2> QED
    BY <2>1 DEF IInv, KeyInv, KeyTaken
<1>7. HeldInv'
  BY <1>2 DEF IInv, TypeOK, RowInv, HeldInv, Known, Mine
<1>8. PriceInv' /\ ResponseInv' /\ PaidOnce' /\ ReplyInv'
  BY DEF IInv, PriceInv, ResponseInv, ResponsesOf, PaidOnce, ReplyInv, Known, Mine
<1>9. AnswersHonest'
  BY DEF IInv, AnswersHonest, CommitHonest, AbortHonest, PrepareHonest, Known, Price
<1> QED
  BY <1>1, <1>3, <1>4, <1>5, <1>6, <1>7, <1>8, <1>9 DEF IInv

LEMMA InsertTransactionIInv ==
  ASSUME IInv, NEW t \in Tasks, InsertTransaction(t)
  PROVE  IInv'
<1> USE DEF InsertTransaction, Payable, Goto
<1>1. TypeOK'
  BY DEF IInv, TypeOK, ResponsesOf, ConversionRows
<1>2. \A u \in Tasks : /\ u = t => pc'[u] = "entries"
                       /\ u # t => pc'[u] = pc[u]
  BY DEF IInv, TypeOK
<1>3. JobInv'
  BY <1>2 DEF IInv, JobInv, Offered, HasRule, Price
<1>4. RowInv' /\ WalletInv'
  BY <1>2 DEF IInv, RowInv, WalletInv, Known, Mine
<1>5. KeyInv'
  <2> SUFFICES ASSUME NEW u \in Tasks, pc'[u] = "entries"
               PROVE  keyLocks'[job[u].key] = u /\ ~KeyTaken(job[u].key)' /\ Fits(u)'
    BY DEF KeyInv
  <2>1. job[u] \in Requests /\ job[u].key \in Keys
    BY <1>2, RequestTypes DEF IInv, JobInv
  <2> QED
    BY <1>2, <2>1 DEF IInv, TypeOK, KeyInv, KeyTaken, Fits, NewBalance, IsDebit, Mine
<1>6. HeldInv'
  BY <1>2 DEF IInv, TypeOK, RowInv, HeldInv, Known, Mine
<1>7. PriceInv' /\ ResponseInv' /\ PaidOnce' /\ ReplyInv'
  BY DEF IInv, PriceInv, ResponseInv, ResponsesOf, PaidOnce, ReplyInv, Known, Mine
<1>8. AnswersHonest'
  BY DEF IInv, AnswersHonest, CommitHonest, AbortHonest, PrepareHonest, Known, Price
<1> QED
  BY <1>1, <1>3, <1>4, <1>5, <1>6, <1>7, <1>8 DEF IInv

-----------------------------------------------------------------------------
(* What a committing task knows: the row is its own and unpaid, the wallet *)
(* is as it has read it, and the sum is in range.                          *)
LEMMA CommitFacts ==
  ASSUME IInv, NEW t \in Tasks, pc[t] = "entries"
  PROVE  /\ job[t] \in Requests /\ job[t].op = "commit"
         /\ job[t].id \in DOMAIN reservations /\ job[t].id \in Reservations
         /\ job[t].key \in Keys /\ keyLocks[job[t].key] = t /\ ~KeyTaken(job[t].key)
         /\ rowLocks[job[t].id] = t
         /\ Mine(t) \in Reservation /\ Mine(t).status = "PREPARED"
         /\ Mine(t).price \in 0..MaxBalance
         /\ Mine(t).wallet \in Wallets /\ locks[Mine(t).wallet] = t
         /\ seen[t] = wallets[Mine(t).wallet]
         /\ wallets[Mine(t).wallet] \in WalletRow
         /\ ~IsDebit(t)
         /\ NewBalance(t) = wallets[Mine(t).wallet].balance + Mine(t).price
         /\ NewBalance(t) \in 0..MaxBalance
<1>1. job[t] \in Requests /\ job[t].op = "commit" /\ job[t].id \in Reservations /\ job[t].key \in Keys
  BY RequestTypes DEF IInv, JobInv
<1>2. /\ job[t].id \in DOMAIN reservations
      /\ rowLocks[job[t].id] = t /\ Mine(t).status = "PREPARED"
  BY DEF IInv, RowInv, Known
<1>3. Mine(t) \in Reservation /\ Mine(t).price \in 0..MaxBalance /\ ~IsDebit(t)
  BY <1>2 DEF IInv, TypeOK, PriceInv, Mine, Reservation, IsDebit
<1>4. /\ Mine(t).wallet \in Wallets /\ locks[Mine(t).wallet] = t
      /\ seen[t] = wallets[Mine(t).wallet]
  BY DEF IInv, WalletInv
<1>5. wallets[Mine(t).wallet] \in WalletRow
  BY <1>4 DEF IInv, TypeOK
<1>6. keyLocks[job[t].key] = t /\ ~KeyTaken(job[t].key) /\ NewBalance(t) \in 0..MaxBalance
  BY DEF IInv, KeyInv, Fits
<1>7. NewBalance(t) = wallets[Mine(t).wallet].balance + Mine(t).price
  BY <1>3, <1>4 DEF NewBalance
<1> QED
  BY <1>1, <1>2, <1>3, <1>4, <1>5, <1>6, <1>7

(* The COMMIT of a conversion.                                             *)
LEMMA CommitIInv ==
  ASSUME IInv, NEW t \in Tasks, CommitConversion(t)
  PROVE  IInv'
<1> DEFINE i == job[t].id
           x == Mine(t).wallet
           n == Len(ledger) + 1
           row == [request_id |-> job[t].key, tx_type |-> "RESOURCE_CONVERSION",
                   source |-> SystemWallet, dest |-> x, amount |-> Mine(t).price]
           done == [request_id |-> job[t].key, operation_type |-> "RESOURCE_CONVERSION",
                    fingerprint |-> CommitFingerprint(job[t]), tx |-> n]
<1>1. pc[t] = "entries" /\ SystemWallet \in Wallets /\ Mine(t).price # 0
  BY DEF CommitConversion
<1>2. /\ job[t] \in Requests /\ job[t].op = "commit"
      /\ i \in DOMAIN reservations /\ i \in Reservations
      /\ job[t].key \in Keys /\ keyLocks[job[t].key] = t /\ ~KeyTaken(job[t].key)
      /\ rowLocks[i] = t /\ Mine(t).status = "PREPARED" /\ Mine(t).price \in 1..MaxBalance
      /\ Mine(t) \in Reservation /\ Mine(t) = reservations[i]
      /\ x \in Wallets /\ locks[x] = t /\ seen[t] = wallets[x]
      /\ wallets[x] \in WalletRow /\ ~IsDebit(t) /\ NewBalance(t) \in 0..MaxBalance
  BY <1>1, CommitFacts DEF Mine
<1>3. ledger \in Seq(LedgerRow) /\ n \in Nat /\ n \notin DOMAIN ledger
  BY DEF IInv, TypeOK
<1>4. row \in LedgerRow
  BY <1>1, <1>2 DEF LedgerRow
<1>5. /\ ledger' = Append(ledger, row)
      /\ processed' = processed \cup {done}
      /\ paidFor' = [m \in DOMAIN paidFor \cup {n} |-> IF m = n THEN i ELSE paidFor[m]]
      /\ reservations' = [reservations EXCEPT ![i].status = "COMMITTED"]
      /\ wallets' = [wallets EXCEPT
           ![x] = [balance |-> NewBalance(t), revision |-> seen[t].revision + 1]]
      /\ Release(t) /\ Finish(t, Paid(n)) /\ job' = job
  BY <1>2 DEF CommitConversion, SetStatus
<1>6. /\ DOMAIN ledger' = DOMAIN ledger \cup {n}
      /\ \A m \in DOMAIN ledger : ledger'[m] = ledger[m]
      /\ ledger'[n] = row
      /\ ledger' \in Seq(LedgerRow)
  BY <1>3, <1>4, <1>5
<1>7. DOMAIN paidFor = ConversionRows /\ ConversionRows \subseteq DOMAIN ledger
  BY DEF IInv, TypeOK, ResponsesOf, ConversionRows
<1>8. /\ DOMAIN paidFor' = DOMAIN paidFor \cup {n}
      /\ \A m \in DOMAIN paidFor : m # n /\ paidFor'[m] = paidFor[m]
      /\ paidFor'[n] = i
  BY <1>3, <1>5, <1>7
<1>9. /\ DOMAIN reservations' = DOMAIN reservations
      /\ reservations'[i].status = "COMMITTED" /\ reservations'[i] \in Reservation
      /\ reservations'[i].wallet = reservations[i].wallet
      /\ reservations'[i].price = reservations[i].price
      /\ \A k \in DOMAIN reservations : k # i => reservations'[k] = reservations[k]
  BY <1>2, <1>5 DEF Reservation, Statuses
<1>10. \A u \in Tasks : /\ job'[u] = job[u]
                        /\ u = t => reply'[u] = Paid(n) /\ pc'[u] = "idle"
                        /\ u # t => /\ reply'[u] = reply[u]
                                    /\ pc'[u] = pc[u]
                                    /\ seen'[u] = seen[u]
  BY <1>5 DEF IInv, TypeOK, Finish, Goto
<1>11. /\ \A k \in Reservations : rowLocks[k] # t => rowLocks'[k] = rowLocks[k]
       /\ \A y \in Wallets : locks[y] # t => locks'[y] = locks[y] /\ wallets'[y] = wallets[y]
       /\ \A k \in Keys : keyLocks[k] # t => keyLocks'[k] = keyLocks[k]
  BY <1>2, <1>5 DEF IInv, TypeOK, Release, ReleaseLocks
<1>12. \A u \in Tasks : pc'[u] \in {"wallet", "pay", "entries"} =>
         /\ u # t
         /\ job[u].id \in Reservations /\ job[u].key \in Keys
         /\ Known(job[u].id) /\ rowLocks[job[u].id] = u /\ job[u].id # i
         /\ Mine(u)' = Mine(u)
  <2> SUFFICES ASSUME NEW u \in Tasks, pc'[u] \in {"wallet", "pay", "entries"}
               PROVE  /\ u # t
                      /\ job[u].id \in Reservations /\ job[u].key \in Keys
                      /\ Known(job[u].id) /\ rowLocks[job[u].id] = u /\ job[u].id # i
                      /\ Mine(u)' = Mine(u)
    OBVIOUS
  <2>1. u # t /\ pc[u] \in {"wallet", "pay", "entries"}
    BY <1>10
  <2>2. job[u].id \in Reservations /\ job[u].key \in Keys
    BY <2>1, RequestTypes DEF IInv, JobInv
  <2>3. Known(job[u].id) /\ rowLocks[job[u].id] = u /\ job[u].id # i
    BY <1>2, <2>1 DEF IInv, RowInv
  <2> QED
    BY <1>9, <1>10, <2>1, <2>2, <2>3 DEF Mine, Known
<1>13. TypeOK'
  <2>1. wallets' \in [Wallets -> WalletRow]
    BY SMTT(30), <1>2, <1>5 DEF IInv, TypeOK, WalletRow
  <2>2. ResponsesOf("RESOURCE_CONVERSION")' \subseteq
          [request_id : Keys, operation_type : {"RESOURCE_CONVERSION"},
           fingerprint : ConversionFingerprints, tx : Nat]
    BY <1>2, <1>3, <1>5 DEF IInv, TypeOK, ResponsesOf, CommitFingerprint, ConversionFingerprints
  <2>3. locks' \in [Wallets -> Owners \cup {NoOwner}]
        /\ keyLocks' \in [Keys -> Owners \cup {NoOwner}]
        /\ rowLocks' \in [Reservations -> Tasks \cup {NoOwner}]
    BY <1>5 DEF IInv, TypeOK, Release, ReleaseLocks
  <2>4. DOMAIN reservations' \subseteq Reservations
        /\ reservations' \in [DOMAIN reservations' -> Reservation]
    BY <1>5, <1>9 DEF IInv, TypeOK
  <2>5. ConversionRows' = ConversionRows \cup {n}
    BY <1>3, <1>6 DEF ConversionRows
  <2>6. paidFor' \in [ConversionRows' -> Reservations]
    BY <1>2, <1>5, <1>7, <1>8, <2>5 DEF IInv, TypeOK
  <2>7. /\ pc' \in [Tasks -> {"idle", "insert", "reserve", "wallet", "pay", "entries", "abort"}]
        /\ job' \in [Tasks -> Requests \cup {NoJob}]
        /\ seen' \in [Tasks -> WalletRow]
        /\ reply' \in [Tasks -> Replies]
    BY <1>3, <1>5, ReplyTypes DEF IInv, TypeOK, Finish, Goto, NothingSeen, WalletRow
  <2> QED
    BY <1>6, <2>1, <2>2, <2>3, <2>4, <2>6, <2>7 DEF TypeOK
<1>14. JobInv'
  BY SMTT(30), <1>10 DEF IInv, JobInv, Offered, HasRule, Price
<1>15. RowInv'
  BY <1>9, <1>10, <1>11, <1>12 DEF IInv, RowInv, Known
<1>16. WalletInv'
  BY <1>10, <1>11, <1>12 DEF IInv, WalletInv
<1>17. KeyInv'
  <2> SUFFICES ASSUME NEW u \in Tasks, pc'[u] = "entries"
               PROVE  keyLocks'[job[u].key] = u /\ ~KeyTaken(job[u].key)' /\ Fits(u)'
    BY <1>10 DEF KeyInv
  <2>1. u # t /\ pc[u] = "entries" /\ seen'[u] = seen[u] /\ job[u].key \in Keys
        /\ Mine(u)' = Mine(u)
    BY <1>10, <1>12
  <2>2. keyLocks[job[u].key] = u /\ ~KeyTaken(job[u].key) /\ Fits(u) /\ job[u].key # job[t].key
    BY <1>2, <2>1 DEF IInv, KeyInv
  <2>3. ~KeyTaken(job[u].key)'
    BY <1>5, <1>6, <1>10, <2>2 DEF KeyTaken
  <2>4. Fits(u)'
    BY <2>1, <2>2 DEF Fits, NewBalance, IsDebit
  <2> QED
    BY <1>11, <2>1, <2>2, <2>3, <2>4
<1>18. HeldInv'
  <2> SUFFICES ASSUME NEW u \in Tasks
               PROVE  /\ \A k \in Reservations : rowLocks'[k] = u =>
                           pc'[u] \in {"wallet", "pay", "entries"} /\ k = job'[u].id
                      /\ \A y \in Wallets : locks'[y] = u =>
                           pc'[u] \in {"pay", "entries"} /\ y = Mine(u)'.wallet
                      /\ \A k \in Keys : keyLocks'[k] = u => pc'[u] = "entries" /\ k = job'[u].key
    BY DEF HeldInv
  <2>1. /\ \A k \in Reservations : rowLocks'[k] = u => rowLocks[k] = u /\ u # t
        /\ \A y \in Wallets : locks'[y] = u => locks[y] = u /\ u # t
        /\ \A k \in Keys : keyLocks'[k] = u => keyLocks[k] = u /\ u # t
    BY <1>5 DEF IInv, TypeOK, Release, ReleaseLocks
  <2>2. u # t => /\ pc'[u] = pc[u] /\ job'[u] = job[u]
                 /\ pc[u] \in {"pay", "entries"} => Mine(u)' = Mine(u)
    BY <1>10, <1>12
  <2> QED
    BY <2>1, <2>2 DEF IInv, HeldInv
<1>19. PriceInv'
  BY <1>9 DEF IInv, PriceInv
<1>20. ResponseInv'
  BY <1>5, <1>6, <1>7, <1>8 DEF IInv, ResponseInv, ResponsesOf, CommitFingerprint
<1>21. PaidOnce'
  <2>1. \A m \in DOMAIN paidFor : paidFor[m] # i
    BY <1>2 DEF IInv, PaidOnce
  <2> QED
    BY <1>2, <1>8, <1>9, <2>1 DEF IInv, PaidOnce, Known
<1>22. ReplyInv'
  <2> SUFFICES ASSUME NEW u \in Tasks
               PROVE  /\ reply'[u].mutation # 0 => reply'[u].result = "ok" /\ job[u].op = "prepare"
                      /\ (reply'[u].result = "ok" /\ job[u].op = "abort") =>
                           /\ job[u].id \in DOMAIN reservations'
                           /\ reservations'[job[u].id].status \in {"ABORTED", "EXPIRED"}
    BY <1>10 DEF ReplyInv, Known, Mine
  <2>1. CASE u = t
    BY <1>2, <1>3, <1>10, <2>1, ReplyTypes
  <2>2. CASE u # t
    <3>1. /\ reply[u].mutation # 0 => reply[u].result = "ok" /\ job[u].op = "prepare"
          /\ (reply[u].result = "ok" /\ job[u].op = "abort") =>
               /\ job[u].id \in DOMAIN reservations
               /\ reservations[job[u].id].status \in {"ABORTED", "EXPIRED"}
      BY DEF IInv, ReplyInv, Known, Mine
    <3>2. reservations[i].status = "PREPARED" /\ reply'[u] = reply[u]
      BY <1>2, <1>10, <2>2
    <3> QED
      BY <1>9, <3>1, <3>2
  <2> QED
    BY <2>1, <2>2
<1>23. AnswersHonest'
  <2> SUFFICES ASSUME NEW u \in Tasks, reply'[u].result = "ok"
               PROVE  /\ job[u].op = "commit" => CommitHonest(u)'
                      /\ job[u].op = "abort" => AbortHonest(u)'
                      /\ job[u].op = "prepare" => PrepareHonest(u)'
    BY <1>10 DEF AnswersHonest
  <2>1. CASE u = t
    BY <1>2, <1>3, <1>6, <1>8, <1>10, <2>1, ReplyTypes DEF CommitHonest
  <2>2. CASE u # t
    <3>1. reply'[u] = reply[u] /\ job'[u] = job[u] /\ reply[u].result = "ok"
      BY <1>10, <2>2
    <3>2. job[u].op = "commit" => CommitHonest(u)'
      BY <1>6, <1>7, <1>8, <3>1 DEF IInv, AnswersHonest, CommitHonest
    <3>3. job[u].op = "abort" => AbortHonest(u)'
      BY SMTT(30), <1>2, <1>8, <3>1 DEF IInv, AnswersHonest, AbortHonest, ReplyInv, Mine
    <3>4. job[u].op = "prepare" => PrepareHonest(u)'
      <4>1. reply'[t].mutation = 0
        BY <1>3, <1>10, ReplyTypes
      <4>2. job[u].op = "prepare" => PrepareHonest(u)
        BY <3>1 DEF IInv, AnswersHonest
      <4>3. \A v \in Tasks : job'[v] = job[v] /\ (v # t => reply'[v] = reply[v])
        BY <1>10
      <4>4. Known(job[u].id) => /\ Known(job[u].id)'
                                /\ reservations'[job[u].id].wallet = reservations[job[u].id].wallet
                                /\ reservations'[job[u].id].price = reservations[job[u].id].price
        BY <1>9, <3>1 DEF Known
      <4> QED
        BY <3>1, <4>1, <4>2, <4>3, <4>4 DEF PrepareHonest, Known, Price
    <3> QED
      BY <3>2, <3>3, <3>4
  <2> QED
    BY <2>1, <2>2
<1> QED
  BY <1>13, <1>14, <1>15, <1>16, <1>17, <1>18, <1>19, <1>20, <1>21, <1>22, <1>23 DEF IInv

-----------------------------------------------------------------------------
(* The clock, and the cleanup, which only forgets stored responses.        *)
LEMMA LapsedReservation ==
  ASSUME NEW r \in Reservation, NEW s, s = [r EXCEPT !.lapsed = TRUE]
  PROVE  /\ s \in Reservation
         /\ s.status = r.status /\ s.wallet = r.wallet
         /\ s.price = r.price /\ s.direction = r.direction
<1>1. s = [status |-> r.status, wallet |-> r.wallet, price |-> r.price,
           direction |-> r.direction, asked |-> r.asked, lapsed |-> TRUE]
  BY DEF Reservation
<1> QED
  BY <1>1 DEF Reservation

LEMMA LapseIInv ==
  ASSUME IInv, Lapse
  PROVE  IInv'
<1> USE DEF Lapse, storeVars, taskVars
<1>1. PICK i \in DOMAIN reservations :
        /\ reservations' = [reservations EXCEPT ![i].lapsed = TRUE]
        /\ UNCHANGED <<wallets, ledger, processed, locks, keyLocks, rowLocks, paidFor>>
        /\ UNCHANGED <<pc, job, seen, reply>>
  OBVIOUS
<1>2. /\ DOMAIN reservations' = DOMAIN reservations
      /\ \A k \in DOMAIN reservations :
           /\ reservations'[k] \in Reservation
           /\ reservations'[k].status = reservations[k].status
           /\ reservations'[k].wallet = reservations[k].wallet
           /\ reservations'[k].price = reservations[k].price
           /\ reservations'[k].direction = reservations[k].direction
  <2>1. reservations \in [DOMAIN reservations -> Reservation]
    BY DEF IInv, TypeOK
  <2>2. reservations'[i] = [reservations[i] EXCEPT !.lapsed = TRUE]
    BY <1>1
  <2>3. /\ reservations'[i] \in Reservation
        /\ reservations'[i].status = reservations[i].status
        /\ reservations'[i].wallet = reservations[i].wallet
        /\ reservations'[i].price = reservations[i].price
        /\ reservations'[i].direction = reservations[i].direction
    BY <2>1, <2>2, LapsedReservation
  <2> QED
    BY <1>1, <2>1, <2>3
<1>3. TypeOK'
  <2>1. reservations' \in [DOMAIN reservations' -> Reservation]
    BY <1>1, <1>2
  <2> QED
    BY <1>1, <1>2, <2>1 DEF IInv, TypeOK, ResponsesOf, ConversionRows
<1>4. JobInv'
  BY DEF IInv, JobInv, Offered, HasRule, Price
<1>5. RowInv' /\ WalletInv'
  BY <1>2 DEF IInv, RowInv, WalletInv, Known, Mine
<1>6. KeyInv'
  BY <1>2 DEF IInv, RowInv, KeyInv, KeyTaken, Fits, NewBalance, IsDebit, Known, Mine
<1>7. HeldInv'
  BY <1>2 DEF IInv, TypeOK, RowInv, HeldInv, Known, Mine
<1>8. PriceInv' /\ ResponseInv' /\ PaidOnce' /\ ReplyInv'
  BY <1>2 DEF IInv, PriceInv, ResponseInv, ResponsesOf, PaidOnce, ReplyInv, Known, Mine
<1>9. AnswersHonest'
  BY <1>2 DEF IInv, AnswersHonest, CommitHonest, AbortHonest, PrepareHonest, Known, Price
<1> QED
  BY <1>3, <1>4, <1>5, <1>6, <1>7, <1>8, <1>9 DEF IInv

LEMMA CleanupIInv ==
  ASSUME IInv, CleanupProcessed, UNCHANGED <<reservations, rowLocks, paidFor, taskVars>>
  PROVE  IInv'
<1> USE DEF CleanupProcessed, taskVars
<1>1. TypeOK' /\ ResponseInv'
  BY DEF IInv, TypeOK, ResponsesOf, ConversionRows, ResponseInv
<1>2. JobInv' /\ RowInv' /\ WalletInv' /\ PriceInv' /\ ReplyInv' /\ PaidOnce'
  BY DEF IInv, JobInv, RowInv, WalletInv, PriceInv, ReplyInv, PaidOnce, Offered, HasRule, Price,
         Known, Mine
<1>3. KeyInv'
  BY DEF IInv, KeyInv, KeyTaken, Fits, NewBalance, IsDebit, Mine
<1>4. HeldInv'
  BY DEF IInv, TypeOK, RowInv, HeldInv, Known, Mine
<1>5. AnswersHonest'
  BY DEF IInv, AnswersHonest, CommitHonest, AbortHonest, PrepareHonest, Known, Price
<1> QED
  BY <1>1, <1>2, <1>3, <1>4, <1>5 DEF IInv

LEMMA StutterIInv ==
  ASSUME IInv, UNCHANGED vars
  PROVE  IInv'
<1> USE DEF vars, storeVars, taskVars
<1>1. TypeOK' /\ ResponseInv'
  BY DEF IInv, TypeOK, ResponsesOf, ConversionRows, ResponseInv
<1>2. JobInv' /\ RowInv' /\ WalletInv' /\ PriceInv' /\ ReplyInv' /\ PaidOnce'
  BY DEF IInv, JobInv, RowInv, WalletInv, PriceInv, ReplyInv, PaidOnce, Offered, HasRule, Price,
         Known, Mine
<1>3. KeyInv'
  BY DEF IInv, KeyInv, KeyTaken, Fits, NewBalance, IsDebit, Mine
<1>4. HeldInv'
  BY DEF IInv, TypeOK, RowInv, HeldInv, Known, Mine
<1>5. AnswersHonest'
  BY DEF IInv, AnswersHonest, CommitHonest, AbortHonest, PrepareHonest, Known, Price
<1> QED
  BY <1>1, <1>2, <1>3, <1>4, <1>5 DEF IInv

-----------------------------------------------------------------------------
(* A call is answered at once, or begins.                                  *)
LEMMA ReceiveIInv ==
  ASSUME IInv, NEW t \in Tasks, NEW c \in Requests, Receive(t, c)
  PROVE  IInv'
<1>1. CASE AnswerPrepare(t, c)
  <2>1. PICK r \in Replies :
          /\ Finish(t, r)
          /\ r.mutation = 0
          /\ r.result = "ok" => /\ Known(c.id)
                                /\ r.wallet = reservations[c.id].wallet
                                /\ r.price = reservations[c.id].price
    <3>1. Known(c.id) => reservations[c.id] \in Reservation
      BY DEF IInv, TypeOK, Known
    <3> QED
      BY <1>1, <3>1, ReplyTypes DEF AnswerPrepare
  <2> QED
    BY <1>1, <2>1, AnswerIInv DEF AnswerPrepare
<1>2. CASE AnswerProcessed(t, c)
  <2>1. PICK p \in processed :
          /\ p.request_id = c.key
          /\ Finish(t, IF SameCommit(p, c) THEN Paid(p.tx) ELSE Error)
    BY <1>2 DEF AnswerProcessed
  <2>2. CASE SameCommit(p, c)
    <3>1. /\ p \in ResponsesOf("RESOURCE_CONVERSION") /\ p.tx \in Nat
          /\ p.fingerprint = <<"COMMIT", c.id>>
      BY <2>2 DEF IInv, TypeOK, ResponsesOf, SameCommit, CommitFingerprint
    <3>2. p.tx \in DOMAIN paidFor /\ ledger[p.tx].request_id = c.key /\ paidFor[p.tx] = c.id
      BY <2>1, <3>1 DEF IInv, ResponseInv
    <3> QED
      BY <1>2, <2>1, <2>2, <3>1, <3>2, ReplyTypes, AnswerIInv DEF AnswerProcessed
  <2>3. CASE ~SameCommit(p, c)
    BY <1>2, <2>1, <2>3, ReplyTypes, AnswerIInv DEF AnswerProcessed
  <2> QED
    BY <2>2, <2>3
<1>3. CASE BeginPrepare(t, c) \/ BeginCommit(t, c) \/ BeginAbort(t, c)
  BY <1>3, AwaitIInv DEF BeginPrepare, BeginCommit, BeginAbort
<1> QED
  BY <1>1, <1>2, <1>3 DEF Receive

(* What a step of a task does.                                             *)
LEMMA TaskStepIInv ==
  ASSUME IInv, NEW t \in Tasks, TaskStep(t) \/ Crash(t)
  PROVE  IInv'
<1>1. CASE \E r \in {NoReply, Error} : Rollback(t, r)
  BY <1>1, RollbackIInv
<1>2. CASE ExpireReservation(t)
  BY <1>2, MarkIInv, ReplyTypes DEF ExpireReservation, Committable
<1>3. CASE AbortReservation(t)
  <2>1. pc[t] = "abort" /\ job[t].op = "abort"
    BY <1>3 DEF AbortReservation, IInv, JobInv
  <2> QED
    BY <1>3, <2>1, MarkIInv, AbortedIInv DEF AbortReservation, Abortable
<1>4. CASE InsertReservation(t)
  BY <1>4, InsertReservationIInv
<1>5. CASE LockReservation(t) \/ LockWallet(t) \/ InsertTransaction(t) \/ CommitConversion(t)
  BY <1>5, LockReservationIInv, LockWalletIInv, InsertTransactionIInv, CommitIInv
<1>6. \/ \E r \in {NoReply, Error} : Rollback(t, r)
      \/ ExpireReservation(t) \/ AbortReservation(t) \/ InsertReservation(t)
      \/ LockReservation(t) \/ LockWallet(t) \/ InsertTransaction(t) \/ CommitConversion(t)
  BY DEF TaskStep, Crash, RejectReservation, RejectWallet, RejectMoney, RejectDuplicate,
         RejectEntries, RejectAbort
<1> QED
  BY <1>1, <1>2, <1>3, <1>4, <1>5, <1>6

(* Every step keeps the invariant.                                         *)
LEMMA NextIInv == IInv /\ [Next]_vars => IInv'
  BY ReceiveIInv, TaskStepIInv, LapseIInv, CleanupIInv, StutterIInv DEF Next

(* The inductive invariant: which rows and keys a task holds, that what it *)
(* has read of them is current, and what stands behind every answer.       *)
THEOREM Invariance == Spec => []IInv
  BY InitIInv, NextIInv, PTL DEF Spec

(* Of all the steps only a commit touches the wallets and the ledger, and  *)
(* a reservation stays its player's whatever becomes of it.                *)
LEMMA OnlyCommitsWrite ==
  ASSUME Next
  PROVE  UNCHANGED <<wallets, ledger, paidFor>> \/ \E t \in Tasks : CommitConversion(t)
<1>1. ASSUME NEW t \in Tasks, TaskStep(t) \/ Crash(t)
      PROVE  UNCHANGED <<wallets, ledger, paidFor>> \/ CommitConversion(t)
  BY <1>1 DEF TaskStep, Crash, Rollback, InsertReservation, RejectReservation, ExpireReservation,
              LockReservation, RejectWallet, LockWallet, RejectMoney, RejectDuplicate,
              InsertTransaction, RejectEntries, RejectAbort, AbortReservation, storeVars
<1>2. ASSUME NEW t \in Tasks, NEW c \in Requests, Receive(t, c)
      PROVE  UNCHANGED <<wallets, ledger, paidFor>>
  BY <1>2 DEF Receive, AnswerPrepare, BeginPrepare, AnswerProcessed, BeginCommit, BeginAbort, Await,
              storeVars
<1> QED
  BY <1>1, <1>2 DEF Next, Lapse, CleanupProcessed, storeVars

LEMMA OwnersKept ==
  ASSUME IInv, Next, NEW i \in DOMAIN reservations
  PROVE  i \in DOMAIN reservations' /\ reservations'[i].wallet = reservations[i].wallet
<1>1. reservations[i] \in Reservation
  BY DEF IInv, TypeOK
<1>2. CASE reservations' = reservations
  BY <1>2
<1>3. CASE \E k, status : SetStatus(k, status)
  BY <1>1, <1>3 DEF SetStatus, Reservation
<1>4. CASE Lapse
  BY <1>1, <1>4 DEF Lapse, Reservation
<1>5. ASSUME NEW t \in Tasks, TaskStep(t) \/ Crash(t)
      PROVE  \/ reservations' = reservations
             \/ \E k, status : SetStatus(k, status)
             \/ InsertReservation(t)
  BY <1>5 DEF TaskStep, Crash, Rollback, RejectReservation, ExpireReservation,
              LockReservation, RejectWallet, LockWallet, RejectMoney, RejectDuplicate,
              InsertTransaction, RejectEntries, CommitConversion, RejectAbort, AbortReservation
<1>6. ASSUME NEW t \in Tasks, InsertReservation(t)
      PROVE  i \in DOMAIN reservations' /\ reservations'[i] = reservations[i]
  BY <1>6 DEF InsertReservation, Known
<1>7. ASSUME NEW t \in Tasks, NEW c \in Requests, Receive(t, c)
      PROVE  reservations' = reservations
  BY <1>7 DEF Receive, AnswerPrepare, BeginPrepare, AnswerProcessed, BeginCommit, BeginAbort, Await
<1> QED
  BY <1>2, <1>3, <1>4, <1>5, <1>6, <1>7 DEF Next

-----------------------------------------------------------------------------
(* Conversions next to other tasks over the same tables: a step of another *)
(* kind of task keeps the invariant, too, and a step of a conversion is    *)
(* one that the others can put up with.                                    *)
LEMMA InterferenceIInv ==
  ASSUME IInv, Interference(Tasks, "RESOURCE_CONVERSION"),
         UNCHANGED <<reservations, rowLocks, paidFor, taskVars>>
  PROVE  IInv'
<1> USE DEF taskVars
<1>1. /\ locks' \in [Wallets -> Owners \cup {NoOwner}]
      /\ keyLocks' \in [Keys -> Owners \cup {NoOwner}]
      /\ wallets' \in [Wallets -> WalletRow]
      /\ \A t \in Tasks, x \in Wallets :
           /\ locks'[x] = t <=> locks[x] = t
           /\ locks[x] = t => wallets'[x] = wallets[x]
      /\ \A t \in Tasks, k \in Keys : keyLocks'[k] = t <=> keyLocks[k] = t
  BY DEF Interference, LocksKept
<1>2. /\ ledger' \in Seq(LedgerRow)
      /\ \A n \in DOMAIN ledger : ledger'[n] = ledger[n]
      /\ ConversionRows' = ConversionRows
      /\ ResponsesOf("RESOURCE_CONVERSION")' \subseteq ResponsesOf("RESOURCE_CONVERSION")
      /\ \A t \in Tasks, k \in Keys : keyLocks[k] = t /\ ~KeyTaken(k) => ~KeyTaken(k)'
  <2>1. CASE ledger' = ledger /\ processed' \subseteq processed
    BY <2>1 DEF IInv, TypeOK, ConversionRows, ResponsesOf, KeyTaken
  <2>2. CASE ForeignCommit(Tasks, "RESOURCE_CONVERSION")
    <3>1. PICK row \in LedgerRow :
            /\ row.tx_type # "RESOURCE_CONVERSION"
            /\ keyLocks[row.request_id] \notin Tasks
            /\ ledger' = Append(ledger, row)
            /\ \A p \in processed' \ processed :
                 p.operation_type # "RESOURCE_CONVERSION" /\ p.request_id = row.request_id
      BY <2>2 DEF ForeignCommit
    <3>2. /\ ledger' \in Seq(LedgerRow)
          /\ DOMAIN ledger' = DOMAIN ledger \cup {Len(ledger) + 1}
          /\ \A n \in DOMAIN ledger : ledger'[n] = ledger[n]
          /\ ledger'[Len(ledger) + 1] = row
      BY <3>1 DEF IInv, TypeOK
    <3>3. ConversionRows' = ConversionRows
      BY <3>1, <3>2 DEF ConversionRows
    <3>4. \A k : k # row.request_id /\ ~KeyTaken(k) => ~KeyTaken(k)'
      BY <3>1, <3>2 DEF KeyTaken
    <3> QED
      BY <3>1, <3>2, <3>3, <3>4 DEF ResponsesOf
  <2> QED
    BY <2>1, <2>2 DEF Interference
<1>3. DOMAIN paidFor \subseteq DOMAIN ledger
  BY DEF IInv, TypeOK, ConversionRows
<1>4. TypeOK'
  BY <1>1, <1>2 DEF IInv, TypeOK
<1>5. JobInv' /\ RowInv' /\ PriceInv' /\ ReplyInv' /\ PaidOnce'
  BY DEF IInv, JobInv, RowInv, PriceInv, ReplyInv, PaidOnce, Offered, HasRule, Price, Known, Mine
<1>6. WalletInv'
  BY <1>1 DEF IInv, WalletInv, Mine
<1>7. KeyInv'
  <2> SUFFICES ASSUME NEW t \in Tasks, pc[t] = "entries"
               PROVE  keyLocks'[job[t].key] = t /\ ~KeyTaken(job[t].key)' /\ Fits(t)'
    BY DEF KeyInv
  <2>1. job[t].key \in Keys
    BY RequestTypes DEF IInv, JobInv
  <2> QED
    BY <1>1, <1>2, <2>1 DEF IInv, KeyInv, Fits, NewBalance, IsDebit, Mine
<1>8. HeldInv'
  BY <1>1 DEF IInv, HeldInv, Mine
<1>9. ResponseInv'
  BY <1>2, <1>3 DEF IInv, ResponseInv
<1>10. AnswersHonest'
  BY <1>2, <1>3 DEF IInv, AnswersHonest, CommitHonest, AbortHonest, PrepareHonest, Known, Price
<1> QED
  BY <1>4, <1>5, <1>6, <1>7, <1>8, <1>9, <1>10 DEF IInv

(* Locks are taken when they are free, and given back by their owner.      *)
LEMMA ReleaseKept ==
  ASSUME TypeOK, NEW t \in Tasks, ReleaseLocks(t), NEW others, t \notin others, NoOwner \notin others
  PROVE  LocksKept(others)
  BY DEF TypeOK, ReleaseLocks, LocksKept

(* A conversion's commit is a foreign one to the others, and so on: no     *)
(* step of a conversion takes from another task what that task relies on.  *)
LEMMA StepInterference ==
  ASSUME IInv, Next, NEW others \in SUBSET Owners, others \cap Tasks = {}
  PROVE  Interference(others, "PLAYER_TRANSFER")
<1>1. wallets \in [Wallets -> WalletRow]
  BY DEF IInv, TypeOK
<1>2. CASE UNCHANGED <<wallets, ledger, locks, keyLocks>> /\ processed' \subseteq processed
  BY <1>1, <1>2 DEF IInv, TypeOK, Interference, LocksKept
<1>3. ASSUME NEW t \in Tasks, LockWallet(t) \/ InsertTransaction(t)
      PROVE  Interference(others, "PLAYER_TRANSFER")
  <2>1. t \in Owners /\ t \notin others /\ NoOwner \notin others
    OBVIOUS
  <2>2. CASE LockWallet(t)
    <3>1. LocksKept(others)
      BY <2>1, <2>2 DEF IInv, TypeOK, LockWallet, WalletFree, LocksKept
    <3> QED
      BY <1>1, <2>2, <3>1 DEF LockWallet, Interference
  <2>3. CASE InsertTransaction(t)
    <3>1. job[t].key \in Keys
      BY <2>3, RequestTypes DEF InsertTransaction, Payable, IInv, JobInv
    <3>2. LocksKept(others)
      BY <2>1, <2>3, <3>1 DEF IInv, TypeOK, InsertTransaction, LocksKept
    <3> QED
      BY <1>1, <2>3, <3>2 DEF InsertTransaction, Interference
  <2> QED
    BY <1>3, <2>2, <2>3
<1>4. ASSUME NEW t \in Tasks, NEW r, Rollback(t, r)
      PROVE  Interference(others, "PLAYER_TRANSFER")
  BY <1>1, <1>4, ReleaseKept DEF IInv, Rollback, Release, Interference
<1>5. ASSUME NEW t \in Tasks, CommitConversion(t)
      PROVE  Interference(others, "PLAYER_TRANSFER")
  <2> DEFINE x == Mine(t).wallet
             row == [request_id |-> job[t].key, tx_type |-> "RESOURCE_CONVERSION",
                     source |-> SystemWallet, dest |-> x, amount |-> Mine(t).price]
             p == [request_id |-> job[t].key, operation_type |-> "RESOURCE_CONVERSION",
                   fingerprint |-> CommitFingerprint(job[t]), tx |-> Len(ledger) + 1]
  <2>1. pc[t] = "entries" /\ SystemWallet \in Wallets /\ Mine(t).price # 0
    BY <1>5 DEF CommitConversion
  <2>2. /\ job[t].key \in Keys /\ keyLocks[job[t].key] = t /\ ~KeyTaken(job[t].key)
        /\ Mine(t).price \in 1..MaxBalance /\ x \in Wallets /\ locks[x] = t /\ ~IsDebit(t)
    BY <2>1, CommitFacts
  <2>3. LocksKept(others)
    BY <1>5, ReleaseKept DEF IInv, CommitConversion, Release
  <2>4. wallets' \in [Wallets -> WalletRow]
    BY <1>5, CommitIInv DEF IInv, TypeOK
  <2>5. \A y \in Wallets : locks[y] \in others => wallets'[y] = wallets[y]
    BY <1>5, <2>2 DEF IInv, TypeOK, CommitConversion
  <2>6. row \in LedgerRow /\ row.tx_type # "PLAYER_TRANSFER" /\ row.request_id = job[t].key
    BY <2>1, <2>2 DEF LedgerRow
  <2>7. /\ ledger' = Append(ledger, row)
        /\ processed' = processed \cup {p}
        /\ p.operation_type # "PLAYER_TRANSFER" /\ p.request_id = job[t].key
    BY <1>5, <2>2 DEF CommitConversion
  <2> HIDE DEF row, p
  <2>8. ForeignCommit(others, "PLAYER_TRANSFER")
    BY <2>2, <2>6, <2>7 DEF ForeignCommit
  <2> QED
    BY <2>3, <2>4, <2>5, <2>8 DEF Interference
<1>6. ASSUME NEW t \in Tasks, TaskStep(t) \/ Crash(t)
      PROVE  Interference(others, "PLAYER_TRANSFER")
  <2>1. CASE InsertReservation(t) \/ ExpireReservation(t) \/ LockReservation(t) \/ AbortReservation(t)
    BY <1>2, <2>1 DEF InsertReservation, ExpireReservation, LockReservation, AbortReservation,
                      storeVars
  <2>2. CASE \E r : Rollback(t, r)
    BY <1>4, <2>2
  <2> QED
    BY <1>3, <1>5, <1>6, <2>1, <2>2
       DEF TaskStep, Crash, RejectReservation, RejectWallet, RejectMoney, RejectDuplicate,
           RejectEntries, RejectAbort
<1>7. ASSUME NEW t \in Tasks, NEW c \in Requests, Receive(t, c)
      PROVE  Interference(others, "PLAYER_TRANSFER")
  BY <1>2, <1>7 DEF Receive, AnswerPrepare, BeginPrepare, AnswerProcessed, BeginCommit, BeginAbort,
                    Await, storeVars
<1> QED
  BY <1>2, <1>6, <1>7 DEF Next, Lapse, CleanupProcessed, storeVars

-----------------------------------------------------------------------------
(* No wallet of a conversion leaves the range of an i64, and every         *)
(* variable has its type.                                                  *)
THEOREM TypeCorrect == Spec => []TypeOK
<1>1. IInv => TypeOK
  BY DEF IInv
<1> QED
  BY <1>1, Invariance, PTL

(* A reservation is paid once, exactly when it is COMMITTED, whatever      *)
(* commits, aborts and expiries race for it.                               *)
THEOREM OnePayment == Spec => []PaidOnce
<1>1. IInv => PaidOnce
  BY DEF IInv
<1> QED
  BY <1>1, Invariance, PTL

(* What prepare, commit and abort have answered stays true.                *)
THEOREM HonestAnswers == Spec => []AnswersHonest
<1>1. IInv => AnswersHonest
  BY DEF IInv
<1> QED
  BY <1>1, Invariance, PTL

-----------------------------------------------------------------------------
(* Whom a conversion waits for: the holder of the reservation, of the      *)
(* player's wallet, of the key or of the system wallet.                    *)
LEMMA WaitsForLock ==
  ASSUME IInv, NEW t \in Tasks, WaitsFor(t) # NoOwner
  PROVE  /\ pc[t] \in {"reserve", "abort", "wallet", "pay", "entries"}
         /\ pc[t] \in {"reserve", "abort"} =>
              job[t].id \in Reservations /\ WaitsFor(t) = rowLocks[job[t].id]
         /\ pc[t] = "wallet" =>
              Mine(t).wallet \in Wallets /\ WaitsFor(t) = locks[Mine(t).wallet]
         /\ pc[t] = "pay" => job[t].key \in Keys /\ WaitsFor(t) = keyLocks[job[t].key]
         /\ pc[t] = "entries" => /\ SystemWallet \in Wallets
                                 /\ WaitsFor(t) = locks[SystemWallet]
                                 /\ WaitsFor(t) # t
<1>1. pc[t] \in {"reserve", "abort", "wallet", "pay", "entries"}
  BY DEF WaitsFor, Payable
<1>2. /\ job[t].id \in Reservations
      /\ pc[t] = "pay" => job[t].key \in Keys
  BY <1>1, RequestTypes DEF IInv, JobInv
<1>3. pc[t] \in {"reserve", "abort"} => WaitsFor(t) = rowLocks[job[t].id]
  BY DEF WaitsFor, Payable
<1>4. pc[t] = "wallet" => Mine(t).wallet \in Wallets /\ WaitsFor(t) = locks[Mine(t).wallet]
  BY DEF WaitsFor, Payable
<1>5. pc[t] = "pay" => WaitsFor(t) = keyLocks[job[t].key]
  BY DEF WaitsFor, Payable
<1>6. pc[t] = "entries" => /\ SystemWallet \in Wallets
                           /\ WaitsFor(t) = locks[SystemWallet]
                           /\ WaitsFor(t) # t
  BY DEF WaitsFor, Payable
<1> QED
  BY <1>1, <1>2, <1>3, <1>4, <1>5, <1>6

(* Where a task is decides where the one it waits for can be.              *)
LEMMA WaitCases ==
  ASSUME IInv, NEW t \in Tasks, NEW h \in Tasks, WaitsFor(t) = h
  PROVE  /\ pc[t] \in {"reserve", "abort", "wallet", "pay", "entries"}
         /\ pc[t] \in {"reserve", "abort"} => pc[h] \in {"wallet", "pay", "entries"}
         /\ pc[t] = "wallet" => pc[h] \in {"pay", "entries"}
         /\ pc[t] = "pay" => pc[h] = "entries"
         /\ pc[t] = "entries" => /\ locks[SystemWallet] = h
                                 /\ h # t
                                 /\ pc[h] \in {"pay", "entries"}
                                 /\ Mine(h).wallet = SystemWallet
<1>1. WaitsFor(t) # NoOwner
  OBVIOUS
<1>2. /\ \A i \in Reservations : rowLocks[i] = h => pc[h] \in {"wallet", "pay", "entries"}
      /\ \A x \in Wallets : locks[x] = h => pc[h] \in {"pay", "entries"} /\ x = Mine(h).wallet
      /\ \A k \in Keys : keyLocks[k] = h => pc[h] = "entries"
  BY DEF IInv, HeldInv
<1> QED
  BY <1>1, <1>2, WaitsForLock

(* Reservations, wallets and keys are locked in this order, and the system *)
(* wallet last: following who waits for whom leads to a task that waits    *)
(* for the system wallet, which is held by one that pays its owner.        *)
LEMMA CircleHasSystem ==
  ASSUME IInv, NEW S \in SUBSET Tasks, NEW s \in S, \A t \in S : WaitsFor(t) \in S
  PROVE  \E t, h \in S :
           /\ pc[t] = "entries" /\ pc[h] = "pay"
           /\ Mine(h).wallet = SystemWallet /\ WaitsFor(t) = h
<1>1. \E t \in S : pc[t] = "entries"
  <2>1. ASSUME NEW t \in S, pc[t] = "pay" PROVE \E u \in S : pc[u] = "entries"
    BY <2>1, WaitCases
  <2>2. ASSUME NEW t \in S, pc[t] = "wallet" PROVE \E u \in S : pc[u] = "entries"
    BY <2>1, <2>2, WaitCases
  <2>3. ASSUME NEW t \in S, pc[t] \in {"reserve", "abort"} PROVE \E u \in S : pc[u] = "entries"
    BY <2>1, <2>2, <2>3, WaitCases
  <2> QED
    BY <2>1, <2>2, <2>3, WaitCases
<1>2. PICK t \in S : pc[t] = "entries"
  BY <1>1
<1>3. PICK h \in S : h = WaitsFor(t)
  OBVIOUS
<1>4. locks[SystemWallet] = h /\ pc[h] \in {"pay", "entries"} /\ Mine(h).wallet = SystemWallet
  BY <1>2, <1>3, WaitCases
<1>5. pc[h] # "entries"
  <2> SUFFICES ASSUME pc[h] = "entries" PROVE FALSE
    OBVIOUS
  <2>1. locks[SystemWallet] = WaitsFor(h) /\ WaitsFor(h) # h
    BY WaitCases
  <2> QED
    BY <1>4, <2>1
<1> QED
  BY <1>2, <1>3, <1>4, <1>5

(* Conversions wait for each other in a circle only where one of them pays *)
(* the owner of the system wallet, however many there are of them.         *)
THEOREM CirclesThroughSystem == Spec => []DeadlockNeedsSystem
<1>1. ASSUME IInv PROVE DeadlockNeedsSystem
  <2>1. ASSUME NEW S \in (SUBSET Tasks) \ {{}}, \A t \in S : WaitsFor(t) \in S
        PROVE  \E t, h \in S :
                 /\ pc[t] = "entries" /\ pc[h] = "pay"
                 /\ Mine(h).wallet = SystemWallet /\ WaitsFor(t) = h
    <3>1. S \in SUBSET Tasks /\ \E s \in S : TRUE
      OBVIOUS
    <3> QED
      BY <1>1, <2>1, <3>1, CircleHasSystem
  <2>2. \A t \in Tasks : WaitsFor(t) \in Tasks => pc[WaitsFor(t)] # "idle"
    BY <1>1, WaitCases
  <2> QED
    BY <2>1, <2>2 DEF DeadlockNeedsSystem
<1> QED
  BY <1>1, Invariance, PTL

-----------------------------------------------------------------------------
(* The offers and balances that the state stands for.                      *)
Offers == [i \in DOMAIN reservations |->
  [status |-> reservations[i].status, wallet |-> reservations[i].wallet,
   price |-> reservations[i].price]]
Balances == [x \in Wallets |-> wallets[x].balance]

(* The INSERT of a row is an Offer.                                        *)
LEMMA OfferStep ==
  ASSUME IInv, NEW t \in Tasks, InsertReservation(t)
  PROVE  AbstractExchange!Next \/ UNCHANGED <<Offers, Balances>>
<1> DEFINE c == job[t]
<1>1. CASE Known(c.id)
  BY <1>1 DEF InsertReservation, storeVars, Offers, Balances
<1>2. CASE ~Known(c.id)
  <2>1. /\ c \in Requests /\ c.op = "prepare" /\ Offered(c) /\ Price(c) <= MaxBalance
        /\ c.id \in Reservations /\ Price(c) \in Nat
    BY RequestTypes, OfferTypes DEF InsertReservation, IInv, JobInv
  <2>2. c.wallet \in Players /\ Price(c) \in 0..MaxBalance
    BY <2>1 DEF Offered
  <2>3. /\ reservations' = [i \in DOMAIN reservations \cup {c.id} |->
             IF i = c.id THEN NewReservation(c) ELSE reservations[i]]
        /\ wallets' = wallets
    BY <1>2 DEF InsertReservation, storeVars
  <2>4. AbstractExchange!Offer(c.id, c.wallet, Price(c))
    BY <1>2, <2>3 DEF AbstractExchange!Offer, Known, NewReservation
  <2> QED
    BY <2>1, <2>2, <2>4 DEF AbstractExchange!Next, AbstractExchange!Offer
<1> QED
  BY <1>1, <1>2

(* The COMMIT of a conversion is a Pay.                                    *)
LEMMA PayStep ==
  ASSUME IInv, NEW t \in Tasks, CommitConversion(t)
  PROVE  AbstractExchange!Next
<1> DEFINE i == job[t].id
           x == Mine(t).wallet
<1>1. pc[t] = "entries" /\ Mine(t).price # 0
  BY DEF CommitConversion
<1>2. /\ i \in DOMAIN reservations /\ i \in Reservations
      /\ Mine(t) \in Reservation /\ Mine(t).status = "PREPARED" /\ Mine(t).price \in 1..MaxBalance
      /\ x \in Wallets
      /\ NewBalance(t) = wallets[x].balance + Mine(t).price
      /\ NewBalance(t) \in 0..MaxBalance
      /\ Mine(t) = reservations[i]
  BY <1>1, CommitFacts DEF Mine
<1>3. /\ wallets' = [wallets EXCEPT
           ![x] = [balance |-> NewBalance(t), revision |-> seen[t].revision + 1]]
      /\ reservations' = [reservations EXCEPT ![i].status = "COMMITTED"]
  BY DEF CommitConversion, SetStatus
<1>4. wallets \in [Wallets -> WalletRow] /\ reservations \in [DOMAIN reservations -> Reservation]
  BY DEF IInv, TypeOK
<1>5. Offers' = [Offers EXCEPT ![i].status = "COMMITTED"]
  BY <1>2, <1>3, <1>4 DEF Offers, Reservation
<1>6. Balances' = [Balances EXCEPT ![x] = @ + Offers[i].price]
  BY <1>2, <1>3, <1>4 DEF Offers, Balances, WalletRow
<1>7. /\ i \in DOMAIN Offers /\ Offers[i].status = "PREPARED"
      /\ Offers[i].wallet = x /\ Offers[i].price > 0
      /\ Balances[x] + Offers[i].price <= MaxBalance
  BY <1>2 DEF Offers, Balances
<1>8. AbstractExchange!Pay(i)
  BY <1>2, <1>5, <1>6, <1>7 DEF AbstractExchange!Pay, AbstractExchange!Open, Offers, Balances
<1> QED
  BY <1>2, <1>8 DEF AbstractExchange!Next, AbstractExchange!Pay, AbstractExchange!Open

(* An abort or an expiry is a Close.                                       *)
LEMMA CloseStep ==
  ASSUME IInv, NEW i \in DOMAIN reservations, NEW status \in {"ABORTED", "EXPIRED"},
         reservations[i].status = "PREPARED", SetStatus(i, status), UNCHANGED wallets
  PROVE  AbstractExchange!Next
<1>1. i \in Reservations /\ reservations \in [DOMAIN reservations -> Reservation]
  BY DEF IInv, TypeOK
<1>2. Offers' = [Offers EXCEPT ![i].status = status]
  BY ZenonT(30), <1>1 DEF SetStatus, Offers, Reservation
<1>3. AbstractExchange!Close(i)
  BY <1>2 DEF AbstractExchange!Close, AbstractExchange!Open, Offers
<1> QED
  BY <1>1, <1>3 DEF AbstractExchange!Next

(* Every behaviour of the calls is one of the abstract exchange: no other  *)
(* step changes an offer or a balance.                                     *)
THEOREM Refinement == Spec => ImplementsExchange
<1>1. Init => AbstractExchange!Init
  BY DEF Init, StoreInit, AbstractExchange!Init
<1>2. IInv /\ [Next]_vars => [AbstractExchange!Next]_(AbstractExchange!exchangeVars)
  <2> SUFFICES ASSUME IInv, [Next]_vars
               PROVE  AbstractExchange!Next \/ UNCHANGED <<Offers, Balances>>
    BY DEF AbstractExchange!exchangeVars, Offers, Balances
  <2>1. CASE reservations' = reservations /\ wallets' = wallets
    BY <2>1 DEF Offers, Balances
  <2>2. CASE Lapse
    <3>1. reservations \in [DOMAIN reservations -> Reservation]
      BY DEF IInv, TypeOK
    <3> QED
      BY <2>2, <3>1 DEF Lapse, storeVars, Offers, Balances, Reservation
  <2>3. ASSUME NEW t \in Tasks, TaskStep(t) \/ Crash(t)
        PROVE  AbstractExchange!Next \/ UNCHANGED <<Offers, Balances>>
    <3>1. CASE InsertReservation(t)
      BY <3>1, OfferStep
    <3>2. CASE CommitConversion(t)
      BY <3>2, PayStep
    <3>3. CASE ExpireReservation(t)
      BY <3>3, CloseStep DEF ExpireReservation, Committable, Known, Mine, storeVars
    <3>4. CASE AbortReservation(t)
      BY <3>4, <2>1, CloseStep DEF AbortReservation, Abortable, Known, Mine, storeVars
    <3> QED
      BY <2>1, <2>3, <3>1, <3>2, <3>3, <3>4
         DEF TaskStep, Crash, Rollback, RejectReservation, RejectWallet, RejectMoney,
             RejectDuplicate, RejectEntries, RejectAbort, LockReservation, LockWallet,
             InsertTransaction, storeVars
  <2>4. ASSUME NEW t \in Tasks, NEW c \in Requests, Receive(t, c)
        PROVE  AbstractExchange!Next \/ UNCHANGED <<Offers, Balances>>
    BY <2>1, <2>4 DEF Receive, AnswerPrepare, BeginPrepare, AnswerProcessed, BeginCommit,
                      BeginAbort, Await, storeVars
  <2> QED
    BY <2>1, <2>2, <2>3, <2>4 DEF Next, vars, storeVars, CleanupProcessed
<1> QED
  BY <1>1, <1>2, Invariance, PTL DEF Spec, ImplementsExchange, AbstractExchange!Spec

=============================================================================
