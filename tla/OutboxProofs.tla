---------------------------- MODULE OutboxProofs ----------------------------
(***************************************************************************)
(* The inductive invariant of Outbox: no event is claimed twice or handed  *)
(* to the publisher twice, for any number of workers and events.           *)
(***************************************************************************)
EXTENDS Outbox, TLAPS

(* The columns of a row of the outbox have the types TypeOK gives the row. *)
LEMMA RowTypes ==
  ASSUME TypeOK
  PROVE  /\ Ids = 1..Len(outbox) /\ Len(outbox) \in Nat
         /\ DOMAIN delivered = Ids
         /\ \A i \in Ids : /\ outbox[i] \in Event
                           /\ outbox[i].readable \in BOOLEAN
                           /\ outbox[i].attempts \in Nat
                           /\ outbox[i].wait \in Nat
                           /\ outbox[i].status \in {"PENDING", "PROCESSING", "PUBLISHED", "FAILED"}
                           /\ delivered[i] \in Nat
<1>1. Ids = 1..Len(outbox) /\ Len(outbox) \in Nat /\ DOMAIN delivered = Ids
  BY DEF TypeOK, Ids
<1>2. \A i \in Ids : outbox[i] \in Event /\ delivered[i] \in Nat
  BY <1>1 DEF TypeOK, Ids
<1> QED
  BY <1>1, <1>2 DEF Event

(* A worker whose rows keep status and deliveries.                         *)
LEMMA KeepBatch ==
  ASSUME NEW w \in Workers, BatchOk(w), pc'[w] = pc[w], batch'[w] = batch[w],
         \A i \in DOMAIN batch[w] :
           outbox'[i].status = outbox[i].status /\ delivered'[i] = delivered[i]
  PROVE  BatchOk(w)'
<1>1. \A i \in DOMAIN batch[w] : Current(w, i)' <=> Current(w, i)
  BY DEF Current, Holds
<1> QED
  BY <1>1 DEF BatchOk

(* An empty outbox with idle workers.                                      *)
LEMMA InitIInv == Init => IInv
<1> SUFFICES ASSUME Init PROVE IInv
  OBVIOUS
<1>1. Ids = {} /\ \A w \in Workers : DOMAIN batch[w] = {}
  BY DEF Init, Ids, NoBatch
<1>2. TypeOK
  BY <1>1 DEF Init, TypeOK, NoBatch
<1> QED
  BY <1>1, <1>2 DEF Init, IInv, ClaimedOnce, DeliveredOnce, StatusHonest, FreshAttempts, BatchInv, BatchOk

-----------------------------------------------------------------------------
(* Steps that leave every batch alone: a new event, the clock.             *)

(* The row of a new event is in nobody's batch, PENDING and undelivered.   *)
LEMMA EmitIInv ==
  ASSUME IInv, NEW readable \in BOOLEAN, Emit(readable)
  PROVE  IInv'
<1> DEFINE n == Len(outbox) + 1
           r == [readable |-> readable, attempts |-> 0, wait |-> 0, status |-> "PENDING"]
<1>1. /\ r \in Event /\ r.status = "PENDING"
  BY DEF Event
<1> HIDE DEF r
<1>2. /\ outbox' = Append(outbox, r) /\ delivered' = Append(delivered, 0)
      /\ pc' = pc /\ batch' = batch /\ crashes' = crashes
  BY DEF Emit, r
<1>3. /\ outbox' \in Seq(Event) /\ delivered' \in Seq(Nat)
      /\ Len(delivered') = Len(outbox')
      /\ Ids' = Ids \cup {n}
      /\ n \notin Ids
      /\ outbox'[n] = r /\ delivered'[n] = 0
      /\ \A i \in Ids : outbox'[i] = outbox[i] /\ delivered'[i] = delivered[i]
  BY <1>1, <1>2 DEF IInv, TypeOK, Ids
<1>4. \A w \in Workers : DOMAIN batch[w] \subseteq Ids
  BY DEF IInv, TypeOK
<1> HIDE DEF n
<1>5. TypeOK'
  BY <1>2, <1>3, <1>4 DEF IInv, TypeOK
<1>6. DeliveredOnce' /\ StatusHonest'
  BY <1>1, <1>3 DEF IInv, DeliveredOnce, StatusHonest
<1>7. FreshAttempts'
  BY <1>2, <1>3, <1>4 DEF IInv, FreshAttempts
<1>8. ClaimedOnce'
  BY <1>2, <1>3, <1>4 DEF IInv, ClaimedOnce, Holds
<1>9. BatchInv'
  <2> SUFFICES ASSUME NEW w \in Workers PROVE BatchOk(w)'
    BY DEF BatchInv
  <2> QED
    BY <1>2, <1>3, <1>4, KeepBatch DEF IInv, BatchInv
<1> QED
  BY <1>5, <1>6, <1>7, <1>8, <1>9 DEF IInv

(* A step that changes rows of the outbox but not their status, attempts,  *)
(* deliveries or batches.                                                  *)
LEMMA TickIInv ==
  ASSUME IInv, Tick
  PROVE  IInv'
<1> DEFINE q(i) == [outbox[i] EXCEPT !.wait = IF @ > 0 THEN @ - 1 ELSE 0]
<1>1. \A i \in Ids : /\ q(i) \in Event
                     /\ q(i).status = outbox[i].status
                     /\ q(i).attempts = outbox[i].attempts
  BY RowTypes DEF IInv, Event
<1>2. outbox' = [i \in 1..Len(outbox) |-> q(i)]
  BY RowTypes DEF IInv, Tick
<1> HIDE DEF q
<1>3. /\ outbox' \in Seq(Event) /\ Len(outbox') = Len(outbox)
      /\ Ids' = Ids
      /\ \A i \in Ids : outbox'[i] = q(i)
  BY <1>1, <1>2, RowTypes DEF IInv, Ids
<1>4. delivered' = delivered /\ pc' = pc /\ batch' = batch /\ crashes' = crashes
  BY DEF Tick
<1>5. TypeOK'
  BY <1>3, <1>4 DEF IInv, TypeOK
<1>6. DeliveredOnce' /\ StatusHonest'
  BY <1>1, <1>3, <1>4 DEF IInv, DeliveredOnce, StatusHonest
<1>7. FreshAttempts'
  BY <1>1, <1>3, <1>4 DEF IInv, TypeOK, FreshAttempts
<1>8. ClaimedOnce'
  BY <1>3, <1>4 DEF IInv, ClaimedOnce, Holds
<1>9. BatchInv'
  <2> SUFFICES ASSUME NEW w \in Workers PROVE BatchOk(w)'
    BY DEF BatchInv
  <2>1. DOMAIN batch[w] \subseteq Ids
    BY DEF IInv, TypeOK
  <2> QED
    BY <1>1, <1>3, <1>4, <2>1, KeepBatch DEF IInv, BatchInv
<1> QED
  BY <1>5, <1>6, <1>7, <1>8, <1>9 DEF IInv

-----------------------------------------------------------------------------
(* The steps of a worker.  Nobody else holds its rows.                     *)

(* The rows a worker selects carry the attempts it has just read.          *)
LEMMA SelectIInv ==
  ASSUME IInv, NEW w \in Workers, SelectBatch(w)
  PROVE  IInv'
<1> DEFINE b == [i \in Oldest(Candidates) |-> outbox[i].attempts]
<1>1. /\ outbox' = outbox /\ delivered' = delivered /\ crashes' = crashes
      /\ Ids' = Ids
      /\ pc[w] = "idle"
      /\ pc' = [pc EXCEPT ![w] = "claim"]
      /\ batch' = [batch EXCEPT ![w] = b]
      /\ Oldest(Candidates) # {}
  BY DEF SelectBatch, Ids
<1>2. /\ DOMAIN b = Oldest(Candidates)
      /\ DOMAIN b \subseteq Candidates
      /\ b \in [DOMAIN b -> Nat]
      /\ \A i \in DOMAIN b : b[i] = outbox[i].attempts
  BY RowTypes DEF Oldest, Candidates, IInv
<1>3. DOMAIN b # {}
  BY <1>1
<1> HIDE DEF b
<1>4. \A i \in DOMAIN b : /\ i \in Ids
                          /\ outbox[i].status \in {"PENDING", "FAILED"}
                          /\ delivered[i] = 0
                          /\ \A v \in Workers : ~Holds(v, i)
  <2> SUFFICES ASSUME NEW i \in DOMAIN b
               PROVE  /\ i \in Ids
                      /\ outbox[i].status \in {"PENDING", "FAILED"}
                      /\ delivered[i] = 0
                      /\ \A v \in Workers : ~Holds(v, i)
    OBVIOUS
  <2>1. i \in Ids /\ outbox[i].status \in {"PENDING", "FAILED"} /\ ~Locked(i)
    BY <1>2 DEF Candidates, Available
  <2>2. ASSUME NEW v \in Workers, Holds(v, i) PROVE FALSE
    BY <2>1, <2>2 DEF Locked, Holds, IInv, TypeOK, BatchInv, BatchOk
  <2> QED
    BY <2>1, <2>2 DEF IInv, StatusHonest
<1>5. TypeOK'
  BY <1>1, <1>2, <1>4 DEF IInv, TypeOK
<1>6. DeliveredOnce' /\ StatusHonest'
  BY <1>1 DEF IInv, DeliveredOnce, StatusHonest
<1>7. FreshAttempts'
  BY <1>1, <1>2 DEF IInv, TypeOK, FreshAttempts
<1>8. ClaimedOnce'
  BY <1>1, <1>4 DEF IInv, TypeOK, ClaimedOnce, Holds
<1>9. BatchInv'
  <2>1. BatchOk(w)'
    BY <1>1, <1>3, <1>4 DEF IInv, TypeOK, BatchOk
  <2>2. ASSUME NEW v \in Workers \ {w} PROVE BatchOk(v)'
    BY <1>1, KeepBatch DEF IInv, TypeOK, BatchInv
  <2> QED
    BY <2>1, <2>2 DEF BatchInv
<1> QED
  BY <1>5, <1>6, <1>7, <1>8, <1>9 DEF IInv

(* The rows a worker marks PROCESSING were PENDING, so in no other claimed *)
(* batch.                                                                  *)
LEMMA ClaimIInv ==
  ASSUME IInv, NEW w \in Workers, Claim(w)
  PROVE  IInv'
<1> DEFINE q(i) == IF Holds(w, i) THEN [outbox[i] EXCEPT !.status = "PROCESSING"] ELSE outbox[i]
<1>1. \A i \in Ids : /\ q(i) \in Event
                     /\ q(i).attempts = outbox[i].attempts
                     /\ q(i).status = IF Holds(w, i) THEN "PROCESSING" ELSE outbox[i].status
  BY RowTypes DEF IInv, Event
<1>2. outbox' = [i \in 1..Len(outbox) |-> q(i)]
  BY RowTypes DEF IInv, Claim
<1> HIDE DEF q
<1>3. /\ outbox' \in Seq(Event) /\ Len(outbox') = Len(outbox)
      /\ Ids' = Ids
      /\ \A i \in Ids : outbox'[i] = q(i)
  BY <1>1, <1>2, RowTypes DEF IInv, Ids
<1>4. /\ delivered' = delivered /\ batch' = batch /\ crashes' = crashes
      /\ pc[w] = "claim" /\ pc' = [pc EXCEPT ![w] = "publish"]
  BY DEF Claim
<1>5. TypeOK'
  BY <1>3, <1>4 DEF IInv, TypeOK
<1>6. DeliveredOnce' /\ StatusHonest'
  BY <1>1, <1>3, <1>4 DEF IInv, DeliveredOnce, StatusHonest
<1>7. FreshAttempts'
  BY <1>1, <1>3, <1>4 DEF IInv, TypeOK, FreshAttempts
<1>8. ClaimedOnce'
  BY <1>3, <1>4 DEF IInv, ClaimedOnce, Holds
<1>9. BatchInv'
  <2>1. BatchOk(w)'
    <3>1. DOMAIN batch[w] \subseteq Ids /\ w \in DOMAIN pc /\ BatchOk(w)
      BY DEF IInv, TypeOK, BatchInv
    <3> QED
      BY <1>1, <1>3, <1>4, <3>1 DEF BatchOk, Holds
  <2>2. ASSUME NEW v \in Workers \ {w} PROVE BatchOk(v)'
    <3>1. \A i \in DOMAIN batch[v] : i \in Ids /\ ~Holds(w, i)
      BY DEF IInv, TypeOK, ClaimedOnce, Holds
    <3>2. BatchOk(v) /\ pc'[v] = pc[v]
      BY <1>4 DEF IInv, TypeOK, BatchInv
    <3> QED
      BY <1>1, <1>3, <1>4, <3>1, <3>2, KeepBatch
  <2> QED
    BY <2>1, <2>2 DEF BatchInv
<1> QED
  BY <1>5, <1>6, <1>7, <1>8, <1>9 DEF IInv

(* The publisher gets an event only in PROCESSING, and this one for the    *)
(* first time.                                                             *)
LEMMA PublishIInv ==
  ASSUME IInv, NEW w \in Workers, NEW i \in Ids, PublishOk(w, i) \/ PublishError(w, i)
  PROVE  IInv'
<1>1. /\ outbox' = outbox /\ batch' = batch /\ crashes' = crashes /\ Ids' = Ids
      /\ pc[w] = "publish" /\ Current(w, i) /\ Holds(w, i)
      /\ \/ /\ delivered' = [delivered EXCEPT ![i] = @ + 1]
            /\ pc' = [pc EXCEPT ![w] = "published"]
         \/ /\ delivered' = delivered
            /\ pc' = [pc EXCEPT ![w] = "failed"]
  BY DEF PublishOk, PublishError, Current, Ids
<1>2. /\ outbox[i].status = "PROCESSING"
      /\ \A j \in DOMAIN batch[w] : delivered[j] = 0 /\ outbox[j].status = "PROCESSING"
      /\ delivered[i] = 0
      /\ DOMAIN batch[w] \subseteq Ids
      /\ DOMAIN batch[w] # {}
  BY <1>1 DEF IInv, TypeOK, BatchInv, BatchOk, Holds
<1>3. /\ delivered' \in Seq(Nat) /\ Len(delivered') = Len(delivered)
      /\ \A j \in Ids : delivered'[j] =
           IF j = i /\ pc'[w] = "published" THEN 1 ELSE delivered[j]
  BY <1>1, <1>2, RowTypes DEF IInv, TypeOK
<1>4. TypeOK'
  BY <1>1, <1>3 DEF IInv, TypeOK
<1>5. DeliveredOnce' /\ StatusHonest'
  BY <1>1, <1>2, <1>3 DEF IInv, DeliveredOnce, StatusHonest
<1>6. FreshAttempts' /\ ClaimedOnce'
  BY <1>1 DEF IInv, FreshAttempts, ClaimedOnce, Holds
<1>7. BatchInv'
  <2>1. BatchOk(w)'
    <3>1. \A j \in DOMAIN batch[w] : Current(w, j)' <=> j = i
      <4>1. \A j \in DOMAIN batch[w] : j \in Nat
        BY <1>2, RowTypes DEF IInv
      <4> QED
        BY <1>1, <4>1 DEF Current, Holds
    <3> QED
      BY <1>1, <1>2, <1>3, <3>1 DEF BatchOk, IInv, TypeOK
  <2>2. ASSUME NEW v \in Workers \ {w} PROVE BatchOk(v)'
    <3>1. \A j \in DOMAIN batch[v] : j \in Ids /\ j # i
      BY <1>1 DEF IInv, TypeOK, ClaimedOnce, Holds
    <3>2. BatchOk(v) /\ pc'[v] = pc[v]
      BY <1>1 DEF IInv, TypeOK, BatchInv
    <3> QED
      BY <1>1, <1>3, <3>1, <3>2, KeepBatch
  <2> QED
    BY <2>1, <2>2 DEF BatchInv
<1> QED
  BY <1>4, <1>5, <1>6, <1>7 DEF IInv

(* The delay before a retry is a number of seconds.                        *)
LEMMA BackoffType ==
  ASSUME NEW n \in Nat
  PROVE  Backoff(n) \in Nat
<1>1. MaxBackoff \in Nat /\ 0 \in Nat /\ 0..MaxBackoff \subseteq Nat
  BY OutboxAssumption
<1> QED
  BY <1>1, Zenon DEF Backoff

(* Whatever is recorded of the current event, the rest of the batch stays. *)
LEMMA RecordIInv ==
  ASSUME IInv, NEW w \in Workers, NEW i \in Ids, NEW row \in Event,
         pc[w] \in {"publish", "published", "failed"}, Current(w, i),
         Record(w, i, row),
         row.status = "PUBLISHED" => delivered[i] = 1,
         row.status \in {"PENDING", "FAILED"} => delivered[i] = 0
  PROVE  IInv'
<1> DEFINE rest == DOMAIN batch[w] \ {i}
<1>1. /\ batch' = [batch EXCEPT ![w] = Restrict(batch[w], rest)]
      /\ pc' = [pc EXCEPT ![w] = IF rest = {} THEN "idle" ELSE "publish"]
      /\ delivered' = delivered /\ crashes' = crashes
      /\ outbox' = [outbox EXCEPT ![i] = row] \/ outbox' = outbox
  BY DEF Record, Done, IInv, TypeOK
<1>2. /\ outbox' \in Seq(Event) /\ Len(outbox') = Len(outbox) /\ Ids' = Ids
      /\ \A j \in Ids : j # i => outbox'[j] = outbox[j]
      /\ outbox'[i] = row \/ outbox'[i] = outbox[i]
  <2>1. CASE outbox' = outbox
    BY <2>1 DEF IInv, TypeOK, Ids
  <2>2. CASE outbox' = [outbox EXCEPT ![i] = row]
    <3>1. outbox' \in Seq(Event) /\ Len(outbox') = Len(outbox)
      BY <2>2 DEF IInv, TypeOK, Ids
    <3>2. DOMAIN outbox' = DOMAIN outbox
      BY <2>2
    <3> QED
      BY <2>2, <3>1, <3>2 DEF Ids
  <2> QED
    BY <1>1, <2>1, <2>2
<1>3. /\ DOMAIN batch'[w] = rest
      /\ \A j \in rest : batch'[w][j] = batch[w][j]
      /\ batch'[w] = Restrict(batch[w], rest)
      /\ \A v \in Workers \ {w} : batch'[v] = batch[v] /\ pc'[v] = pc[v]
      /\ DOMAIN batch' = Workers
      /\ pc'[w] = IF rest = {} THEN "idle" ELSE "publish"
  BY <1>1 DEF IInv, TypeOK, Restrict
<1>4. /\ DOMAIN batch[w] \subseteq Ids
      /\ \A v \in Workers \ {w} : \A j \in DOMAIN batch[v] : j \in Ids /\ j # i
  BY DEF IInv, TypeOK, ClaimedOnce, Holds, Current
<1>5. \A j \in rest : ~Current(w, j)
  <2>1. \A j \in DOMAIN batch[w] : j \in Nat
    BY <1>4, RowTypes DEF IInv
  <2> QED
    BY <2>1 DEF Current, Holds
<1>6. TypeOK'
  <2>1. \A v \in Workers : batch'[v] \in [DOMAIN batch'[v] -> Nat] /\ DOMAIN batch'[v] \subseteq Ids'
    <3>1. batch'[w] \in [rest -> Nat]
      BY <1>3 DEF Restrict, IInv, TypeOK
    <3> QED
      BY <1>2, <1>3, <1>4, <3>1 DEF IInv, TypeOK
  <2>2. pc' \in [Workers -> {"idle", "claim", "publish", "published", "failed"}]
    BY <1>1 DEF IInv, TypeOK
  <2> QED
    BY <1>1, <1>2, <1>3, <2>1, <2>2 DEF IInv, TypeOK
<1>7. DeliveredOnce' /\ StatusHonest'
  BY <1>1, <1>2 DEF IInv, DeliveredOnce, StatusHonest
<1>8. FreshAttempts'
  <2> SUFFICES ASSUME NEW v \in Workers, NEW j \in DOMAIN batch'[v]
               PROVE  batch'[v][j] = outbox'[j].attempts
    BY DEF FreshAttempts
  <2>1. CASE v = w
    BY ZenonT(30), <1>2, <1>3, <1>4, <2>1 DEF IInv, FreshAttempts
  <2>2. CASE v # w
    BY <1>2, <1>3, <1>4, <2>2 DEF IInv, FreshAttempts
  <2> QED
    BY <2>1, <2>2
<1>9. ClaimedOnce'
  <2>1. \A v \in Workers : \A j \in Ids : Holds(v, j)' => Holds(v, j)
    BY <1>3 DEF Holds
  <2> QED
    BY <1>2, <2>1 DEF IInv, ClaimedOnce
<1>10. BatchInv'
  <2>1. BatchOk(w)'
    <3>1. \A j \in rest : /\ outbox'[j].status = "PROCESSING"
                          /\ delivered'[j] = 0
      BY <1>1, <1>2, <1>4, <1>5 DEF IInv, BatchInv, BatchOk
    <3> QED
      BY <1>3, <3>1 DEF BatchOk
  <2>2. ASSUME NEW v \in Workers \ {w} PROVE BatchOk(v)'
    <3>1. BatchOk(v)
      BY DEF IInv, BatchInv
    <3> QED
      BY <1>1, <1>2, <1>3, <1>4, <3>1, KeepBatch
  <2> QED
    BY <2>1, <2>2 DEF BatchInv
<1> QED
  BY <1>6, <1>7, <1>8, <1>9, <1>10 DEF IInv

(* What a worker does with the current event of its batch.                 *)
LEMMA HandleIInv ==
  ASSUME IInv, NEW w \in Workers, Handle(w)
  PROVE  IInv'
<1>1. PICK i \in Ids : \/ PublishOk(w, i) \/ PublishError(w, i)
                      \/ RecordPublished(w, i) \/ RecordFailed(w, i)
                      \/ RecordUnreadable(w, i)
  BY DEF Handle
<1>2. /\ outbox[i] \in Event /\ outbox[i].attempts \in Nat
      /\ Holds(w, i) => delivered[i] = IF pc[w] = "published" /\ Current(w, i) THEN 1 ELSE 0
      /\ Holds(w, i) => batch[w][i] \in Nat
  BY RowTypes DEF IInv, TypeOK, BatchInv, BatchOk, Holds
<1>3. CASE PublishOk(w, i) \/ PublishError(w, i)
  BY <1>3, PublishIInv
<1>4. CASE RecordPublished(w, i)
  <2> DEFINE row == [outbox[i] EXCEPT !.status = "PUBLISHED"]
  <2>1. row \in Event /\ row.status = "PUBLISHED"
    BY <1>2 DEF Event
  <2> HIDE DEF row
  <2>2. pc[w] = "published" /\ Current(w, i) /\ Record(w, i, row) /\ Holds(w, i)
    BY <1>4 DEF RecordPublished, row, Current
  <2> QED
    BY <1>2, <2>1, <2>2, RecordIInv
<1>5. CASE RecordFailed(w, i)
  <2> DEFINE n == batch[w][i] + 1
             row == [outbox[i] EXCEPT !.status = "FAILED", !.attempts = n, !.wait = Backoff(n)]
  <2>1. pc[w] = "failed" /\ Current(w, i) /\ Record(w, i, row) /\ Holds(w, i)
    BY <1>5 DEF RecordFailed, Current
  <2>2. n \in Nat
    BY <1>2, <2>1
  <2>3. Backoff(n) \in Nat
    BY <2>2, BackoffType
  <2>4. row \in Event /\ row.status = "FAILED"
    BY <1>2, <2>2, <2>3 DEF Event
  <2> HIDE DEF row
  <2> QED
    BY <1>2, <2>1, <2>4, RecordIInv
<1>6. CASE RecordUnreadable(w, i)
  <2> DEFINE row == [outbox[i] EXCEPT !.status = "FAILED",
                                      !.attempts = IF @ < MaxAttempts THEN @ + 1 ELSE @,
                                      !.wait = PoisonDelay]
  <2>1. pc[w] = "publish" /\ Current(w, i) /\ Record(w, i, row) /\ Holds(w, i)
    BY <1>6 DEF RecordUnreadable, Current
  <2>2. row \in Event /\ row.status = "FAILED"
    <3>1. PoisonDelay \in Nat /\ MaxAttempts \in Nat
      BY OutboxAssumption
    <3>2. (IF outbox[i].attempts < MaxAttempts
           THEN outbox[i].attempts + 1 ELSE outbox[i].attempts) \in Nat
      BY <1>2, <3>1
    <3> QED
      BY <1>2, <3>1, <3>2 DEF Event
  <2> HIDE DEF row
  <2> QED
    BY <1>2, <2>1, <2>2, RecordIInv
<1> QED
  BY <1>1, <1>3, <1>4, <1>5, <1>6

(* A crash forgets the batch; its rows keep the status they had.           *)
LEMMA CrashIInv ==
  ASSUME IInv, NEW w \in Workers, Crash(w)
  PROVE  IInv'
<1>1. /\ outbox' = outbox /\ delivered' = delivered /\ Ids' = Ids
      /\ crashes' = crashes + 1
      /\ pc' = [pc EXCEPT ![w] = "idle"]
      /\ batch' = [batch EXCEPT ![w] = NoBatch]
      /\ DOMAIN NoBatch = {} /\ NoBatch \in [{} -> Nat]
  BY DEF Crash, Ids, NoBatch
<1>2. TypeOK'
  BY <1>1 DEF IInv, TypeOK
<1>3. DeliveredOnce' /\ StatusHonest'
  BY <1>1 DEF IInv, DeliveredOnce, StatusHonest
<1>4. FreshAttempts' /\ ClaimedOnce'
  BY <1>1 DEF IInv, TypeOK, FreshAttempts, ClaimedOnce, Holds
<1>5. BatchInv'
  <2>1. BatchOk(w)'
    BY <1>1 DEF IInv, TypeOK, BatchOk
  <2>2. ASSUME NEW v \in Workers \ {w} PROVE BatchOk(v)'
    BY <1>1, KeepBatch DEF IInv, TypeOK, BatchInv
  <2> QED
    BY <2>1, <2>2 DEF BatchInv
<1> QED
  BY <1>2, <1>3, <1>4, <1>5 DEF IInv

(* Every step keeps the invariant.                                         *)
LEMMA NextIInv ==
  ASSUME IInv, [Next]_vars
  PROVE  IInv'
<1>1. CASE UNCHANGED vars
  <2>1. Ids' = Ids
    BY <1>1 DEF vars, Ids
  <2>2. \A w \in Workers : BatchOk(w)'
    BY <1>1, KeepBatch DEF vars, IInv, BatchInv
  <2>3. TypeOK' /\ ClaimedOnce' /\ DeliveredOnce' /\ StatusHonest' /\ FreshAttempts'
    BY <1>1, <2>1 DEF vars, IInv, TypeOK, ClaimedOnce, DeliveredOnce, StatusHonest,
                      FreshAttempts, Holds
  <2> QED
    BY <2>2, <2>3 DEF IInv, BatchInv
<1>2. CASE EmitTransfer \/ EmitConversion
  BY <1>2, EmitIInv DEF EmitTransfer, EmitConversion
<1>3. ASSUME NEW w \in Workers, SelectBatch(w) \/ Claim(w) \/ Handle(w) \/ Crash(w)
      PROVE  IInv'
  BY <1>3, SelectIInv, ClaimIInv, HandleIInv, CrashIInv
<1> QED
  BY <1>1, <1>2, <1>3, TickIInv DEF Next

-----------------------------------------------------------------------------
(* The theorems.                                                           *)

(* The invariant holds in every behaviour.                                 *)
THEOREM Invariance == Spec => []IInv
<1>1. IInv /\ [Next]_vars => IInv'
  BY NextIInv
<1> QED
  BY InitIInv, <1>1, PTL DEF Spec

(* Every variable keeps its type.                                          *)
THEOREM TypeCorrect == Spec => []TypeOK
<1>1. IInv => TypeOK
  BY DEF IInv
<1> QED
  BY Invariance, <1>1, PTL

(* SKIP LOCKED and the claim keep two workers off the same event.          *)
THEOREM NoDoubleClaim == Spec => []ClaimedOnce
<1>1. IInv => ClaimedOnce
  BY DEF IInv
<1> QED
  BY Invariance, <1>1, PTL

(* The worker delivers at most once: what it did not record is not tried   *)
(* again.                                                                  *)
THEOREM AtMostOnceDelivery == Spec => []DeliveredOnce
<1>1. IInv => DeliveredOnce
  BY DEF IInv
<1> QED
  BY Invariance, <1>1, PTL

(* The status column tells whether an event was delivered.                 *)
THEOREM HonestStatus == Spec => []StatusHonest
<1>1. IInv => StatusHonest
  BY DEF IInv
<1> QED
  BY Invariance, <1>1, PTL

(* The attempts a worker counts on from are those of the row.              *)
THEOREM AttemptsCurrent == Spec => []FreshAttempts
<1>1. IInv => FreshAttempts
  BY DEF IInv
<1> QED
  BY Invariance, <1>1, PTL

=============================================================================
