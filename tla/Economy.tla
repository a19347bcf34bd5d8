------------------------------ MODULE Economy -------------------------------
(***************************************************************************)
(* The whole economy: tasks that run transfers (movers) and tasks that run *)
(* conversions (converters) over one set of tables.  Both use the wallets, *)
(* the ledger, the idempotency log and their locks; the reservations       *)
(* belong to the converters.  The actions are those of Transfers and       *)
(* Conversions, each with the tables of EconomyStore and its own tasks.    *)
(***************************************************************************)
EXTENDS EconomyStore, FiniteSets

CONSTANTS
  Movers,        \* server tasks that run transfers
  Converters,    \* server tasks that run conversions
  Reservations, Players, Rules, SystemWallet,   \* see Conversions
  Requests,      \* the conversions that clients call for
  Calls          \* the transfers that clients call for

VARIABLES
  reservations, rowLocks, paidFor,             \* see Conversions
  movePc, moveJob, moveSeen, moveReply,        \* where the movers are
  convPc, convJob, convSeen, convReply         \* where the converters are

moverVars == <<movePc, moveJob, moveSeen, moveReply>>
converterVars == <<convPc, convJob, convSeen, convReply>>
reservationVars == <<reservations, rowLocks, paidFor>>
vars == <<storeVars, reservationVars, moverVars, converterVars>>

T == INSTANCE Transfers WITH
  Tasks <- Movers, pc <- movePc, job <- moveJob, seen <- moveSeen, reply <- moveReply

C == INSTANCE Conversions WITH
  Tasks <- Converters, pc <- convPc, job <- convJob, seen <- convSeen, reply <- convReply

ASSUME EconomyAssumption ==
  /\ Movers \cap Converters = {}
  /\ Movers \cup Converters \subseteq Owners
  /\ Calls # {}
  /\ Calls \subseteq [key : Keys, from : Int, to : Int, amount : Int, correlation : Nat]
  /\ Requests \subseteq C!ConversionCalls
  /\ Wallets \subseteq Players /\ Players \subseteq Int
  /\ DOMAIN Rules \subseteq C!Directions
  /\ Rules \in [DOMAIN Rules -> [price : Nat, min : Int, max : Int]]
  /\ SystemWallet \in Int

Init == T!Init /\ C!Init

Move == T!Next /\ UNCHANGED <<reservationVars, converterVars>>
Convert == C!Next /\ UNCHANGED moverVars

Next == Move \/ Convert

Spec == Init /\ [][Next]_vars

-----------------------------------------------------------------------------
(* Properties.                                                             *)

(* A key moves money once, be it by a transfer or by a conversion, and     *)
(* whatever the cleanup has removed from processed_requests meanwhile.     *)
OneEffectPerKey ==
  \A m, n \in DOMAIN ledger : ledger[m].request_id = ledger[n].request_id => m = n

(* An "ok" is about an operation of the kind that was called, which did    *)
(* what was asked: no client is given the transaction of the other kind    *)
(* that has used its key.                                                  *)
AnswersHonest == T!AnswersMatch /\ C!AnswersHonest

(* The wallets whose balance transaction n changed: of a conversion only   *)
(* the player's (commit_conversion_atomic writes an entry of the system    *)
(* wallet without an UPDATE of it).                                        *)
Moved(n) ==
  IF ledger[n].tx_type = "RESOURCE_CONVERSION"
  THEN {reservations[paidFor[n]].wallet}
  ELSE {ledger[n].source, ledger[n].dest}

Delta(x, n) ==
  CASE x \notin Moved(n) -> 0
    [] x \in Moved(n) /\ ledger[n].dest = x -> ledger[n].amount
    [] x \in Moved(n) /\ ledger[n].dest # x -> -ledger[n].amount

(* An account of wallet x, its balance after each transaction, is the      *)
(* ledger replayed from the first balance to the one the wallet has now.   *)
IsAccount(account, x) ==
  /\ account[0] = InitialBalance[x]
  /\ \A n \in DOMAIN ledger : account[n] = account[n - 1] + Delta(x, n)
  /\ account[Len(ledger)] = wallets[x].balance

(* Whichever operations wrote them and however they were interleaved, the  *)
(* ledger entries explain the balance of every wallet, which never left    *)
(* its range in between, and its revision counts them: no update is lost   *)
(* between transfers and conversions.                                      *)
Reconciled ==
  \A x \in Wallets :
    /\ \E account \in [0..Len(ledger) -> 0..MaxBalance] : IsAccount(account, x)
    /\ wallets[x].revision = Cardinality({n \in DOMAIN ledger : x \in Moved(n)})

(* The lock order of the wallets (ARCHITECTURE.md, "lock wallets by UUID   *)
(* asc") is kept by transfers.  A conversion asks for the system wallet,   *)
(* the smallest id of all, last: tasks wait for each other only where a    *)
(* conversion waits for the system wallet, which is held by a transfer     *)
(* from or to its owner or by a conversion of his; PostgreSQL has to break *)
(* one of them off.  (A circle is finite, be there ever so many tasks.)    *)
WaitsFor(o) == IF o \in Movers THEN T!WaitsFor(o) ELSE C!WaitsFor(o)

OnSystemWallet(o) ==
  IF o \in Movers
  THEN SystemWallet \in {moveJob[o].from, moveJob[o].to}
  ELSE convPc[o] = "pay" /\ C!Mine(o).wallet = SystemWallet

DeadlockNeedsSystem ==
  \A S \in (SUBSET (Movers \cup Converters)) \ {{}} :
    (IsFiniteSet(S) /\ \A o \in S : WaitsFor(o) \in S) =>
      \E c \in S \cap Converters, h \in S :
        convPc[c] = "entries" /\ WaitsFor(c) = h /\ OnSystemWallet(h)

(* The inductive invariant: those of the two modules, which both kinds of  *)
(* tasks keep for each other, and what they have done to the balances.     *)
IInv == T!IInv /\ C!IInv /\ Reconciled

=============================================================================
