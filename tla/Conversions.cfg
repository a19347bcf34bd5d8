SPECIFICATION Spec
CONSTANTS
  t1 = t1
  t2 = t2
  k1 = k1
  k2 = k2
  r1 = r1
  r2 = r2
  nobody = nobody
  NoOwner = nobody
  Tasks <- MCTasks
  Owners <- MCTasks
  Keys <- MCKeys
  Reservations <- MCReservations
  Wallets = {0, 1}
  Players = {0, 1, 2}
  SystemWallet = 0
  InitialBalance <- MCBalance
  MaxBalance = 2
  Rules <- MCRules
  Requests <- MCRequests
SYMMETRY TaskSymmetry
INVARIANTS
  TypeOK
  PaidOnce
  AnswersHonest
  DeadlockNeedsSystem
PROPERTIES
  ImplementsExchange
