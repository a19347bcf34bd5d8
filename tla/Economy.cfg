SPECIFICATION Spec
CONSTANTS
  m1 = m1
  m2 = m2
  c1 = c1
  k1 = k1
  k2 = k2
  r1 = r1
  nobody = nobody
  NoOwner = nobody
  Movers <- MCMovers
  Converters <- MCConverters
  Owners <- MCOwners
  Keys <- MCKeys
  Reservations <- MCReservations
  Wallets = {0, 1, 2}
  Players = {0, 1, 2}
  SystemWallet = 0
  InitialBalance <- MCBalance
  MaxBalance = 3
  Rules <- MCRules
  Requests <- MCRequests
  Calls <- MCCalls
SYMMETRY MoverSymmetry
INVARIANTS
  OneEffectPerKey
  AnswersHonest
  Reconciled
  DeadlockNeedsSystem
