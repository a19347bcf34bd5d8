SPECIFICATION FairSpec
CONSTANTS
  t1 = t1
  t2 = t2
  k1 = k1
  k2 = k2
  k3 = k3
  nobody = nobody
  NoOwner = nobody
  Tasks <- MCTasks
  Owners <- MCTasks
  Keys <- MCKeys
  Wallets = {1, 2, 3}
  InitialBalance <- MCBalance
  MaxBalance = 2
  Calls <- MCCalls
INVARIANTS
  TypeOK
  UniqueRequests
  StoredResponsesMatch
  AnswersMatch
PROPERTIES
  ImplementsLedger
  Answered
