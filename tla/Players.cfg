SPECIFICATION Spec
CONSTANTS
  t1 = t1
  t2 = t2
  p1 = p1
  p2 = p2
  Tasks <- MCTasks
  Ids <- MCIds
  Names = {"ann", "bob", "longer"}
  Storable = {"ann", "bob"}
  Requests <- MCRequests
INVARIANTS
  TypeOK
  RegistrationTrail
  AnswersHonest
