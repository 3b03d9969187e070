\* Three requests of every kind on two workers, one call each.
CONSTANTS
  r1 = r1
  r2 = r2
  r3 = r3
  Requests = {r1, r2, r3}
  Messages <- PipelineMessages
  Models <- SmallRegistry
  Points = {"p"}
  Workers = 2
  WorkerCount = 2
  BuffersPerWorker = 1
  MaxConcurrent = 3
  MaxRetries = 1
  CounterMod = 3
  Zero = Zero
  NoMessage = NoMessage
  NoVector = NoVector
SPECIFICATION Spec
SYMMETRY RequestSymmetry
INVARIANTS
  TypeOK
  StoreHoldsGenuineVectors
  AnswerFitsMessage
  BuffersStayInsideOnePoll
  PermitsAreConserved
  InflightIsExact
  RequestsAreCountedOnce
PROPERTY PromiseIsKept
