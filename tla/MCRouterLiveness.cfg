\* One permit for all: admission, bodies that never come, timeouts and
\* cancellations under fairness.
CONSTANTS
  r1 = r1
  r2 = r2
  r3 = r3
  Requests = {r1, r2, r3}
  Messages <- LivenessMessages
  Models <- SmallRegistry
  Points = {"p"}
  Workers = 2
  WorkerCount = 1
  BuffersPerWorker = 1
  MaxConcurrent = 1
  MaxRetries = 2
  CounterMod = 3
  Zero = Zero
  NoMessage = NoMessage
  NoVector = NoVector
SPECIFICATION FairSpec
INVARIANT OnlyClientsHoldUp
PROPERTIES ReadRequestsEnd EveryRequestEnds
