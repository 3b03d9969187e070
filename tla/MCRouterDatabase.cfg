\* Retries, timeouts and late application; the pool is short of buffers.
CONSTANTS
  r1 = r1
  r2 = r2
  Requests = {r1, r2}
  Messages <- DatabaseMessages
  Models <- SmallRegistry
  Points = {"p", "q"}
  Workers = 2
  WorkerCount = 1
  BuffersPerWorker = 1
  MaxConcurrent = 2
  MaxRetries = 3
  CounterMod = 3
  Zero = Zero
  NoMessage = NoMessage
  NoVector = NoVector
SPECIFICATION Spec
SYMMETRY RequestSymmetry
INVARIANTS
  InflightIsExact
  RequestsAreCountedOnce
  SingleWriterIsDurable
PROPERTIES PoolIsImplemented PromiseIsKept
