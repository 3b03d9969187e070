\* The metric label of a request for an unknown model.
CONSTANTS
  r1 = r1
  r2 = r2
  Requests = {r1, r2}
  Messages <- PipelineMessages
  Models <- SmallRegistry
  Points = {"p"}
  Workers = 1
  WorkerCount = 1
  BuffersPerWorker = 1
  MaxConcurrent = 2
  MaxRetries = 2
  CounterMod = 3
  Zero = Zero
  NoMessage = NoMessage
  NoVector = NoVector
SPECIFICATION Spec
INVARIANT UnknownModelsShareALabel
