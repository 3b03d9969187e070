CONSTANTS
  Callers = {c1, c2, c3}
  Connections = {k1}
  Jobs <- MCJobs
  EfSettings = {TRUE, FALSE}
  Nobody = Nobody
  NotRun = NotRun
SPECIFICATION ClientSpec
INVARIANTS ClientTypeOK OkMeansExecuted GaugeIsExact
PROPERTIES DatabaseIsImplemented AnswersEndCalls TimersEndCalls
