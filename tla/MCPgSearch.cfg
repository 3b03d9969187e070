CONSTANTS
  Callers = {c1, c2, c3}
  Connections = {k1}
  Jobs <- MCSearches
  EfSettings = {TRUE, FALSE}
  Nobody = Nobody
  NotRun = NotRun
SPECIFICATION ClientSpec
INVARIANTS SearchesRunAsAsked
SYMMETRY AnyCaller
