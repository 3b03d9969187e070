CONSTANTS
  GrpcClients = {g1, g2}
  HttpClients = {h1}
  Launches <- MCLaunches
  Unparsable = Unparsable
  Unset = Unset
  Characters = {"a", "b", ";"}
  SafeCharacters = {"a", "b"}
  IdentMax = 3
SPECIFICATION ProcessSpec
INVARIANTS ServiceStateOK CleanExitCutsNobody VerdictFitsConfig
PROPERTIES DrainNeedsNoTimeout SignalEndsTheProcess
