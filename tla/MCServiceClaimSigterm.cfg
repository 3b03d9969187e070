CONSTANTS
  GrpcClients = {g1, g2}
  HttpClients = {h1}
SPECIFICATION ServiceSpec
INVARIANT SigtermCutsNobody
