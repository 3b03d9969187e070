CONSTANTS
  both = both
  pgOnly = pgOnly
  Routers <- MCRouters
  Compiled <- MCCompiled
  Configs <- MCConfigs
  Suffix <- MCSuffix
  IdentMax = 3
  Characters = {"a", "b", "c", "d", "h"}
  SafeCharacters = {"a", "b", "c", "d", "h"}
  IndexableDims = {1, 2}
  Unset = Unset
SPECIFICATION StartupSpec
INVARIANTS StartupTypeOK ServedNamespacesAreTables DimsFitUnlessReconfigured IndexedUnlessNamesClash
PROPERTIES SecondBootIsNoOp
