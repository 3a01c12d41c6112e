CONSTANTS
  udev = udev
  modules = modules
  zt = zt
  api = api
  Service = {udev, modules, zt, api}
  Stage <- MCStage
  After <- MCAfter
  Ready <- MCReady
  Respawns <- MCRespawns
  Conditional = {udev, zt}
  s1 = s1
  s2 = s2
  s3 = s3
  Startup = {s1, s2, s3}
  Unknown = unknown
  MaxAfter = 2
  Letters <- MCLetters
  MaxTokens = 5
  Params <- MCParams
SPECIFICATION MCSpec
INVARIANTS
  StartsAfterDependencies RefusalHasACause SlicesAreOrdered ConditionsAsWritten
PROPERTIES SecondEnds
CHECK_DEADLOCK FALSE
