SPECIFICATION Spec
CONSTANTS
  Plugins <- MCPlugins
  Inits = {"i1", "i2"}
  Keys <- MCKeys
  Versions <- MCVersions
  MaxEdits = 1
  MaxLoads = 2
  MaxFailures = 1
INVARIANTS RegistryExact ReloadIsFresh SkipsOnlyEdited ScaffoldLoads
CHECK_DEADLOCK FALSE
