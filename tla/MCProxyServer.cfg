SPECIFICATION FairSpec
CONSTANTS
  Endpoints = {"b1", "b2", "b3"}  PointHash <- MCPointHash  NoEndpoint = "none"
  max_namespace_length = 2  TooLong = {"long"}
  Concurrency = 2  Files <- MCFiles  Keys <- MCKeys
  MaxEdits = 2  MaxSignals = 2  MaxClients = 1  MaxQueries = 1
INVARIANTS LocatorBeforeQuery RoutedAsConfigured ReloadIsDefined
PROPERTIES KeysMoveLittle ReloadTakesFile WorkersConverge ServerStops
CHECK_DEADLOCK FALSE
