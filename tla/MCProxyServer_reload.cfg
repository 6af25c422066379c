SPECIFICATION Spec
CONSTANTS
  Endpoints = {"b1", "b2", "b3"}  PointHash <- MCPointHash  NoEndpoint = "none"
  max_namespace_length = 2  TooLong = {"long"}
  Concurrency = 1  Files <- MCFilesInside  Keys <- MCKeys
  MaxEdits = 2  MaxSignals = 2  MaxClients = 0  MaxQueries = 0
PROPERTIES ReloadTakesEveryFile
CHECK_DEADLOCK FALSE
