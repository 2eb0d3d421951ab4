SPECIFICATION EntropySpec
CONSTANTS
  STATIONS <- MCStations
  Data <- MCData
  Epoch = 4
  Time = {1, 2}
  Leftovers = {0, 3}
  Wide = 8
  Narrow = 4
  Null = Null
  Waiting = Waiting
  HttpError = HttpError
  Malformed = Malformed
  Unusable = Unusable
  NoFile = NoFile
  OldFile = OldFile
  TornFile = TornFile
  NoBundle = NoBundle
\* A build ends.
CHECK_DEADLOCK FALSE
INVARIANTS
  ArchiveRederives
  OrderIsImmaterial
  BytesBindTheData
  MeasurementsAreStored
PROPERTIES
  OnlyAnsweredBundlesAreArchived
