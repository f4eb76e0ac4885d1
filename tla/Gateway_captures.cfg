SPECIFICATION Spec
CONSTANTS
  Configurations <- MCConfigurations
  RequestLimit = 1
  FaultLimit = 1
INVARIANTS
  HoldsOnlyWhatItUses
  SessionsWhole
PROPERTIES
  StatusReportsStored
  HealthConverges
  RequestsAnswered
