SPECIFICATION FairSpec
CONSTANTS
  Jobs = {j1}
  Providers = {"runpod", "gcp", "azure", "aws", "nebius", "lambda", "skypilot", "slurm"}
  NoVerdict = NoVerdict
  EmptyThreshold = 2
  FailureThreshold = 2
  BackoffCycles = 2
  MaxFaults = 1
  MaxRestarts = 1
  MaxRequests = 1
INVARIANTS
  TypeOK
  NoHastyVerdict
  TornDownFirst
PROPERTIES
  EveryEndNoticed
CHECK_DEADLOCK FALSE
