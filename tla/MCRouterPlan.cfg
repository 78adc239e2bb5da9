CONSTANTS
  MaxJobs = 3
  MaxFaults = 3
SPECIFICATION Spec
INVARIANTS  ProvisionedIsComplete
PROPERTIES RollbackCleans
