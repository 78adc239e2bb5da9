\* A customer put in service by a commissioning.
CONSTANTS
  Demo = FALSE
  Forms <- CommissioningOnly
  Fallback = FALSE
  MaxAttempts = 1
  MaxEvents = 1
  MaxSaves = 1
SPECIFICATION Spec
INVARIANTS ActiveIsAuthorized
