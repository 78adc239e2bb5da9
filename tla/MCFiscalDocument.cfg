\* One document, every operation, two workers that stall and die.
CONSTANTS
  D1 = D1  D2 = D2  D3 = D3
  Docs = {D1}
  Jobs = {j1, j2, j3}
  Workers = {w1, w2}
  Requested = {"stamp", "recover", "cancel", "cancellation_status", "pdf"}
  Globals = {}
  Parent <- Alone
  Prior <- NonePrior
  NoDoc = NoDoc
  NoJob = NoJob
  MaxAttempts = 2
SPECIFICATION Spec
SYMMETRY Interchangeable
INVARIANTS TypeOK OneLiveClaim  
  
CHECK_DEADLOCK FALSE
