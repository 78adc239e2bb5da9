\* Every kind of form, deliveries that fail, the application out of reach.
CONSTANTS
  Demo = FALSE
  Forms <- BothForms
  Fallback = TRUE
  MaxAttempts = 1
  MaxEvents = 3
  MaxSaves = 1
SPECIFICATION FairSpec
INVARIANTS EnabledFollows  
PROPERTIES ActiveIsEnabled 
