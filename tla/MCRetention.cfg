\* Two tickets and a request, a form that is opened and an obstacle that appears.
CONSTANTS
  NONE = NONE
  Tickets = {t1, t2}
  PolicyTerms <- MCTerms
  ResponseTerm = 1
  ImplementationTerm = 1
  MaxDays = 3
  MaxPreviews = 1
  MaxEdits = 1
  MaxChanges = 1
SPECIFICATION RetentionSpec
SYMMETRY Interchangeable
INVARIANTS TermsAreExtendedOnce
PROPERTIES OnlyReviewedIsSuppressed
CHECK_DEADLOCK FALSE
