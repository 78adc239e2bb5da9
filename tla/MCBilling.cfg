\* Two subscriptions of one customer, corrections and a suspension.
CONSTANTS
  s1 = s1  s2 = s2
  Subscriptions = {s1, s2}
  Price = 2
  Amounts = {1, 3}
  MaxInvoices = 3
  MaxPayments = 2
  MaxMemos = 1
  MaxRefunds = 1
  MaxProposals = 1
  MaxMonths = 1
SPECIFICATION Spec
SYMMETRY Interchangeable
INVARIANTS BooksAgree AllocationIsExact RefundStaysCovered SuspensionFollows
PROPERTIES RenewalIsPaid
CHECK_DEADLOCK FALSE
