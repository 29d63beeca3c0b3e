SPECIFICATION Spec
CONSTANTS
  c1 = c1
  c2 = c2
  r1 = r1
  r2 = r2
  warranty = warranty
  discounts = discounts
  rule = rule
  d1 = d1
  d2 = d2
  sales = sales
  finance = finance
  Calls = {c1, c2}
  Requests = {r1}
  Policies = {warranty, discounts}
  Warranty = warranty
  Discounts = discounts
  Rule = rule
  Decisions = {d1, d2}
  Numbers = {1, 2}
  Roles = {sales, finance}
  Dates = {1, 2}
  Malformed = Malformed
  None = None
  MaxFaults = 1
SYMMETRY Symmetry
INVARIANTS   ClosureOrder AuditTrail  FeedbackTellsTruth
CHECK_DEADLOCK FALSE
