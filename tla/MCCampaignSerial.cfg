CONSTANTS
  Sources = {q1, q2, q3, q4}
  Requests = {q1, q2, q3, q4}
  Rows = {r1, r2, r3}
  Prices = {1}
  Credits = {3}
  Ops <- AllOps
  MaxFaults = 0
  Serial = TRUE
  NoRow = NoRow
SPECIFICATION CampaignSpec
SYMMETRY CampaignSymmetry
INVARIANT SerialRequestsAgree
PROPERTY CancelledIsFrozen
CHECK_DEADLOCK FALSE
