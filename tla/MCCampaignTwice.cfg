CONSTANTS
  Sources = {q1, q2}
  Requests = {q1, q2}
  Rows = {r1, r2}
  Prices = {1}
  Credits = {2, 4}
  Ops <- AllOps
  MaxFaults = 0
  Serial = FALSE
  NoRow = NoRow
SPECIFICATION CampaignSpec
INVARIANT OneRunAtATime
CHECK_DEADLOCK FALSE
