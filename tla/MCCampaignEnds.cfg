CONSTANTS
  Sources = {q1, q2}
  Requests = {q1, q2}
  Rows = {r1, r2}
  Prices = {1, 2}
  Credits = {2, 4, 5}
  Ops <- RunsOnly
  MaxFaults = 0
  Serial = FALSE
  NoRow = NoRow
SPECIFICATION FairCampaignSpec

PROPERTY RunningEnds
CHECK_DEADLOCK FALSE
