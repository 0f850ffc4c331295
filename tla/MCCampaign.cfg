CONSTANTS
  Sources = {q1, q2}
  Requests = {q1, q2}
  Rows = {r1, r2}
  Prices = {1}
  Credits = {2, 4}
  Ops <- AllOps
  MaxFaults = 1
  Serial = FALSE
  NoRow = NoRow
SPECIFICATION CampaignSpec
SYMMETRY CampaignSymmetry
INVARIANTS CampaignTypeOK RunCostsItsSuccesses SuccessWasSent
PROPERTY ImplementsPrepaidBatch
CHECK_DEADLOCK FALSE
