CONSTANTS
  Sources = {t1, s1, q1}
  TopupIds = {t1}
  Amount <- MCAmount
  StrayAmounts = {5}
  Handlers = {h1}
  MaxCrashes = 0
  MaxLostReplies = 0
  MaxStrays = 1
  NoTopup = NoTopup
  SendIds = {s1}
  MessagePrice = 1
  PublicPrice = 2
  MaxInFlight = 1
  Requests = {q1}
  Rows = {r1}
  Prices = {1}
  Ops = {"execute"}
  MaxFaults = 0
  Serial = FALSE
  NoRow = NoRow
  Credits = {3}
SPECIFICATION BillingSpec
INVARIANTS BalanceSinceLastTopup TotalsArePosted
PROPERTY PromisesKept
CHECK_DEADLOCK FALSE
