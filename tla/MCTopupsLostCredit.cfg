CONSTANTS
  Sources <- MCTopupIds
  TopupIds <- MCTopupIds
  Amount <- MCAmount
  StrayAmounts = {3}
  Handlers = {h1, h2, h3}
  MaxCrashes = 2
  MaxLostReplies = 0
  MaxStrays = 0
  NoTopup = NoTopup
SPECIFICATION TopupSpec
INVARIANT BalanceHoldsCredits
CHECK_DEADLOCK FALSE
