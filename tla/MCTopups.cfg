CONSTANTS
  Sources <- MCTopupIds
  TopupIds <- MCTopupIds
  Amount <- MCAmount
  StrayAmounts = {2, 5}
  Handlers = {h1, h2}
  MaxCrashes = 2
  MaxLostReplies = 1
  MaxStrays = 1
  NoTopup = NoTopup
SPECIFICATION FairTopupSpec
INVARIANTS TopupTypeOK CreditDocumented CreditedOnce StatusTellsCredit
PROPERTY ImplementsPromise
CHECK_DEADLOCK FALSE
