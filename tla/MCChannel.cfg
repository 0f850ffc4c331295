CONSTANTS
  OaRequests = {q1, q2, q3}
  MaxOaInFlight = 2
  MaxOaFaults = 1
  Templates = {t1, t2}
  Codes = {c1}
  Reviewers = {r1, r2, r3}
  CodeAttempts = 2
  MaxReviewersInFlight = 2
SPECIFICATION ChannelSpec
SYMMETRY ChannelSymmetry
INVARIANTS ChannelTypeOK ConnectedIsUsable StatusIsLogged ApprovedIsReadOnly
PROPERTIES StaysDisconnected DisabledUntilStaff
CHECK_DEADLOCK FALSE
