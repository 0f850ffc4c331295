CONSTANTS
  AuthRequests = {q1, q2, q3, q4}
  MaxAttempts = 2
  MaxAuthInFlight = 2
  MaxAuthFaults = 1
  Users = {u1, u2}
  Invitations = {i1}
  ApiKeys = {k1}
  WsRequests = {q1, q2, q3, q4}
  MaxWsInFlight = 2
  MaxWsFaults = 1
  Nobody = Nobody
  Uploads = {q1, q2, q3, q4}
  MaxUploadsInFlight = 3
  MaxUploadFaults = 1
  NoUpload = NoUpload
  Buyers <- SomeBuyers
  Amounts = {5, 6, 7}
  VatRates = {8, 10}
  Words <- SomeWords
  MaxMissed = 1
  KeyLists <- SomeKeys
  CellTexts <- SomeTexts
  EditTexts <- SomeEditTexts
  MaxImportRows = 2
  MaxCells = 4
  FurtherKeys <- SomeFurtherKeys
SPECIFICATION AdminSpec
SYMMETRY AdminSymmetry
INVARIANTS AdminTypeOK CodesAgree RegisteredHasWallet TokensAreVerified MembersWereInvited SecretsAreHandedOut IssuedAsVerified OwnPdfPasses OthersPdfFails RowsAreComplete ImportedAsWritten
PROPERTY InactiveIsFrozen
CHECK_DEADLOCK FALSE
