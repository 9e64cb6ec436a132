SPECIFICATION ReadersSpec
CONSTANTS
  Bytes = {0, 1, 3}
  MaxBytes = 9
  MaxRead = 3
  MaxConns = 2
  Sent <- MCSent
  MaxPayloads = 3
  Texts <- MCTexts
  RxLines <- MCRxLines
  LINE_CAP = 3
  MaxLines = 3
  MaxTokens = 3
  MaxOpens = 2
  RECEIVER_SILENT_AFTER = 1
  Heights = {1, 2}
  PlotCap = 4
  MaxSamples = 10
  MaxFramesIn = 2
  MaxNow = 2
  Cities <- MCCities
  Admins <- MCAdmins
  Countries <- MCCountries
  Zips <- MCZips
  FoldOf <- MCFold
  US <- MCUS
  Typed <- MCTyped
  SCAN_CAP = 6
  RESULT_LIMIT = 3
  MaxQuery = 4
  Receivers <- MCReceivers
  Tables <- MCTables
  Callers <- MCCallers
  Filters <- MCFilters
  Chars = {65, 32, 13, 10, 37, 127, 195}
  MaxTyped = 3
  Legacy <- MCLegacy
  HandEdits <- MCHandEdits
  MaxEdits = 2
  MaxRuns = 3
  MaxBroken = 2
INVARIANTS
  DeframerIsExact
  InspectorAccounts
  DecodingIsExact
  ReceiverIsTrue
  ReadoutsTrue
  
  BrowserIsTrue
  RequestIsAsMeant
  
CHECK_DEADLOCK FALSE
