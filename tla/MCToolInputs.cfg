SPECIFICATION Spec
CONSTANTS
  Absent = Absent
  Malformed = Malformed
  MaxUid = 3
  Numeral <- MCNumeral
  Decimal <- MCDecimal
  Unnameable = {"ctl"}
  Oversized <- MCOversized
  MAX_BULK_MESSAGE_IDS = 3
  TextField = {"from", "subject"}
  Words = {"w"}
  Today = 4
  MaxDays = 2
  MinSnippet = 2
  MaxSnippet = 3
  MAX_SEARCH_LIMIT = 2
  MAX_ATTACHMENTS = 2
  PdfLimit = 5
  Ascii = {"a", "T", "A"}
  NonAscii = {"u"}
  Base64 <- MCBase64
  MaxNameLength = 4
  BulkRequests <- MCBulkRequests
  SearchRequests <- MCSearchRequests
  RawMessages <- MCRawMessages
  NamesGiven <- MCNamesGiven
  StoredIds <- MCStoredIds
  StoredMessages <- MCStoredMessages
INVARIANTS
  IdsResolved
  UidSetExact
  SearchMeansFilters
  PartsReported
  NamesAgree
