SPECIFICATION Spec
CONSTANTS
  limits <- MCLimits
  kMaxTokenLength = 2
  kSelectors = 2
  kRanges = 2
  kImageSchemas = 2
  kImageBoots = 2
  kMessages = {1, 2, 3, 4, 5, 6, 7, 8, 9, 10, 13, 15, 16, 18}
  kPipelined = {10, 13, 16}
  kMaxSent = 3
  kFineGrained = 30
  Messages <- Tried
  max_frame_bytes = 300
  max_pending_publications = 2
INVARIANTS DeliveredIntact LegalFramesComplete ReadAsWritten StrictDecoding ImageIntact
CHECK_DEADLOCK FALSE
