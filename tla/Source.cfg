SPECIFICATION FairSpec
CONSTANTS
  p1 = p1
  NoPath = NoPath
  Path <- Paths
  MAX_RETRIES = 3
INVARIANTS
  TypeOK
  RenamesWhole
  VerifiedIsReleased
  UnverifiedWasAllowed
PROPERTIES
  KeepsTrust
  CancelEndsDownload
