SPECIFICATION Spec
CONSTANTS
  r1 = r1
  r2 = r2
  b1 = b1
  b2 = b2
  b3 = b3
  image = image
  headers = headers
  NoRel = NoRel
  NoFile = NoFile
  Junk = Junk
  Rel <- Releases
  Name <- Names
  Build <- Builds
  Lists <- Debs
  ReleaseOf <- BuiltAs
  Earlier <- Sessions
  Unverified <- Unvouched
  Slot = {1, 2}
  MaxListings = 2
  MaxMeddles = 1
INVARIANTS
  TypeOK
  GivenIsOneBuild
  TabIsTruthful
  InstallsChecked
CHECK_DEADLOCK FALSE
