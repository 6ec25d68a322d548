CONSTANTS
  Base = 13
  NMax = 8
  Short = 4
  HalfMod = 16
  SignedBytes <- MCSignedBytes
  ByteMod = 4
  Messages <- MCMessages
  KnownNames <- MCKnownNames
  Hosts <- MCHosts
SPECIFICATION Spec
INVARIANTS RoundTrip AlteredRefused
CHECK_DEADLOCK FALSE
