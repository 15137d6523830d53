CONSTANTS
  DATA_BITS = 1
  CODE_BITS = 2
  WORDS = 2
  IDT_WORDS = 0
  CLIENT_WORDS = 1
  SEAL_AFTER_RO = TRUE
  SysctlValues = {TRUE}
  WrittenWords <- ZeroOrAll
  MAX_FLIPS = 1
SPECIFICATION FairSpec
INVARIANTS CodesMatchAtRest
PROPERTIES FlipsHeal
