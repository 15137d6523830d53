CONSTANTS
  DATA_BITS = 2
  CODE_BITS = 3
  WORDS = 2
  IDT_WORDS = 1
  CLIENT_WORDS = 0
  SEAL_AFTER_RO = TRUE
  SysctlValues = {TRUE, FALSE}
  WrittenWords <- ZeroOrAll
  MAX_FLIPS = 2
SPECIFICATION Spec
INVARIANTS TypeOK FlipsAccounted NoFault PagesStaySealed
PROPERTIES WriteRestores ReportsExplained
