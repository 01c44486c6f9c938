SPECIFICATION Spec
CONSTANTS
  N = 3
  Typists <- MCTypists
CHECK_DEADLOCK FALSE
INVARIANTS Terminated NoStuckModifier
PROPERTIES MailboxEmptied EditsLines
