SPECIFICATION SpecInput
CONSTANTS
  None = None
  Longest <- LongestInputs
CHECK_DEADLOCK FALSE
INVARIANTS
  AdaptersAgree
  OutgoingIsClean
  AnswersAreGrounded
  ValidatorsAreExact
  BooksBalance
  MigrationsReachTables
