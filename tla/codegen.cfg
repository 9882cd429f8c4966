SPECIFICATION Spec
CONSTANTS
  Name <- Identifiers
  Programs <- WorkingPrograms
  Parsed <- ParseScript
  Compiled <- CompileTarget
  Operations <- OperationsOf
  Same <- Equals
  SameUndefined <- EqualsUndefined
  Parts <- PartsOf
  MeaningOf <- ScriptMeaning
  Longest = 4
  WordBits = 8
INVARIANTS TypeOK Agrees
PROPERTIES CodeSound ArgumentsPassed
