SPECIFICATION Spec
CONSTANTS
  Name <- Identifiers
  Programs <- Unlabelled
  Parsed <- ParseScript
  Compiled <- CompileTarget
  Operations <- OperationsOf
  Same <- Equals
  SameUndefined <- EqualsUndefined
  Parts <- PartsOf
  MeaningOf <- ScriptMeaning
  Longest = 1
  WordBits = 8
INVARIANT Agrees
