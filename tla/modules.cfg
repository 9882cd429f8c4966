SPECIFICATION Spec
CONSTANTS
  Words <- MCWords
  Builtins <- MCBuiltins
  Bindings <- MCBindings
  Contents <- MCContents
  ScriptItems <- MCScriptItems
  Libraries = {"a", "b"}
  MaxScript = 3
INVARIANTS TypeOK NativesUnique ImportsResolve ImportsReady
PROPERTIES GlobalsKept
CHECK_DEADLOCK FALSE
