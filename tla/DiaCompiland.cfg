\* -compiland with a name and other options behind it.
SPECIFICATION Spec
CONSTANTS
  Tried <- Nothing
  Once <- Nothing
  Behind <- Nothing
  CommandLines <- AfterCompiland
  Body <- Table
  MaxItems = 1
  TypeDepth = 1
  SymbolDepth = 1
  Omaps <- MCOmaps
  Rvas <- MCRvas
CHECK_DEADLOCK FALSE
INVARIANTS
  HelpAlwaysHonoured
