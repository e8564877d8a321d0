\* Every option with its words, alone and before others; DIA fails anywhere.
SPECIFICATION Spec
CONSTANTS
  Tried <- LightOptions
  Once <- Heavy
  Behind <- LightBehind
  CommandLines <- MCCommandLines
  Body <- Table
  MaxItems = 1
  TypeDepth = 1
  SymbolDepth = 2
  Omaps <- MCOmaps
  Rvas <- MCRvas
CHECK_DEADLOCK FALSE
INVARIANTS
  TypeOK
  HelpHonoured
  FailsForCause
  DetailBounded
  LookupsRight
  ReleasedOnce
PROPERTIES
  Ends
