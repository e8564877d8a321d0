\* xdialdr: msdia140.dll, then xdia.exe, with the real table sizes.
SPECIFICATION FairSpec
CONSTANTS
  MaxRva = 17
  Images <- MCImages
  Builtins <- MCBuiltins
  BuiltinExports <- MCBuiltinExports
  LibraryAlias <- MCLibraryAlias
  NULL = NULL
  NLoads = 2
  MaxModules = 7
  MaxTls = 32
  MayRunOut = FALSE
INVARIANTS
  TypeOK
  ModuleTableDense
  SectionsFaithful
  RebasedOnce
  ImportsSettled
  PagesProtected
  TlsReady
  OnlyTlsIndexTraps
PROPERTIES
  KeepsPromise
  GoodRunsExit
