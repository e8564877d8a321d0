\* load_pe called once more than modules[] has room for, with one TLS slot
\* usable, and with memory running out.
SPECIFICATION Spec
CONSTANTS
  MaxRva = 17
  Images <- FewImages
  Builtins <- MCBuiltins
  BuiltinExports <- MCBuiltinExports
  LibraryAlias <- MCLibraryAlias
  NULL = NULL
  NLoads = 3
  MaxModules = 7
  MaxTls = 2
  MayRunOut = TRUE
INVARIANTS
  LookupsSettled
PROPERTIES
  KeepsPromise
