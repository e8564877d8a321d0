\* An empty file at one of the paths.
SPECIFICATION Spec
CONSTANTS
  MaxRva = 17
  Images <- MCImages
  Builtins <- MCBuiltins
  BuiltinExports <- MCBuiltinExports
  LibraryAlias <- MCLibraryAlias
  NULL = NULL
  NLoads = 2
  MaxModules = 7
  MaxTls = 32
  MayRunOut = FALSE
INVARIANTS
  MmapFailureAsserted
