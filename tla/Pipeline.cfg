\* Every PDB of MCPipeline on both hosts, with a stdio buffer and a pipe of two
\* pieces each: every interleaving of xdia, its loader and pyxdia.
SPECIFICATION FairSpec
CONSTANTS
  Pdbs <- MCPdbs
  Hosts = {"windows", "loader"}
  StdioCap = 2
  PipeCap = 2
CHECK_DEADLOCK FALSE
INVARIANTS
  TypeOK
  DataIsWhole
  RaisesForCause
  EnumeratorsReleased
PROPERTIES
  Answered
