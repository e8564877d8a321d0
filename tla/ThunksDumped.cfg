\* A PDB with thunks that have names: xdia dies while it prints one.
SPECIFICATION Spec
CONSTANTS
  Pdbs <- MCPdbs
  Hosts = {"windows", "loader"}
  StdioCap = 2
  PipeCap = 2
CHECK_DEADLOCK FALSE
INVARIANTS
  ThunksDumped
