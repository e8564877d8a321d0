\* PDBs whose listings xdia cuts short, drops, or takes from another PDB.
SPECIFICATION Spec
CONSTANTS
  Pdbs <- MCLossy
  Hosts = {"windows", "loader"}
  StdioCap = 2
  PipeCap = 2
CHECK_DEADLOCK FALSE
INVARIANTS
  AllListed
