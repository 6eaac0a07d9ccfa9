SPECIFICATION Spec
CONSTANTS
  Labels = 2
  InputSets <- MCInputSets
  StrayCounts = {0, 1, 2}
INVARIANTS OrderIndependent SecureMeansChain InsecureMeansProof
CHECK_DEADLOCK FALSE
