SPECIFICATION Spec
CONSTANTS
  Monomials <- MCMonomials
  Before <- MCBefore
  Components = {1, 2}
  InputLists <- MCInputLists
  Modes <- MCModes
  TruncDegs <- MCTruncDegs
  ElimInds <- MCElimInds
  MaxGB <- MCMaxGB
INVARIANTS EveryPairAccounted DegreeByDegree TruncationIsReported ExportIsReduced
CHECK_DEADLOCK FALSE
