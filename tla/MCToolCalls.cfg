CONSTANTS
  Platform = "linux"
  MaxSubgraphDepth = 3
  MaxPanels = 4
  Trees <- MCTrees
  Requests <- MCRequests
SPECIFICATION Spec
INVARIANTS PlanExecutable StreamsAsAsked FigureFaithful GraphWritten AnswerComplete
