SPECIFICATION Spec
CONSTANTS
  Programs <- MCPrograms
  Limits = {1, 3}
  Natives <- MCNatives
  Methods <- MCMethods
  HostAnswer <- MCHostAnswer
  MatchPattern <- Bindings
  MaxFrames = 1000
  MaxFan = 5
INVARIANT AnswerIsMeaning
PROPERTIES ImplementsFrameTree EvaluationEnds
