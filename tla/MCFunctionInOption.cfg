SPECIFICATION Spec
CONSTANTS
  Programs <- FunctionInOption
  Limits = {2}
  Natives <- MCNatives
  Methods <- MCMethods
  HostAnswer <- MCHostAnswer
  MatchPattern <- Bindings
  MaxFrames = 1000
  MaxFan = 5
INVARIANT AnswerIsMeaning
