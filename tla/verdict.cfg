SPECIFICATION MCSpec
CONSTANTS
  Func <- MCFunc
  Value <- MCValue
  Functions <- MCFunctions
  Sources <- SearchedSources
  Truthy = {1}
  MaxCalls = 3
  MaxUnroll = 2
  MaxInline = 2
  MaxEdges = 6
  MaxStates = 100
INVARIANT VerdictRight
