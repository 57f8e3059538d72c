SPECIFICATION HistorySpec
CONSTANTS
  Made <- MCMade
  Modded <- MCMade
  Home <- MCHome
  Starts <- MCStarts
  StackSize = 2
  Functions = {"p", "q"}
  Entry <- MCEntry
  Body <- MCBody
  Container <- MCContainer
  Overrides = {"wrapper"}
  Replaces <- MCReplaces
  Natives = {}
  Cost <- MCCost
  NoCode = "nothing"
  DepthLimit = 2
  Budgets = {4}
  Markable = {"q"}
PROPERTIES
  Progress
