\* Addresses wrap at 10, which the second place of a module ends at.
CONSTANTS
  Executable = 0
  NO_ORIGIN = no_origin
  Top = 10
  Values = {0, 1}
  Blank = 0
  Bases = {5, 7}
  Modules <- MCModules
  Functions <- MCFunctions
  Start <- MCStart
  Code <- MCCode
  Pieces <- MCPieces
  Runs <- MCRuns
  Entries <- MCEntries
  Size <- MCSize
  Made <- MCMade
  Patchable <- MCPatchable
SPECIFICATION Spec
INVARIANT TypeOK
INVARIANT LookupIsRight
INVARIANT FoundIsAsMade
PROPERTY Implements
