SPECIFICATION Spec
CONSTANTS
  Unreadable = Unreadable
  Forbidden = {"a/b"}
  Dotted = {"o..d"}
  Short <- MCShort
  Alphabet <- MCAlphabet
  Repos <- MCRepos
  Branches <- MCBranches
  Default <- main
  First <- r1
  Pinnings <- MCPinnings
  Files <- MCFiles
  Environments <- MCEnvironments
  Usual <- MCUsual
  Pushed <- MCPushed
  MaxContexts = 2
  MaxPushes = 1
  MaxFaults = 0
INVARIANT
  CreatePinsTip
