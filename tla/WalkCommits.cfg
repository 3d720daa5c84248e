SPECIFICATION Spec
CONSTANTS
  Files = {"handler", "handler_test", "store"}
  ScopeDirs <- MCScopeDirs
  DirsTo <- MCDirsTo
  SkippedFiles = {"handler_test"}
  Heads <- MCHeads
  Nodes <- MCNodes
  Snippet <- MCSnippet
  Blank = "blank"
  Matchers = {"NilGuard", "ForbiddenCallsite"}
  Matches <- MCMatches
  Commits <- WalkCommits
INVARIANT TypeOK
INVARIANT WalkIsExact
INVARIANT SplitWalksAgree
PROPERTY NewGuardIsDecided
PROPERTY GateImplemented
PROPERTY Judged
