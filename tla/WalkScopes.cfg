SPECIFICATION Spec
CONSTANTS
  Files = {"handler", "handler_test", "store"}
  ScopeDirs <- MCScopeDirs
  DirsTo <- MCDirsTo
  SkippedFiles = {"handler_test"}
  Heads <- MCHeads
  Nodes <- MCNodes
  Snippet <- MCSnippet
  Blank = "blank"
  Matchers = {"NilGuard", "ForbiddenCallsite"}
  Matches <- MCMatches
  Commits <- ScopeCommits
INVARIANT ScopesAreScanned
