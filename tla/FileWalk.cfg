SPECIFICATION Spec
CONSTANTS
  Paths <- MCPaths
  MajorVersions <- MCMajorVersions
  Stem <- MCStem
  Begins <- MCBegins
  NoAlias = "none"
  Dot = "."
  PackageOf <- MCPackageOf
  Exports <- MCExports
  Rules <- MCRules
  SourceFiles <- MCSourceFiles
INVARIANT TypeOK
INVARIANT CallsAreExact
INVARIANT GuardsAreExact
INVARIANT BoundariesAreExact
CHECK_DEADLOCK FALSE
