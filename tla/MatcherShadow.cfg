SPECIFICATION Spec
CONSTANTS
  Paths <- MCPaths
  MajorVersions <- MCMajorVersions
  Stem <- MCStem
  Begins <- MCBegins
  NoAlias = "none"
  Dot = "."
  PackageOf <- MCPackageOf
  Exports <- MCExports
  Rules <- MCRules
  SourceFiles <- ShadowFiles
INVARIANT LocalNamesAreNotPackages
CHECK_DEADLOCK FALSE
