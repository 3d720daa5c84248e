CONSTANTS
  Loads <- MCLoads
  PathOf <- MCPathOf
  BaseOf <- MCBaseOf
  FilesOf <- MCFilesOf
  ConsumerLoads = {"con", "conT"}
  TestMains = {"libMain"}
  Files <- MCFiles
  TestFiles <- MCTestFiles
  GeneratedFiles <- MCGeneratedFiles
  Decls <- MCDecls
  PkgOf <- MCPkgOf
  FileOf <- MCFileOf
  KindOf <- MCKindOf
  NConsumers = 2
  GoMods <- MCGoMods
  Fields = {"Field", "Wire"}
  Tagged = {"Wire"}
  Exported = {"Type", "Run", "Error", "IRun", "Field", "Helper"}
  RecvOf <- MCRecvOf
  Satisfies <- MCSatisfies
  OutsideMethods = {"Error"}
  FixedUses <- MCFixedUses
  PossibleUses <- MCPossibleUses
  FixedImports <- MCFixedImports
  PossibleImports <- MCPossibleImports
  OptSet <- MCOptSet
SPECIFICATION Spec
INVARIANT TypeOK
INVARIANT ReportIsExact
INVARIANT FieldReadsAreExact
INVARIANT WorkspaceRemoved
INVARIANT GoWorkServes
CHECK_DEADLOCK FALSE
