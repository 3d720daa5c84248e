SPECIFICATION Spec
CONSTANTS
  Fields <- AllFields
  KeyOf <- MCKeyOf
  StructOf <- MCStructOf
  DirOf <- MCDirOf
  ElemOf <- MCElemOf
  JsonOf <- MCJsonOf
  Tagged <- MCTagged
  InTypesFile <- MCInTypesFile
  ListStructs = {"WidgetList"}
  NoRoot = "no root"
  TypesDirs = {"api", "other"}
  Dot = "."
  Bracket = "["
  MinServed = 2
  Commits <- HistoryCommits
INVARIANT ExitOneIsAVerdict
