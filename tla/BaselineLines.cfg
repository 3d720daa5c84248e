CONSTANTS
  d1 = d1
  d2 = d2
  k1 = k1
  k2 = k2
  Procs = {p1}
  Decls = {d1, d2}
  KeyOf <- SharedKey
  KeyOrder <- MCKeyOrder
  Words = {w}
  Generated = generated
  Tab = Tab
  Hash = Hash
  Coord = Coord
  MaxLines = 4
  MaxEdits = 1
  MaxRuns = 2
  Absent = Absent
  Missing = Missing
  NotRead = NotRead
SPECIFICATION Spec
INVARIANTS
  TypeOK
  ScanFindsBlocks
PROPERTIES
  GateRefined
  RewriteIsStable
  RunsExit
