CONSTANTS
  d1 = d1
  d2 = d2
  k1 = k1
  k2 = k2
  Procs = {p1, p2}
  Decls = {d1, d2}
  Keys = {k1, k2}
  KeyOf <- OwnKeys
  Reasons = {because}
  NoReason = NoReason
  Absent = Absent
  Missing = Missing
  NotRead = NotRead
SYMMETRY GateSymmetry
SPECIFICATION Spec
INVARIANTS
  TypeOK
  ReasonsSurvive
  SmallerAlsoPasses
  NoUnseenDecl
  OnlyGrowthExitsOne
PROPERTIES
  VerdictMatchesDecisions
