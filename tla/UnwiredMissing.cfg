CONSTANTS
  d1 = d1
  d2 = d2
  k1 = k1
  k2 = k2
  Procs = {p1, p2}
  Decls = {d1}
  Keys = {k1}
  KeyOf <- OneDecl
  Reasons = {}
  NoReason = NoReason
  Absent = Absent
  Missing = Missing
  NotRead = NotRead
SPECIFICATION Spec
INVARIANTS
  MissingBaselineExitsOne
