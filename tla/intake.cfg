CONSTANTS
  Files = {f1, f2, f3}
  f1 = f1
  f2 = f2
  f3 = f3
  n1 = n1
  n3 = n3
  m1 = m1
  Numbers = {n1, n3}
  Mobiles = {m1}
  Contents <- MCContents
  Defects <- MCDefects
  BatchIds = {b1, b2}
  Requests = {r1, r2}
  RoundMultiple = 5
  SurchargeAmount = 2
  None = None
  DocIds = {d1, d2}
  FileNames <- MCFileNames
  Corrections = {8}
SPECIFICATION Spec
SYMMETRY Symmetry
CHECK_DEADLOCK FALSE
INVARIANTS CommittedMeansImported RoundingExplained OneActivePdf
PROPERTIES IdentityUsedOnce PdfLostOnlyToStaleRead
