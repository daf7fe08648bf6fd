SPECIFICATION Spec
CONSTANTS
  NoTurn = NoTurn
  Turns = {t1, t2}
  Reports = {r1}
  Alike = {}
  Reworded = {}
  Texts <- MCTexts
  Notices <- MCNotices
  Guides = {g1}
  GuidanceKinds = {"text+cancel"}
  NoticeCap = 1
SYMMETRY Symmetry
INVARIANTS
  TypeOK
  NoReportSlips
  CutHitsItsStep
  OnlyCutsLoseReports
  OnlyLastCutLosesGuidance
PROPERTIES
  StampMeansSent
