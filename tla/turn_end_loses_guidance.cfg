SPECIFICATION Spec
CONSTANTS
  NoTurn = NoTurn
  Turns = {t1}
  Reports = {}
  Alike = {}
  Reworded = {}
  Texts <- MCTexts
  Notices <- MCNotices
  Guides = {g1}
  GuidanceKinds = {"text"}
  NoticeCap = 1
SYMMETRY Symmetry
INVARIANTS
  NoGuidanceLeft
