SPECIFICATION FairSpec
CONSTANTS
  NoTurn = NoTurn
  Turns = {t1}
  Reports = {r1, r2}
  Alike = {r1, r2}
  Reworded = {r1}
  Texts <- MCTexts
  Notices <- MCNotices
  Guides = {g1}
  GuidanceKinds = {"text"}
  NoticeCap = 1
INVARIANTS
  StampMeansRead
  HeadlineAfterText
  NoticesToldAtEnd
  TextOncePerTurn
  DrainedGuidanceHeard
PROPERTIES
  EventuallyReported
