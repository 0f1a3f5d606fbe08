\* One candidate, and two edits of it.
CONSTANTS
  NumFacts = 1
  Texts = {"t"}
  NormKey <- SameKey
  Fit <- FitTexts
  Gradings = {50, 90}
  Promoters = {m1}
  Unedited = TRUE
  MaxEdits = 2
  NoFile = NoFile
  Pages = {g1}
  SizeOf <- Sizes
  MaxSaves = 1
  MaxSeconds = 1
  MaxWalkFaults = 0
  Gone = Gone
CHECK_DEADLOCK FALSE
SPECIFICATION ReviewSpec
INVARIANTS UnreviewedStayOut
