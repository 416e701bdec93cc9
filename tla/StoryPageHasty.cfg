\* A reader who moves on within a fade.
CONSTANTS
  NCards = 4
  Refusable = {2}
  Doubtful = {}
  None = None
  MaxMoves = 2
SPECIFICATION Spec
INVARIANTS PictureIsCurrent
