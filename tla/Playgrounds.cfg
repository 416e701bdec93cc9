\* A history of three frames; three examples and answers in any order; two texts
\* that compile and one that does not; the I and the T piece on a board 5 wide and 5 high.
CONSTANTS
  Cap = 3
  MaxFrames = 6
  Examples = {e1, e2, e3}
  Options = {e1, e2}
  First = e1
  Typed = typed
  NoText = none
  MaxFetches = 3
  MaxPresses = 2
  Source = source
  Drafts = {mine, other, bad}
  Broken = {bad}
  Nothing = nothing
  Width = 5
  Height = 5
  SpawnX = 1
  Pieces = {"I", "T"}
  MaxLocked = 3
SPECIFICATION Spec
INVARIANTS HistoryOK PageOK RunOK GameOK
PROPERTIES PastIsFrozen ChecksAreAnswered PressAnswered PieceLocks
