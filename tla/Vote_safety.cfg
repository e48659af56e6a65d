SPECIFICATION Spec
CONSTANTS
  Proc = {p1, p2}
  Cand = {a, b, c}
  Slots = 2
  MaxCasts = 2
INVARIANTS VoteTypeOK BallotLegal KeptIsOnRecord HistoryEndsWithBallot StarsAreTheVote
CHECK_DEADLOCK FALSE
SYMMETRY Symmetry
