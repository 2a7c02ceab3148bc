\* Two utterances of up to two chunks and one viseme each, or one with two
\* avatar calls, or four avatar calls; pacat may exit once.
SPECIFICATION MediaSpec
CONSTANTS
  Posts = {p1, p2}
  StreamIds = {s1}
  None = None
  MaxChunks = 2
  MaxPacats = 2
  Stamps = {2}
  Starts = {e0, e1, e2}
  Disables = {d1, d2}
  NoTab = NoTab
  Before = e0
  Budget = 4
INVARIANTS
  SoundAndMouthAgree
  FaceIsClean
PROPERTIES
  PreemptedFallsSilent
  RequestsAreAnswered
CHECK_DEADLOCK FALSE
