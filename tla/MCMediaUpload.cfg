SPECIFICATION FairSpec
CONSTANTS
  Uploads = {u1, u2}
  Size = 5
  ChunkSize = 2
  MaxMishaps = 3
INVARIANTS
  PictureHasFile
  AnswerIsTrue
PROPERTIES
  UploadSettles
\* every upload may be over
CHECK_DEADLOCK FALSE
