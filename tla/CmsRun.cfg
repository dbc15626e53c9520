SPECIFICATION MCSpec
CONSTANTS
  e1 = e1
  e2 = e2
  image = image
  config = config
  c1 = c1
  c2 = c2
  Absent = Absent
  NoSha = NoSha
  Editors = {e1, e2}
  Paths = {image, config}
  Editable = {image}
  Folders <- MCFolders
  Filenames = {"photo"}
  Target <- MCTarget
  Contents = {c1, c2}
  MaxWrites = 2
  MaxPushes = 1
CHECK_DEADLOCK FALSE
INVARIANTS
  IndInv
  AnswersTrue
  OneCommitPerWrite
PROPERTIES
  ImplementsVersionedStore
  RequestsEnd
