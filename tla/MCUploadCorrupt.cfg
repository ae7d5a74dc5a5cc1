SPECIFICATION FairSpec
CONSTANTS
  FileSizes = {0, 1, 2, 3, 4, 5, 6}
  ChunkSizes = {1, 2, 3}
  Askers = {"nobody", "mailbox", "no_mailbox"}
INVARIANT SuccessIsStoredFile
CHECK_DEADLOCK FALSE
