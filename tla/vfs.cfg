\* One careful request at a time, with errors and crashes, or two of any.
SPECIFICATION MCSpec
CONSTANTS
  Threads = {t1, t2}
  Segments = {a, b}
  MaxDepth = 2
  Contents = {0, 1}
  Careful = TRUE
  MaxRequests = 4
  MaxFails = 1
  MaxCrashes = 1
  TwoContents = {1}
  TwoRequests = 4
SYMMETRY Symmetry
INVARIANTS TablesTypeOK FilesReadable SizesExact OneTree BlobsDescribed
\* The bounded number of requests runs out.
CHECK_DEADLOCK FALSE
