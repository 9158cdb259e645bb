------------------------------- MODULE VfsMC -------------------------------
(***************************************************************************)
(* Model checking of Vfs: one request at a time, with careful clients,     *)
(* errors and crashes, or two requests of any clients.                     *)
(***************************************************************************)
EXTENDS Vfs

CONSTANTS TwoContents, TwoRequests  \* bounds of two requests at a time

VARIABLE overlap  \* do requests overlap?

\* Threads are interchangeable, and so are the names of files.
Symmetry == Permutations(Threads) \cup Permutations(Segments)

Two == INSTANCE Vfs
  WITH Contents <- TwoContents, Careful <- FALSE, MaxRequests <- TwoRequests,
       MaxFails <- 0, MaxCrashes <- 0

\* One request at a time.
Alone == \A t, u \in Threads : thread[t] # Idle /\ thread[u] # Idle => t = u

MCInit == overlap \in BOOLEAN /\ Init
MCNext ==
  /\ UNCHANGED overlap
  /\ \/ overlap /\ Two!Next
     \/ ~overlap /\ Next /\ Alone'
MCSpec == MCInit /\ [][MCNext]_<<vars, overlap>>

-----------------------------------------------------------------------------

\* When requests do not overlap the sizes of directories are exact ...
SizesExact == ~overlap => DirSizeExact

\* ... the inodes are one tree of directories ...
OneTree == ~overlap => TreeRooted /\ ParentsAreDirs

\* ... and a blob is the one that a row describes, or was left behind by the removal
\* of a directory.
BlobsDescribed == ~overlap => MetaMatchesBlob /\ OrphansOnlyFromDirs

=============================================================================
