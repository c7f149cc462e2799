---------------------------- MODULE MCReplaceFile ----------------------------
(* Three writers and two texts of different lengths: enough for a short    *)
(* text to land on a long one and for a rename to find .tmp gone.          *)
EXTENDS ReplaceFile, TLC

CONSTANTS short, long

MCSize == short :> 1 @@ long :> 2

\* Any writer and any inode may stand for any other.
FileSymmetry == Permutations(Writers) \cup Permutations(Inodes)
=============================================================================
