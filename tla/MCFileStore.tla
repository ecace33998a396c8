----------------------------- MODULE MCFileStore -----------------------------
(***************************************************************************)
(* Instances of FileStore for TLC.                                         *)
(***************************************************************************)
EXTENDS FileStore, TLC

CONSTANTS k1, k2, k3

CallerSymmetry == Permutations({k1, k2, k3})

=============================================================================
