--------------------------- MODULE MCMeshConnection ---------------------------
(* Model-checking instances of MeshConnection. *)
EXTENDS MeshConnection, TLC

CallerSymmetry == Permutations(Caller)
=============================================================================
