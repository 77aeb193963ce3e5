---------------------------- MODULE MCProjectClone ----------------------------
(* Two projects and the two slots of the code.  A clone waits for a slot    *)
(* when a run that has settled its row still disposes of its credential     *)
(* while the project is retried: three runs of two projects.                *)
EXTENDS ProjectClone, TLC
Symmetry == Permutations(Project)
=============================================================================
