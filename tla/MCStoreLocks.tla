---------------------------- MODULE MCStoreLocks ----------------------------
(***************************************************************************)
(* Instances of StoreLocks: which request runs in which process and who    *)
(* owns which job.                                                         *)
(***************************************************************************)
EXTENDS StoreLocks, TLC

CONSTANTS r1, r2, r3, p1, p2, j1, j2, o1, o2

OneProcess == (r1 :> p1) @@ (r2 :> p1) @@ (r3 :> p1)
TwoProcesses == (r1 :> p1) @@ (r2 :> p1) @@ (r3 :> p2)
OneJob == j1 :> o1
TwoJobs == (j1 :> o1) @@ (j2 :> o2)
Symmetry == Permutations({r1, r2})
=============================================================================
