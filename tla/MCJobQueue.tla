------------------------------ MODULE MCJobQueue ------------------------------
(***************************************************************************)
(* Two workers on two jobs of one tenant; another tenant has none.         *)
(***************************************************************************)
EXTENDS JobQueue, TLC

CONSTANTS j1, j2, a, b, w1, w2

TwoJobs == {j1, j2}
TwoTenants == {a, b}
TwoWorkers == {w1, w2}
SameTenant == j1 :> a @@ j2 :> a
=============================================================================
