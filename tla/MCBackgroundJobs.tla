-------------------------- MODULE MCBackgroundJobs --------------------------
(***************************************************************************)
(* BackgroundJobs with one user and one agent task of that user.           *)
(***************************************************************************)
EXTENDS BackgroundJobs

CONSTANTS u1, t1, a, b, w

MCOwner == [x \in Tasks |-> u1]
=============================================================================
