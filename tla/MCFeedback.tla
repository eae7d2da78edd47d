----------------------------- MODULE MCFeedback -----------------------------
(***************************************************************************)
(* Feedback on three rows of two users, with interchangeable requests.     *)
(***************************************************************************)
EXTENDS Feedback, TLC

MCSymmetry == Permutations(Requests)
=============================================================================
