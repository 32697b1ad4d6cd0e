------------------------------- MODULE MCHiring -------------------------------
(***************************************************************************)
(* Small instances of the hiring pipeline for TLC.                         *)
(***************************************************************************)
EXTENDS HiringPipeline, TLC

\* All applications are one candidate's, so that every accept can meet every other.
OneCandidate == [a \in Apps |-> "candidate"]

\* Requests are interchangeable.
Symmetry == Permutations(Req)
=============================================================================
