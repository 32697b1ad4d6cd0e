------------------------------- MODULE MCResume -------------------------------
(***************************************************************************)
(* Small instances of the resume library for TLC.                          *)
(***************************************************************************)
EXTENDS ResumeLibrary, TLC

\* Requests are interchangeable, and so are the ids of resumes.
Symmetry == Permutations(Request) \cup Permutations(Resume)
=============================================================================
