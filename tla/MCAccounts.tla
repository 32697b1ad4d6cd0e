------------------------------- MODULE MCAccounts -------------------------------
(***************************************************************************)
(* A small instance of the account services for TLC.                        *)
(*                                                                           *)
(* The model values of one set serve several parts: x1 and x2 are requests,      *)
(* devices, tabs, processes and admins' calls.                                  *)
(***************************************************************************)
EXTENDS AccountServices, TLC

CONSTANTS u1, u2, a1, s1, x1, x2

Two == {x1, x2}
Symmetry == Permutations(Two)
=============================================================================
