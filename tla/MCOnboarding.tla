------------------------------ MODULE MCOnboarding ------------------------------
(***************************************************************************)
(* Small instances of employer onboarding for TLC.                         *)
(***************************************************************************)
EXTENDS EmployerOnboarding, TLC

CONSTANTS ann, bob, a1, b1, b2, acme, other, acmes, others, t1, t2, c1, c2

\* Ann has an account; Bob's address has one, and a second one when the first is deleted.
Addresses == [a \in {a1, b1, b2} |-> IF a = a1 THEN ann ELSE bob]

\* Ann's address is on the domain of Acme's website, Bob's on that of Other's.
Domains  == [e \in {ann, bob} |-> IF e = ann THEN acmes ELSE others]
Websites == [m \in {acme, other} |-> IF m = acme THEN acmes ELSE others]
Acmes    == [m \in {acme} |-> acmes]

\* An employer of Other may move its website off Bob's domain, onto Ann's.
Moves == {<<other, acmes>>}

Nobody == {}
\* Bob may have been activated before activation linked a company.
LegacyBob == {<<t1, b1, acme>>}

Symmetry == Permutations(Call)
=============================================================================
