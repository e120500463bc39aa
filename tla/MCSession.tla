------------------------------ MODULE MCSession ------------------------------
(* A user with a password account and a document, one who can only sign up, *)
(* and one with Google; handlers overlap in twos.                            *)
EXTENDS Session, TLC

CONSTANTS ann, bob, gus

MCAccount == {ann, bob, gus}
MCGoogle == {gus}
MCAnn == {ann}

Symmetry == Permutations(Task)
=============================================================================
