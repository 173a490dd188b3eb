--------------------------- MODULE MCRuntimeOwner ---------------------------
(* A small instance of RuntimeOwner for TLC: a project whose daemons follow *)
(* each other, and a daemon of another project.                            *)
EXTENDS RuntimeOwner

CONSTANTS d1, d2, other

TwoDaemons == {d1, d2}
OneOther == {other}
=============================================================================
