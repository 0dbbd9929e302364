--------------------------- MODULE MCRuntimeUpdate ---------------------------
(* An instance of RuntimeUpdate for TLC.                                    *)
EXTENDS RuntimeUpdate, TLC
CONSTANTS p1, p2, p3
=============================================================================
