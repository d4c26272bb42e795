---------------------------- MODULE MCScpReceive ----------------------------
(* Three destinations; one of them is the temporary name of another.        *)
(* Workers are interchangeable: only safety properties are checked, for     *)
(* which the reduction is sound.                                            *)
EXTENDS ScpReceive, TLC

CONSTANTS a, aPart, b, bPart, bPartPart

MCPaths == {a, b, bPart}
MCNames == {a, aPart, b, bPart, bPartPart}
MCPartName == (a :> aPart) @@ (b :> bPart) @@ (bPart :> bPartPart)

Symmetry == Permutations(Workers)
=============================================================================
