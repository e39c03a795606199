---------------------------- MODULE MCBinaryWrite ----------------------------
(* BinaryWrite for TLC.  Two process ids let a pid return while the other's   *)
(* files are still there; they are interchangeable.                           *)
EXTENDS BinaryWrite, TLC

CONSTANTS p1, p2

MCPids == {p1, p2}

Both == {TRUE, FALSE}
Unix == {FALSE}

PidSymmetry == Permutations(MCPids)
===========================================================================
