------------------------------- MODULE MCPipe -------------------------------
(* An instance of Pipe for TLC. *)
EXTENDS Pipe

CONSTANTS p1, p2, x, y
=============================================================================
