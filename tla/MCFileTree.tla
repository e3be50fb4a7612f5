----------------------------- MODULE MCFileTree -----------------------------
(* An instance of FileTree for TLC: trees of a few inodes. *)
EXTENDS FileTree, TLC

CONSTANTS p1, p2

ShortPaths == {<<"a">>, <<"/", "b">>, <<"a", "b">>, <<"..">>, <<"..", "b">>}
AB == <<"a", "b">>
LinkTargets == {<<"a">>, <<"/", "b">>}

Symmetric == Permutations(Proc)
=============================================================================
