------------------------------- MODULE MCFiles -------------------------------
(* A model-checking instance of Files: a directory with two files, named  *)
(* with and without "..".                                                  *)
EXTENDS Files, TLC

MCPaths == {Root, <<"root", "a">>, <<"root", "a", "b">>, <<"root", "a", "c">>}
MCRels == {<<>>, <<"a", "b">>, <<"a", "b", "..">>, <<"..", "a">>}

Symmetric == Permutations(Requests)
=============================================================================
