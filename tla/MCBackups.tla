----------------------------- MODULE MCBackups -----------------------------
(* Model-checking instances of Backups. *)
EXTENDS Backups, TLC

CONSTANTS f1, f2, a1, c1, c2

OneFile == {f1}
TwoFiles == {f1, f2}
OneArchive == {a1}
OneCreate == {c1}
TwoCreates == {c1, c2}

Symmetric == Permutations(Files) \cup Permutations(Creates)
=============================================================================
