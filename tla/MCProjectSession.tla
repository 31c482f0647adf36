-------------------------- MODULE MCProjectSession --------------------------
(* The instances the runs check: projects that can be opened, one that      *)
(* cannot be parsed, and an empty directory.                                *)
EXTENDS ProjectSession, TLC

CONSTANTS mine, yours, broken, fresh, t1
=============================================================================
