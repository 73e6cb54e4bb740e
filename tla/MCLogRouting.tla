----------------------------- MODULE MCLogRouting -----------------------------
(***************************************************************************)
(* LogRouting on a small instance: two file names, room for three streams, *)
(* the build that reads the address file, two failures that leak.          *)
(***************************************************************************)
EXTENDS LogRouting

CONSTANTS f1, f2

MCName == {f1, f2}
=============================================================================
