---------------------------- MODULE MCWorkspace -----------------------------
(* Five words of which the top two are the workspace, in pages of one, so  *)
(* that a run of two words can be written by the writing program and one   *)
(* that ends at the workspace cannot.                                      *)
EXTENDS Workspace

MCBlocks == {{0, 1}, {3}}
MCStoreCells == {4}
=============================================================================
