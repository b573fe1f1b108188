---------------------------- MODULE MCGdbMemory -----------------------------
(* Four cells in two pages, a two-valued memory, and blocks that lie in a  *)
(* page, across both pages, and across the end of the RAM.                 *)
EXTENDS GdbMemory

MCBlocks == {{0}, {2}, {0, 1}, {1, 2}, {3, 4}}
MCStoreCells == {1, 3}
=============================================================================
