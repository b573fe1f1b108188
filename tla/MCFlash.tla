------------------------------- MODULE MCFlash -------------------------------
(* Instances of the flash jobs. *)
EXTENDS FlashProperties

(* Two sectors of two units: blocks that end inside their sector.          *)
InnerBlocks == {{0}, {2}}

(* A block that ends with its sector. *)
EdgeBlocks == {{0}, {1}}

OneSectorBlocks == {{0}}

(* Two sectors of one unit: every block ends with a sector. *)
EndBlocks == {{0}, {0, 1}}
=============================================================================
