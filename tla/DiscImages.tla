----------------------------- MODULE DiscImages -----------------------------
(***************************************************************************)
(* What the disc library (cdi-disc) answers of an image: where its sectors *)
(* and tracks are, and what is found on it.                                *)
(***************************************************************************)
EXTENDS DiscLayout, Inventory

\* Each sector is read at one frame and tracks tile those of a sheet as rips
\* are made; the inventory of a disc ends and lists what is there (cuesheet.rs,
\* image.rs:63, 191, inventory.rs:467, 520, 829).
DiscInv == LayoutInv /\ InventoryInv
=============================================================================
