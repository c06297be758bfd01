------------------------- MODULE MCArtifactTransfer -------------------------
(***************************************************************************)
(* Instances of ArtifactTransfer for TLC: an archive behind an action of   *)
(* the page and an image that is read from its source.                     *)
(***************************************************************************)
EXTENDS ArtifactTransfer

CONSTANTS zip, picture
=============================================================================
