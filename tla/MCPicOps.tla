------------------------------ MODULE MCPicOps ------------------------------
(***************************************************************************)
(* The controller with a hold of two callbacks, dumps of two chunks and two *)
(* images to pick from.                                                     *)
(***************************************************************************)
EXTENDS PicOps

CONSTANTS imageA, imageB

TwoPaths == {imageA, imageB}
=============================================================================
