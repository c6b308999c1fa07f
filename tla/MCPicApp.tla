------------------------------- MODULE MCPicApp -------------------------------
(***************************************************************************)
(* The composed app with the controller's small instance: a hold of two     *)
(* callbacks, dumps of one chunk, one image to pick.                        *)
(***************************************************************************)
EXTENDS PicApp

CONSTANTS imageA

OnePath == {imageA}
=============================================================================
