------------------------------ MODULE MCSwImage ------------------------------
(* Small instances of SwImage.                                             *)
EXTENDS SwImage

ImageOwners == Images \X (0 .. MaxGen)
=============================================================================
