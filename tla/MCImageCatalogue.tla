-------------------------- MODULE MCImageCatalogue --------------------------
(* ImageCatalogue on small instances. *)
EXTENDS ImageCatalogue, TLC

CONSTANTS platform, other, user, base, child, stranger

(* One image is built from the other, a third from neither.                *)
MCLayers == (base :> <<"a">>) @@ (child :> <<"a", "b">>) @@ (stranger :> <<"c", "b">>)
=============================================================================
