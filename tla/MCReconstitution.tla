--------------------------- MODULE MCReconstitution ---------------------------
(* Three pieces of two bytes, the last one shorter, cut into four files: one *)
(* that ends inside a piece, an empty one, one across all pieces that has    *)
(* the path of the first, and one at the end.                                *)
EXTENDS Reconstitution

MCCuts == <<0, 1, 1, 4, 5>>
MCPath == <<"a", "b", "a", "c">>
===============================================================================
