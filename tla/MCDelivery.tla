----------------------------- MODULE MCDelivery -----------------------------
(***************************************************************************)
(* Instances of the delivery chain for TLC.                                *)
(***************************************************************************)
EXTENDS Delivery

CONSTANTS f, t

NoLines    == {}
FirstLine  == {<<f, 1>>}
SecondLine == {<<f, 2>>}
=============================================================================
