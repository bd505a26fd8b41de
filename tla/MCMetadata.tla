----------------------------- MODULE MCMetadata -----------------------------
(***************************************************************************)
(* Names and values of metadata; one value has a zero byte.                *)
(***************************************************************************)
EXTENDS Metadata

MCKeys == {<<2>>, <<3, 1, 2>>}
MCValues == {<<>>, <<1, 0, 3>>, <<2, 2, 2, 1>>}
=============================================================================
