----------------------------- MODULE MCFullName -----------------------------
(* An instance of FullName for TLC.                                        *)
EXTENDS FullName

MCNames == {<<"a">>, <<"a", "b">>}
=============================================================================
