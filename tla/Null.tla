-------------------------------- MODULE Null --------------------------------
(* The null pointer; as the owner of a mutex, nobody.                      *)

CONSTANT NULL
=============================================================================
