------------------------------ MODULE Numbers ------------------------------
(***************************************************************************)
(* Powers, by repeated multiplication: TLAPS knows nothing of ^.           *)
(***************************************************************************)
EXTENDS Integers

Power(b, n) ==
    LET upTo[i \in 0 .. n] == IF i = 0 THEN 1 ELSE b * upTo[i - 1]
    IN  upTo[n]
=============================================================================
