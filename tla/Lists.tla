------------------------------- MODULE Lists -------------------------------
(***************************************************************************)
(* Operators on sequences that stand for the linked lists of the code.     *)
(* They are written as recursive functions, about which proofs can reason. *)
(***************************************************************************)
EXTENDS Integers, Sequences

\* The elements of a list.
Elements(s) == {s[i] : i \in 1 .. Len(s)}

\* The elements of s that belong to S, in the order of s.
Filter(s, S) ==
    LET upTo[i \in 0 .. Len(s)] ==
          IF i = 0 THEN <<>>
          ELSE IF s[i] \in S THEN Append(upTo[i - 1], s[i]) ELSE upTo[i - 1]
    IN  upTo[Len(s)]
=============================================================================
