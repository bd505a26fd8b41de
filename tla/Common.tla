------------------------------- MODULE Common -------------------------------
(* What the modules of objects guarded by one mutex have in common.        *)
EXTENDS Null

CONSTANT
    Threads     \* the threads that use the object

ASSUME CommonAssumption ==
    /\ NULL \notin Threads
    /\ "destroyed" \notin Threads \union {NULL}   \* the state of a lost mutex
=============================================================================
