------------------------------ MODULE FullName ------------------------------
(***************************************************************************)
(* The names the reflection service gives to services and methods          *)
(* (reflection.c): the length is computed, the buffer allocated, and the   *)
(* name formatted into it by snprintf, which cuts what does not fit.       *)
(* A name is a sequence of characters, its terminating zero left out.      *)
(***************************************************************************)
EXTENDS Integers, Sequences

CONSTANTS
    Names,      \* the names of packages, services and methods
    Dot, Slash, \* the separators
    NULL        \* no package; no result

VARIABLES
    package, service, method,   \* what the descriptors hold
    fullName                    \* the latest result of get_full_method_name

fullNameVars == <<package, service, method, fullName>>

\* grpc_service_descriptor_create and grpc_method_descriptor_create
FullNameInit ==
    /\ package \in Names \union {NULL}
    /\ service \in Names
    /\ method \in Names
    /\ fullName = NULL

\* snprintf(buffer, size, ...) of a text: at most size - 1 characters of it.
SnPrintf(size, text) == IF Len(text) < size THEN text ELSE SubSeq(text, 1, size - 1)

\* grpc_reflection_get_full_service_name: one octet for the zero and, with a
\* package, one for the dot.
FullServiceName ==
    IF package = NULL THEN SnPrintf(Len(service) + 1, service)
    ELSE SnPrintf(Len(service) + 1 + Len(package) + 1, package \o <<Dot>> \o service)

\* grpc_reflection_get_full_method_name, if there is memory for both names.
FullMethodName ==
    SnPrintf(Len(FullServiceName) + Len(method) + 2,
             <<Slash>> \o FullServiceName \o <<Slash>> \o method)

GetFullMethodName ==
    /\ \E result \in {NULL, FullMethodName} : fullName' = result
    /\ UNCHANGED <<package, service, method>>

FullNameSpec == FullNameInit /\ [][GetFullMethodName]_fullNameVars

-----------------------------------------------------------------------------
\* ENHANCEMENTS_SUMMARY.md: "Get full method name".  The name that
\* grpc_reflection_get_full_method_name returns is the path of the method:
\* package, service and method, none of them cut, with the separators.
MethodNameComplete ==
    fullName # NULL =>
        fullName = <<Slash>> \o (IF package = NULL THEN <<>> ELSE package \o <<Dot>>)
                     \o service \o <<Slash>> \o method
=============================================================================
