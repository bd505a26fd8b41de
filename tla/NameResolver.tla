---------------------------- MODULE NameResolver ----------------------------
(***************************************************************************)
(* The name resolver of name_resolver.c: resolve() frees the current list  *)
(* of addresses, asks DNS, the static target or the application's callback *)
(* for a new one, counts it and installs it, all with resolver->mutex held.*)
(* get_addresses and get_address_count take the mutex for a single read,   *)
(* and get_addresses hands out the resolver's own list, not a copy.        *)
(*                                                                         *)
(* A list is identified by the resolution that allocated it; what matters  *)
(* of it is its length and whether it has been freed.                      *)
(***************************************************************************)
EXTENDS Common, Integers

CONSTANTS
    MaxResolves,   \* bound: resolutions that return a list
    MaxAddresses   \* bound: addresses a DNS answer or a callback returns

ASSUME ResolverAssumption ==
    /\ NULL \notin Nat
    /\ MaxResolves \in Nat
    /\ MaxAddresses \in Nat \ {0}

VARIABLES
    kind,          \* resolver->type
    custom,        \* resolver->custom_resolve is set
    addresses,     \* resolver->addresses: NULL or a list
    addressCount,  \* resolver->address_count
    resolverLock,  \* owner of resolver->mutex
    length,        \* length[l]: the addresses of list l, 0 if not allocated
    freedLists,    \* the lists that have been freed
    stage,         \* stage[t]: where thread t is
    using,         \* using[t]: the list t got from get_addresses and still reads
    seen,          \* seen[t]: what get_address_count told t, while it reads
    destroyed      \* grpc_name_resolver_destroy has returned

resolverVars == <<kind, custom, addresses, addressCount, resolverLock, length,
                  freedLists, stage, using, seen, destroyed>>

Kinds == {"DNS", "STATIC", "CUSTOM"}
AddressLists == 1 .. MaxResolves

Allocated == {l \in AddressLists : length[l] > 0}

-----------------------------------------------------------------------------
\* grpc_name_resolver_create
ResolverInit ==
    /\ kind \in Kinds
    /\ custom = FALSE
    /\ addresses = NULL
    /\ addressCount = 0
    /\ resolverLock = NULL
    /\ length = [l \in AddressLists |-> 0]
    /\ freedLists = {}
    /\ stage = [t \in Threads |-> "idle"]
    /\ using = [t \in Threads |-> NULL]
    /\ seen = [t \in Threads |-> NULL]
    /\ destroyed = FALSE

\* grpc_dns_resolve, grpc_static_resolve or the callback: the lengths of the
\* lists it may return, 0 for NULL.  A static target is one address.
Answers ==
    CASE kind = "DNS" -> 0 .. MaxAddresses
      [] kind = "STATIC" -> {0, 1}
      [] kind = "CUSTOM" -> IF custom THEN 0 .. MaxAddresses ELSE {0}

\* grpc_resolved_address_list_destroy of the current list.
Bug_FreeNothing == freedLists
FreeCurrent == freedLists \cup ({addresses} \ {NULL})

\* resolve: lock, drop the old list ...
Bug_KeepCount(t) ==
    /\ stage[t] = "idle" /\ ~destroyed
    /\ resolverLock = NULL
    /\ resolverLock' = t
    /\ freedLists' = FreeCurrent
    /\ addresses' = NULL
    /\ stage' = [stage EXCEPT ![t] = "resolving"]
    /\ UNCHANGED <<kind, custom, addressCount, length, using, seen, destroyed>>
Resolve(t) ==
    /\ stage[t] = "idle" /\ ~destroyed
    /\ resolverLock = NULL
    /\ resolverLock' = t
    /\ freedLists' = FreeCurrent
    /\ addresses' = NULL
    /\ addressCount' = 0
    /\ stage' = [stage EXCEPT ![t] = "resolving"]
    /\ UNCHANGED <<kind, custom, length, using, seen, destroyed>>

\* ... and install what the resolution returns, or leave none and return -1.
ResolveFails(t) ==
    /\ stage[t] = "resolving"
    /\ 0 \in Answers
    /\ resolverLock' = NULL
    /\ stage' = [stage EXCEPT ![t] = "idle"]
    /\ UNCHANGED <<kind, custom, addresses, addressCount, length, freedLists, using,
                   seen, destroyed>>

ResolveInstalls(t, n) ==
    /\ stage[t] = "resolving"
    /\ n \in Answers \ {0}
    /\ \E l \in AddressLists \ Allocated :
         /\ addresses' = l
         /\ length' = [length EXCEPT ![l] = n]
    /\ addressCount' = addressCount + n
    /\ resolverLock' = NULL
    /\ stage' = [stage EXCEPT ![t] = "idle"]
    /\ UNCHANGED <<kind, custom, freedLists, using, seen, destroyed>>

\* grpc_name_resolver_get_addresses ...
GetAddresses(t) ==
    /\ stage[t] = "idle" /\ ~destroyed
    /\ resolverLock = NULL
    /\ addresses # NULL
    /\ using[t] = NULL
    /\ using' = [using EXCEPT ![t] = addresses]
    /\ UNCHANGED <<kind, custom, addresses, addressCount, resolverLock, length,
                   freedLists, stage, seen, destroyed>>

\* ... and _get_address_count, called to go with it.
GetCount(t) ==
    /\ stage[t] = "idle" /\ ~destroyed
    /\ resolverLock = NULL
    /\ using[t] # NULL
    /\ seen' = [seen EXCEPT ![t] = addressCount]
    /\ UNCHANGED <<kind, custom, addresses, addressCount, resolverLock, length,
                   freedLists, stage, using, destroyed>>

\* The thread has read the list.
ReleaseList(t) ==
    /\ using[t] # NULL
    /\ using' = [using EXCEPT ![t] = NULL]
    /\ seen' = [seen EXCEPT ![t] = NULL]
    /\ UNCHANGED <<kind, custom, addresses, addressCount, resolverLock, length,
                   freedLists, stage, destroyed>>

\* grpc_name_resolver_set_custom_resolver
SetCustom ==
    /\ ~destroyed
    /\ resolverLock = NULL
    /\ custom' = TRUE
    /\ UNCHANGED <<kind, addresses, addressCount, resolverLock, length, freedLists,
                   stage, using, seen, destroyed>>

\* grpc_name_resolver_destroy
DestroyResolver ==
    /\ ~destroyed
    /\ resolverLock = NULL
    /\ freedLists' = FreeCurrent
    /\ destroyed' = TRUE
    /\ UNCHANGED <<kind, custom, addresses, addressCount, resolverLock, length,
                   stage, using, seen>>

ResolverNext ==
    \/ \E t \in Threads :
         \/ Resolve(t) \/ ResolveFails(t)
         \/ \E n \in 1 .. MaxAddresses : ResolveInstalls(t, n)
         \/ GetAddresses(t) \/ GetCount(t) \/ ReleaseList(t)
    \/ SetCustom
    \/ DestroyResolver

ResolverSpec == ResolverInit /\ [][ResolverNext]_resolverVars

-----------------------------------------------------------------------------
\* Whatever resolutions have succeeded, failed or are under way, only the
\* current list is allocated: none is leaked, and a failed resolve leaves no
\* pointer to the list it freed.
OnlyCurrentAllocated ==
    ~destroyed => Allocated \ freedLists = {addresses} \ {NULL}

\* A thread reads the resolver's own list while others resolve: the list lives
\* until the next resolve starts, and no longer; as long as it does, the
\* length the thread is told in a second call is that of the list it reads,
\* whatever was resolved between its two calls.
ReaderConsistent ==
    \A t \in Threads :
        using[t] # NULL /\ ~destroyed =>
            /\ using[t] \in freedLists <=> using[t] # addresses
            /\ seen[t] # NULL /\ using[t] = addresses => seen[t] = length[using[t]]
=============================================================================
