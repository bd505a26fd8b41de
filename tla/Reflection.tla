----------------------------- MODULE Reflection -----------------------------
(***************************************************************************)
(* The reflection registry (reflection.c): a list of services that grows   *)
(* at its head, each with a list of methods that does, changed with        *)
(* registry->mutex held.  list_services and get_service hand out pointers  *)
(* into the lists, which their callers follow with no mutex while others   *)
(* add to them.                                                            *)
(***************************************************************************)
EXTENDS Common, Integers, Sequences, FiniteSets

CONSTANTS
    ServiceNodes,   \* grpc_service_descriptor: the services that are added
    ServiceNames,
    Methods,
    MaxMethods      \* bound: methods added

ASSUME ReflectionAssumption == IsFiniteSet(ServiceNodes) /\ NULL \notin ServiceNodes

VARIABLES
    services,       \* registry->services
    serviceCount,   \* registry->service_count
    service,        \* service[n]: service_name, methods and next of n
    walker,         \* walker[t]: thread t on its way along the services
    registered,     \* history: the services, the newest first
    methodsOf       \* history: methodsOf[name]: the methods added to it since it
                    \* was registered last, the newest first

reflectionVars == <<services, serviceCount, service, walker, registered, methodsOf>>

NoService == [name |-> NULL, methods |-> <<>>, next |-> NULL, memory |-> "none"]
NotWalking == [at |-> NULL, seen |-> <<>>, expected |-> <<>>]

ReflectionInit ==
    /\ services = NULL
    /\ serviceCount = 0
    /\ service = [n \in ServiceNodes |-> NoService]
    /\ walker = [t \in Threads |-> NotWalking]
    /\ registered = <<>>
    /\ methodsOf = [name \in ServiceNames |-> <<>>]

\* The list from a service on, as it is linked now.
ListFrom(n) ==
    LET from[k \in 0 .. Cardinality(ServiceNodes)] ==
            IF k = 0 THEN <<n>>
            ELSE LET last == from[k - 1][Len(from[k - 1])]
                 IN  IF last = NULL \/ service[last].next = NULL THEN from[k - 1]
                     ELSE Append(from[k - 1], service[last].next)
    IN  IF n = NULL THEN <<>> ELSE from[Cardinality(ServiceNodes)]

\* The first service of that name, NULL if there is none.
FindService(name) ==
    LET list == ListFrom(services)
        found == {i \in 1 .. Len(list) : service[list[i]].name = name}
    IN  IF found = {} THEN NULL ELSE list[CHOOSE i \in found : \A j \in found : i <= j]

RegistryFreed == \E n \in ServiceNodes : service[n].memory = "freed"

-----------------------------------------------------------------------------
\* grpc_reflection_registry_add_service; without memory nothing happens.
Bug_LinkService(n, name) ==
    IF services = NULL
      THEN /\ service' = [service EXCEPT ![n] = [NoService EXCEPT !.name = name,
                                                                  !.memory = "held"]]
           /\ services' = n
      ELSE /\ service' = [service EXCEPT
                            ![n] = [NoService EXCEPT !.name = name, !.memory = "held",
                                                     !.next = service[services].next],
                            ![services].next = n]
           /\ UNCHANGED services
LinkService(n, name) ==
    /\ service' = [service EXCEPT ![n] = [name |-> name, methods |-> <<>>, next |-> services,
                                          memory |-> "held"]]
    /\ services' = n

AddService(n, name) ==
    /\ service[n].memory = "none" /\ ~RegistryFreed
    /\ LinkService(n, name)
    /\ serviceCount' = serviceCount + 1
    /\ registered' = <<n>> \o registered
    /\ methodsOf' = [methodsOf EXCEPT ![name] = <<>>]
    /\ UNCHANGED walker

\* grpc_reflection_registry_add_method: -1 if there is no such service.
AddMethod(name, m) ==
    LET n == FindService(name)
    IN  /\ n # NULL /\ ~RegistryFreed
        /\ Len(service[n].methods) < MaxMethods
        /\ service' = [service EXCEPT ![n].methods = <<m>> \o @]
        /\ methodsOf' = [methodsOf EXCEPT ![name] = <<m>> \o @]
        /\ UNCHANGED <<services, serviceCount, walker, registered>>

\* grpc_reflection_registry_list_services, and its caller's way along next.
ListServices(t) ==
    /\ walker[t].at = NULL /\ ~RegistryFreed
    /\ walker' = [walker EXCEPT ![t] = [at |-> services, seen |-> <<>>, expected |-> registered]]
    /\ UNCHANGED <<services, serviceCount, service, registered, methodsOf>>

Walk(t) ==
    LET n == walker[t].at
    IN  /\ n # NULL
        /\ walker' = [walker EXCEPT ![t].at = service[n].next, ![t].seen = Append(@, n)]
        /\ UNCHANGED <<services, serviceCount, service, registered, methodsOf>>

\* grpc_reflection_registry_destroy, when no thread uses the registry.
DestroyRegistry ==
    LET list == ListFrom(services)
    IN  /\ \A t \in Threads : walker[t].at = NULL
        /\ services # NULL /\ ~RegistryFreed
        /\ service' = [n \in ServiceNodes |-> IF \E i \in 1 .. Len(list) : list[i] = n
                                                THEN [service[n] EXCEPT !.memory = "freed"]
                                                ELSE service[n]]
        /\ UNCHANGED <<services, serviceCount, walker, registered, methodsOf>>

ReflectionNext ==
    \/ \E n \in ServiceNodes, name \in ServiceNames : AddService(n, name)
    \/ \E name \in ServiceNames, m \in Methods : AddMethod(name, m)
    \/ \E t \in Threads : ListServices(t) \/ Walk(t)
    \/ DestroyRegistry

ReflectionSpec == ReflectionInit /\ [][ReflectionNext]_reflectionVars

-----------------------------------------------------------------------------
\* A caller that follows the list it got from list_services meets exactly the
\* services that were registered when it asked, each once, whatever is added
\* meanwhile; service_count of them are in the registry; get_service finds by
\* a name the latest service of that name with all methods added to it since;
\* and no service is left allocated when the registry is destroyed.
RegistryStable ==
    /\ \A t \in Threads :
         LET w == walker[t] IN w.seen \o ListFrom(w.at) = w.expected
    /\ serviceCount = Len(ListFrom(services))
    /\ \A name \in ServiceNames :
         FindService(name) # NULL => service[FindService(name)].methods = methodsOf[name]
    /\ RegistryFreed => \A n \in ServiceNodes : service[n].memory # "held"
=============================================================================
