----------------------------- MODULE MCServices -----------------------------
(***************************************************************************)
(* The objects behind a mutex of their own that an application shares      *)
(* between its threads: interceptor chains, trace contexts, metrics,       *)
(* loggers, the reflection registry, load balancing policies and name      *)
(* resolvers.  They share no state in the code, so that a behaviour is the *)
(* threads on one of them, named by subject.                               *)
(***************************************************************************)
EXTENDS InterceptorChain, Tracing, Metrics, Logger, Reflection, LoadBalancer, NameResolver

VARIABLE subject

\* Amounts of both signs: a .cfg file has no negative numbers.
MCAmounts == {-1, 2}

\* A weight the code replaces by 1, and two it keeps.
MCWeights == {-1, 1, 2}

ServicesInit ==
    /\ subject \in {"chain", "trace", "metrics", "logger", "reflection", "policy", "resolver"}
    /\ IF subject = "policy" THEN TRUE ELSE policy = "PICK_FIRST"
    /\ IF subject = "resolver" THEN TRUE ELSE kind = "DNS"
    /\ ChainInit /\ TraceInit /\ MetricsInit /\ LoggerInit /\ ReflectionInit
    /\ PolicyInit /\ ResolverInit

Work(s, step, others) == subject = s /\ step /\ UNCHANGED <<subject, others>>

callVars == <<chainVars, traceVars, metricsVars>>
nameVars == <<reflectionVars, policyVars, resolverVars>>

Chain(step) == Work("chain", step, <<traceVars, metricsVars, loggerVars, nameVars>>)

ServicesNext ==
    \/ Chain(ChainNext)
    \/ Work("trace", TraceNext, <<chainVars, metricsVars, loggerVars, nameVars>>)
    \/ Work("metrics", MetricsNext, <<chainVars, traceVars, loggerVars, nameVars>>)
    \/ Work("logger", LoggerNext, <<callVars, nameVars>>)
    \/ Work("reflection", ReflectionNext, <<callVars, loggerVars, policyVars, resolverVars>>)
    \/ Work("policy", PolicyNext, <<callVars, loggerVars, reflectionVars, resolverVars>>)
    \/ Work("resolver", ResolverNext, <<callVars, loggerVars, reflectionVars, policyVars>>)

servicesVars == <<subject, callVars, loggerVars, nameVars>>

\* Threads run; a mutex that is released again and again is obtained; every
\* callback returns.
ServicesSpec ==
    /\ ServicesInit /\ [][ServicesNext]_servicesVars
    /\ \A t \in Threads :
         /\ SF_servicesVars(Chain(ExecuteLocks(t)))
         /\ WF_servicesVars(Chain(ExecuteRuns(t)))
=============================================================================
