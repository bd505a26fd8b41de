------------------------------- MODULE Logger -------------------------------
(***************************************************************************)
(* The logger of observability.c: a handler and its user_data, replaced    *)
(* and called with logger->mutex held.                                     *)
(***************************************************************************)
EXTENDS Common, Integers

CONSTANTS
    Handlers,     \* log handlers; the user_data of h is h as well
    Levels,       \* grpc_log_level
    MinLevel      \* logger->min_level

ASSUME LoggerAssumption == Levels \subseteq Int /\ MinLevel \in Int

VARIABLES
    logFunc,      \* logger->log_func
    logData,      \* logger->user_data
    loggerLock,   \* owner of logger->mutex
    logging,      \* logging[t]: what thread t does with the logger
    logged        \* the latest call of a handler: handler, user_data, level

loggerVars == <<logFunc, logData, loggerLock, logging, logged>>

Away == [at |-> "idle"]

LoggerInit ==
    /\ logFunc = NULL
    /\ logData = NULL
    /\ loggerLock = NULL
    /\ logging = [t \in Threads |-> Away]
    /\ logged = NULL

\* grpc_logger_set_handler: two assignments with the mutex held.
Bug_SetFunc(t, h) ==
    /\ logging[t] = Away
    /\ loggerLock = NULL
    /\ logFunc' = h
    /\ logging' = [logging EXCEPT ![t] = [at |-> "setting", handler |-> h]]
    /\ UNCHANGED <<logData, loggerLock, logged>>
SetFunc(t, h) ==
    /\ logging[t] = Away
    /\ loggerLock = NULL
    /\ loggerLock' = t
    /\ logFunc' = h
    /\ logging' = [logging EXCEPT ![t] = [at |-> "setting", handler |-> h]]
    /\ UNCHANGED <<logData, logged>>

SetData(t) ==
    /\ logging[t].at = "setting"
    /\ logData' = logging[t].handler
    /\ loggerLock' = NULL
    /\ logging' = [logging EXCEPT ![t] = Away]
    /\ UNCHANGED <<logFunc, logged>>

\* grpc_logger_log: the level is compared before the mutex is locked.
Log(t, level) ==
    /\ logging[t] = Away
    /\ loggerLock # "destroyed"
    /\ level >= MinLevel
    /\ logging' = [logging EXCEPT ![t] = [at |-> "logging", level |-> level]]
    /\ UNCHANGED <<logFunc, logData, loggerLock, logged>>

LogLocks(t) ==
    /\ logging[t].at = "logging"
    /\ loggerLock = NULL
    /\ loggerLock' = t
    /\ logging' = [logging EXCEPT ![t].at = "locked"]
    /\ UNCHANGED <<logFunc, logData, logged>>

LogReturns(t) ==
    /\ logging[t].at = "locked"
    /\ logged' = IF logFunc = NULL THEN logged
                 ELSE [handler |-> logFunc, data |-> logData, level |-> logging[t].level]
    /\ loggerLock' = NULL
    /\ logging' = [logging EXCEPT ![t] = Away]
    /\ UNCHANGED <<logFunc, logData>>

\* grpc_logger_destroy, when no thread uses the logger.
DestroyLogger ==
    /\ \A t \in Threads : logging[t] = Away
    /\ loggerLock = NULL
    /\ loggerLock' = "destroyed"
    /\ UNCHANGED <<logFunc, logData, logging, logged>>

LoggerNext ==
    \/ \E t \in Threads :
         \/ \E h \in Handlers \union {NULL} : SetFunc(t, h)
         \/ SetData(t)
         \/ \E level \in Levels : Log(t, level)
         \/ LogLocks(t) \/ LogReturns(t)
    \/ DestroyLogger

LoggerSpec == LoggerInit /\ [][LoggerNext]_loggerVars

-----------------------------------------------------------------------------
\* A handler is called with the user_data that was set with it, never with
\* that of the handler before or after it, and only for messages at or above
\* the logger's level, although the handler is replaced while others log.
LogFaithful ==
    logged # NULL => logged.data = logged.handler /\ logged.level >= MinLevel
=============================================================================
