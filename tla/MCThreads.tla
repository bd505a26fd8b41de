----------------------------- MODULE MCThreads -----------------------------
(***************************************************************************)
(* The components whose threads wait for each other: the completion queue  *)
(* with its consumers, the connection pool with its keep-alive thread and  *)
(* the server with its workers.  They share no state in the code, so that  *)
(* a behaviour is one of them at work, named by subject, while the others  *)
(* do nothing.                                                             *)
(***************************************************************************)
EXTENDS CompletionQueue, ConnectionPool, Server

VARIABLE subject

ThreadsInit ==
    /\ subject \in {"queue", "pool", "server"}
    /\ subject # "pool" => keeper = "none"
    /\ Init /\ PoolInit /\ ServerInit

Work(s, step, others) == subject = s /\ step /\ UNCHANGED <<subject, others>>

Queue(step) == Work("queue", step, <<poolVars, serverVars>>)
Pool(step) == Work("pool", step, <<vars, serverVars>>)
Serving(step) == Work("server", step, <<vars, poolVars>>)

ThreadsNext == Queue(Next) \/ Pool(PoolNext) \/ Serving(ServerNext)

threadsVars == <<subject, vars, poolVars, serverVars>>

\* The fairness of the three components (FairSpec, PoolFairSpec and
\* ServerFairSpec): a thread that can run does, and time goes on.
ThreadsSpec ==
    /\ ThreadsInit /\ [][ThreadsNext]_threadsVars
    /\ \A e \in Events : WF_threadsVars(Queue(PushLink(e)))
    /\ \A c \in Consumers : WF_threadsVars(Queue(NextSteps(c)))
    /\ WF_threadsVars(Pool(Tick))
    /\ WF_threadsVars(Pool(KeepalivePass)) /\ WF_threadsVars(Pool(KeepaliveExit))
    /\ WF_threadsVars(Pool(JoinKeeper)) /\ WF_threadsVars(Pool(FreePool))
    /\ \A w \in Workers : WF_threadsVars(Serving(WorkerStep(w)))
    /\ WF_threadsVars(Serving(JoinWorkers)) /\ WF_threadsVars(Serving(Notify))
=============================================================================
