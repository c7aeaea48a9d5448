-------------------------- MODULE MCModuleManager ---------------------------
(* Instances of ModuleManager for TLC: the logger, the thread pool, the    *)
(* database module, which depends on the logger, and the second object     *)
(* that carries the name of the database module.                           *)
EXTENDS ModuleManager

CONSTANTS logger, threadpool, database, database2

MCModules == {logger, threadpool, database, database2}
MCNames == {"logger", "threadpool", "database"}
MCNameOf ==
    [m \in MCModules |->
        IF m = logger THEN "logger" ELSE IF m = threadpool THEN "threadpool" ELSE "database"]
MCDependsOn ==
    [m \in MCModules |-> IF m \in {database, database2} THEN {"logger"} ELSE {}]

Everybody == MCModules
=============================================================================
