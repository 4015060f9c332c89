---------------------------- MODULE MCRpcScheduler ----------------------------
(* Values for TLC that a configuration file cannot write.                    *)
EXTENDS RpcScheduler

MCRetryBackoff == <<1, 3>>
===============================================================================
