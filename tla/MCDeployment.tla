---------------------------- MODULE MCDeployment ----------------------------
(* One host running all modes, and a worker of an older release beside it, *)
(* on a database that is new, or that a binary with another version of a   *)
(* file has already migrated.                                              *)
EXTENDS Deployment

MCProcesses == {"host", "worker"}
MCCommand == [p \in MCProcesses |-> IF p = "host" THEN "all" ELSE "worker"]

Initial == [name |-> "0001", sum |-> "released"]
Keys == [name |-> "0002", sum |-> "released"]
MCEmbedded == [p \in MCProcesses |-> IF p = "host" THEN <<Initial, Keys>> ELSE <<Initial>>]
MCInstalled == {{}, {Initial, [Keys EXCEPT !.sum = "draft"]}}
=============================================================================
