---------------------------- MODULE MCWorkerLife ----------------------------
(* A thread with its file, the place it is archived to and a copy of it in  *)
(* the home of another Codex instance.                                      *)
EXTENDS WorkerLife

MCPaths == {"sessions", "archived", "copy"}
MCHome == [p \in MCPaths |-> IF p = "copy" THEN "instance" ELSE "home"]
MCWalk == <<"sessions", "archived", "copy">>

\* A thread whose second turn has a file of its own.
TurnPaths == {"first turn", "second turn"}
TurnHome == [p \in TurnPaths |-> "home"]
TurnWalk == <<"first turn", "second turn">>
=============================================================================
