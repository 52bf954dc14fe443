------------------------- MODULE MCProjectLifecycle -------------------------
(* A server with a watcher and a handler, and the process of a CLI call.    *)
EXTENDS ProjectLifecycle

CONSTANTS server, cli, watcher, handler, command

MCOf == [t \in Threads |-> IF t = command THEN cli ELSE server]
=============================================================================
