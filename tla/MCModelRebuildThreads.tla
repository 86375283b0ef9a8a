----------------------- MODULE MCModelRebuildThreads -----------------------
(* Threads that validate and rebuild, with or without force.                *)
EXTENDS ModelRebuildThreads

CONSTANTS t1, t2, t3
=============================================================================
