------------------------------- MODULE MCSpawner -------------------------------
(* Two services under up to two svdss processes, whose pids come back into *)
(* use when the pid file no longer has them.                               *)
EXTENDS Spawner

MCServices == {"app", "db"}
=============================================================================
