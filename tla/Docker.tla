------------------------------- MODULE Docker -------------------------------
(***************************************************************************)
(* The Docker engine, as the daemon's `docker` command lines meet it: the  *)
(* one container called <prefix>.<uuid>.  The engine itself is not part of *)
(* the repository; these operators say what each command line that         *)
(* internal/docker issues does to that container when it succeeds.         *)
(***************************************************************************)
CONSTANT NoSpec      \* the spec of a container no job of this model built

(* What `docker inspect -f {{.State.Status}}` prints, "missing" being the  *)
(* daemon's own word for "no such object".                                 *)
Status == {"missing", "created", "running", "exited"}

(* A container is its status and the CreateSpec it was built from.         *)
Missing == [status |-> "missing", spec |-> NoSpec]

Built(s) == [status |-> "created", spec |-> s]      \* docker create

Exists(c) == c.status # "missing"

Started(c) == [c EXCEPT !.status = "running"]       \* docker start, restart

Stopped(c) ==                                       \* docker stop
  IF c.status = "running" THEN [c EXCEPT !.status = "exited"] ELSE c
=============================================================================
