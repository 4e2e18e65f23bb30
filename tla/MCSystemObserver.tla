-------------------------- MODULE MCSystemObserver --------------------------
(***************************************************************************)
(* SystemObserver with the snapshots of its runs and symmetric identities. *)
(* What the log does depends on a snapshot only through the identity of    *)
(* the container, so a container with logs is looked at in one state; one  *)
(* without them has every snapshot.                                        *)
(***************************************************************************)
EXTENDS SystemObserver, TLC

ProcessSnapshots ==
  [state : States, health : {"none"}, oom : {FALSE}, load : [{"cpu", "rss"} -> Levels]]

DockerSnapshots ==
  [state : States, health : Healths, oom : BOOLEAN, load : [{"memory"} -> Levels]]

LogSnapshots ==
  [state : {"running"}, health : {"none"}, oom : {FALSE}, load : [{"memory"} -> {"low"}]]

AllSnapshots ==
  [k \in Kinds |-> CASE k = "process" -> ProcessSnapshots
                     [] k = "docker" -> DockerSnapshots
                     [] k = "docker_logs" -> LogSnapshots]

Symmetry == Permutations(Units) \cup Permutations(Errors)

=============================================================================
