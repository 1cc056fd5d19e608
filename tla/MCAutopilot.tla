----------------------------- MODULE MCAutopilot -----------------------------
(* Instances of Autopilot for TLC. *)
EXTENDS Autopilot, TLC

Symmetric == Permutations(Starts) \cup Permutations(Resumes) \cup Permutations(Runs)
                 \cup Permutations(Payloads)

\* The hypothesis of HandedOverRunSettles: behaviours in which tasks overlap are not followed.
Serial == \A r \in Runs : OneAtATime(r)
=============================================================================
