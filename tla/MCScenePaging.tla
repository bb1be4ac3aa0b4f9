---------------------------- MODULE MCScenePaging ----------------------------
(* Small instances of ScenePaging for TLC. *)
EXTENDS ScenePaging

\* The first objects of Ids = 1..n, in order: an object is known by its age.
Initial == {[i \in 1..n |-> i] : n \in 0..5}
=============================================================================
