---------------------------- MODULE MCRhinoClient ----------------------------
(* Instance of RhinoClient for TLC: calls that share a key. *)
EXTENDS RhinoClient

CONSTANTS c1, c2, o1

OneKey == [c \in Calls |-> CHOOSE k \in Keys : TRUE]
=============================================================================
